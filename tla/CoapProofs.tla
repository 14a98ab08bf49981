----------------------------- MODULE CoapProofs -----------------------------
(***************************************************************************)
(* Proofs about Coap, for any number of peers, resources, blocks of the    *)
(* transaction pool, observers, retransmissions and events: no block and   *)
(* no observer is lost or held twice, a client has one relation for a      *)
(* resource, and nobody ends the relations of another client.              *)
(***************************************************************************)
EXTENDS Coap, SeqLemmas

-----------------------------------------------------------------------------
(* The inductive invariant, of the two tables as values.                   *)

\* transactions_memb and transactions_list agree, and whatever is open has a
\* retransmission to come.
TrOK(t) ==
    /\ t \in [blk : [Block -> Transaction], list : Seq(Block), used : SUBSET Block]
    /\ IsInjective(t.list) /\ ToSet(t.list) = t.used
    /\ \A b \in Block : t.blk[b].retr < MaxRetransmit

\* observers_memb and observers_list agree, and a client observes a resource once.
ObOK(o) ==
    /\ o \in [slot : [Slot -> Observer], list : Seq(Slot), used : SUBSET Slot]
    /\ IsInjective(o.list) /\ ToSet(o.list) = o.used
    /\ \A i, j \in o.used :
          o.slot[i].addr = o.slot[j].addr /\ o.slot[i].url = o.slot[j].url => i = j

\* What an observer waits for is open, and with that observer.
Waiting(t, o) ==
    \A i \in o.used : o.slot[i].last_mid \in Block =>
       o.slot[i].last_mid \in t.used /\ t.blk[o.slot[i].last_mid].addr = o.slot[i].addr

PairOK(s) == s = [t |-> s.t, o |-> s.o] /\ TrOK(s.t) /\ ObOK(s.o) /\ Waiting(s.t, s.o)

CoapInv ==
    /\ TrOK(tr) /\ ObOK(ob) /\ Waiting(tr, ob)
    /\ transaction \in Block \cup {0}
    /\ alive \in [Peer -> BOOLEAN] /\ budget \in 0..MaxEvents

-----------------------------------------------------------------------------
(* Pools.                                                                  *)

\* The facts about the constants that the proofs need.
LEMMA Numbers ==
    /\ MaxOpen \in Nat /\ MaxObservers \in Nat /\ MaxEvents \in Nat
    /\ MaxRetransmit \in Nat /\ 0 < MaxRetransmit
    /\ RefreshInterval \in Nat /\ 0 < RefreshInterval
    /\ Block \subseteq Nat /\ 0 \notin Block /\ Slot \subseteq Nat /\ 0 \notin Slot
    /\ Block \subseteq Mid /\ 0 \in Mid
    /\ \A i \in Slot : Past(i) \in Mid /\ Past(i) \notin Block
    /\ SomePeer \in Peer /\ SomeUrl \in Url
    /\ Freed \in Transaction /\ Freed.retr < MaxRetransmit
    /\ \A n \in 0..(RefreshInterval - 1) : Vacant(n) \in Observer
  <1>1. /\ MaxOpen \in Nat /\ MaxObservers \in Nat /\ MaxEvents \in Nat
        /\ MaxRetransmit \in Nat /\ 0 < MaxRetransmit
        /\ RefreshInterval \in Nat /\ 0 < RefreshInterval
    BY CoapAssumption
  <1>2. /\ Block \subseteq Nat /\ 0 \notin Block /\ Slot \subseteq Nat /\ 0 \notin Slot
        /\ Block \subseteq Mid /\ 0 \in Mid
        /\ \A i \in Slot : Past(i) \in Mid /\ Past(i) \notin Block
    BY <1>1 DEF Block, Slot, Mid, Past
  <1>3. SomePeer \in Peer /\ SomeUrl \in Url
    BY CoapAssumption DEF SomePeer, SomeUrl
  <1>4. Freed \in Transaction /\ Freed.retr < MaxRetransmit
    BY <1>1, <1>3 DEF Freed, Transaction
  <1>5. \A n \in 0..(RefreshInterval - 1) : Vacant(n) \in Observer
    BY <1>2, <1>3 DEF Vacant, Observer
  <1> QED BY <1>1, <1>2, <1>3, <1>4, <1>5

\* The pools are finite.
LEMMA PoolsFinite == IsFiniteSet(Block) /\ IsFiniteSet(Slot)
  <1>1. MaxOpen \in Int /\ MaxObservers \in Int /\ 1 \in Int
    BY CoapAssumption
  <1>2. IsFiniteSet(1 .. MaxOpen) /\ IsFiniteSet(1 .. MaxObservers)
    BY <1>1, FS_Interval
  <1> QED BY <1>2 DEF Block, Slot

\* memb_alloc hands out a free block, or none when all are taken.
LEMMA AllocIs ==
  ASSUME NEW pool \in SUBSET Nat, 0 \notin pool, NEW used
  PROVE  \/ pool \subseteq used /\ memb_alloc(pool, used) = 0
         \/ ~(pool \subseteq used) /\ memb_alloc(pool, used) \in pool \ used
  <1>1. CASE pool \subseteq used
    BY <1>1 DEF memb_alloc
  <1>2. CASE ~(pool \subseteq used)
    <2>1. pool \ used \in SUBSET Nat /\ pool \ used # {}
      BY <1>2
    <2>2. Min(pool \ used) \in pool \ used
      BY <2>1, MinIs
    <2> QED BY <1>2, <2>2 DEF memb_alloc
  <1> QED BY <1>1, <1>2

\* A finite set of numbers has an enumeration in ascending order.
Enumerates(f, S) ==
    /\ f \in [1..Cardinality(S) -> S]
    /\ \A i, j \in 1..Cardinality(S) : i < j => f[i] < f[j]

LEMMA EnumerationExists ==
  ASSUME NEW S \in SUBSET Nat, IsFiniteSet(S)
  PROVE  \E f : Enumerates(f, S)
  <1> DEFINE Bad(n) == \E U \in SUBSET Nat : IsFiniteSet(U) /\ Cardinality(U) = n /\ ~\E f : Enumerates(f, U)
             T == {n \in Nat : Bad(n)}
  <1>1. SUFFICES T = {}
    <2>1. Cardinality(S) \in Nat
      BY FS_CardinalityType
    <2> QED BY <1>1, <2>1
  <1>2. SUFFICES ASSUME T # {} PROVE FALSE
    OBVIOUS
  <1>3. PICK n \in T : \A k \in T : n <= k
    <2>1. T \in SUBSET Nat
      OBVIOUS
    <2> HIDE DEF T
    <2> QED BY <1>2, <2>1, NatLeast
  <1>4. PICK U \in SUBSET Nat : IsFiniteSet(U) /\ Cardinality(U) = n /\ ~\E f : Enumerates(f, U)
    BY <1>3
  <1>5. U # {}
    <2>1. SUFFICES ASSUME U = {} PROVE FALSE
      OBVIOUS
    <2>2. Cardinality(U) = 0
      BY <2>1, FS_EmptySet
    <2>3. Enumerates([i \in 1..Cardinality(U) |-> 0], U)
      BY <2>2 DEF Enumerates
    <2> QED BY <1>4, <2>3
  <1>6. PICK x \in U : \A k \in U : x <= k
    BY <1>4, <1>5, NatLeast
  <1> DEFINE V == U \ {x}
  <1>7. IsFiniteSet(V) /\ Cardinality(V) = n - 1 /\ V \in SUBSET Nat
    BY <1>4, <1>6, FS_RemoveElement
  <1>8. n \in Nat /\ n - 1 \in Nat
    BY <1>7, FS_CardinalityType, <1>3
  <1>9. n - 1 \notin T
    BY <1>3, <1>8
  <1>10. PICK g : Enumerates(g, V)
    <2> HIDE DEF V
    <2> QED BY <1>7, <1>8, <1>9
  <1> DEFINE f == [i \in 1..n |-> IF i = 1 THEN x ELSE g[i - 1]]
  <1>11. \A i \in 1..n : i # 1 => i - 1 \in 1..(n - 1)
    BY <1>8
  <1>12. g \in [1..(n - 1) -> V] /\ \A i, j \in 1..(n - 1) : i < j => g[i] < g[j]
    BY <1>7, <1>10 DEF Enumerates
  <1>13. f \in [1..n -> U]
    BY <1>6, <1>11, <1>12
  <1>14. \A i \in 1..n : i # 1 => f[i] = g[i - 1] /\ f[i] \in V /\ f[i] \in Nat
    BY <1>7, <1>11, <1>12
  <1>15. x \in Nat /\ \A v \in V : x < v
    BY <1>4, <1>6
  <1>16. ASSUME NEW i \in 1..n, NEW j \in 1..n, i < j PROVE f[i] < f[j]
    <2>1. j # 1
      BY <1>8, <1>16
    <2>2. CASE i = 1
      BY <1>14, <1>15, <2>1, <2>2
    <2>3. CASE i # 1
      <3>1. i - 1 \in 1..(n - 1) /\ j - 1 \in 1..(n - 1) /\ i - 1 < j - 1
        BY <1>8, <1>11, <1>16, <2>1, <2>3
      <3>2. g[i - 1] < g[j - 1]
        BY <1>12, <3>1
      <3> HIDE DEF f
      <3> QED BY <1>14, <2>1, <2>3, <3>2
    <2> QED BY <2>2, <2>3
  <1>17. Enumerates(f, U)
    <2> HIDE DEF f
    <2> QED BY <1>4, <1>13, <1>16 DEF Enumerates
  <1> QED BY <1>4, <1>17

\* Ascending is one, and it holds every element once.
LEMMA AscendingIs ==
  ASSUME NEW S \in SUBSET Nat, IsFiniteSet(S)
  PROVE  /\ Ascending(S) \in Seq(S) /\ Len(Ascending(S)) = Cardinality(S)
         /\ IsInjective(Ascending(S)) /\ ToSet(Ascending(S)) = S
  <1> DEFINE f == Ascending(S)
             n == Cardinality(S)
  <1>1. n \in Nat
    BY FS_CardinalityType
  <1>2. Enumerates(f, S)
    <2>1. \E g \in [1..n -> S] : \A i, j \in DOMAIN g : i < j => g[i] < g[j]
      BY EnumerationExists DEF Enumerates
    <2>2. f \in [1..n -> S] /\ \A i, j \in DOMAIN f : i < j => f[i] < f[j]
      BY <2>1 DEF Ascending
    <2> HIDE DEF f
    <2> QED BY <2>2 DEF Enumerates
  <1> HIDE DEF f
  <1>3. f \in [1..n -> S] /\ \A i, j \in 1..n : i < j => f[i] < f[j]
    BY <1>2 DEF Enumerates
  <1> HIDE DEF n
  <1>4. f \in Seq(S) /\ Len(f) = n /\ DOMAIN f = 1..n
    BY <1>1, <1>3
  <1>5. ASSUME NEW i \in 1..n, NEW j \in 1..n, f[i] = f[j] PROVE i = j
    <2>1. f[i] \in Nat /\ f[j] \in Nat
      BY <1>3
    <2>2. ~(i < j) /\ ~(j < i)
      BY <1>3, <1>5, <2>1
    <2> QED BY <1>1, <2>2
  <1>6. IsInjective(f)
    BY <1>4, <1>5 DEF IsInjective
  <1>7. f \in Injection(1..n, S)
    BY <1>3, <1>6 DEF Injection
  <1>8. Cardinality(1..n) = n
    <2>1. Cardinality(1..n) = IF 1 > n THEN 0 ELSE n - 1 + 1
      BY <1>1, FS_Interval
    <2> QED BY <1>1, <2>1
  <1>9. f \in Surjection(1..n, S)
    BY <1>7, <1>8, FS_Injection DEF n
  <1>10. ToSet(f) = S
    BY <1>4, <1>9 DEF Surjection, ToSet
  <1> QED BY <1>4, <1>6, <1>10 DEF f, n

-----------------------------------------------------------------------------
(* er-coap-transactions.c                                                  *)

TrTable == [blk : [Block -> Transaction], list : Seq(Block), used : SUBSET Block]
ObTable == [slot : [Slot -> Observer], list : Seq(Slot), used : SUBSET Slot]

TrWith(t, b, v) == [t EXCEPT !.used = @ \cup {b}, !.list = Append(@, b), !.blk[b] = v]

\* Taking a block.
LEMMA TrAdded ==
  ASSUME NEW t \in TrTable, NEW b \in Block, NEW v \in Transaction
  PROVE  LET r == TrWith(t, b, v)
         IN  /\ r \in TrTable /\ r.used = t.used \cup {b} /\ r.list = Append(t.list, b)
             /\ r.blk = [t.blk EXCEPT ![b] = v]
  <1> DEFINE x == [t EXCEPT !.used = @ \cup {b}]
             y == [x EXCEPT !.list = Append(@, b)]
             z == [y EXCEPT !.blk[b] = v]
  <1>1. x \in TrTable /\ x.used = t.used \cup {b} /\ x.list = t.list /\ x.blk = t.blk
    BY DEF TrTable
  <1>2. z = TrWith(t, b, v)
    BY DEF TrWith
  <1> HIDE DEF x
  <1>0. Append(x.list, b) \in Seq(Block)
    BY <1>1 DEF TrTable
  <1>3. y \in TrTable /\ y.used = x.used /\ y.list = Append(t.list, b) /\ y.blk = x.blk
    <2> DEFINE l == Append(x.list, b)
    <2>1. y = [x EXCEPT !.list = l]
      OBVIOUS
    <2>2. l \in Seq(Block) /\ l = Append(t.list, b)
      BY <1>0, <1>1
    <2> HIDE DEF l, y
    <2> QED BY <1>1, <2>1, <2>2 DEF TrTable
  <1> HIDE DEF y
  <1>4. z \in TrTable /\ z.used = y.used /\ z.list = y.list /\ z.blk = [y.blk EXCEPT ![b] = v]
    BY <1>3 DEF TrTable
  <1> HIDE DEF z
  <1> QED BY <1>1, <1>2, <1>3, <1>4

\* Giving a block back.
LEMMA TrFreed ==
  ASSUME NEW t \in TrTable, NEW b \in Block, NEW v \in Transaction, RemoveFirst(t.list, b) \in Seq(Block)
  PROVE  LET r == [t EXCEPT !.used = @ \ {b}, !.list = RemoveFirst(@, b), !.blk[b] = v]
         IN  /\ r \in TrTable /\ r.used = t.used \ {b} /\ r.list = RemoveFirst(t.list, b)
             /\ r.blk = [t.blk EXCEPT ![b] = v]
  <1> DEFINE x == [t EXCEPT !.used = @ \ {b}]
             y == [x EXCEPT !.list = RemoveFirst(@, b)]
             z == [y EXCEPT !.blk[b] = v]
  <1>1. x \in TrTable /\ x.used = t.used \ {b} /\ x.list = t.list /\ x.blk = t.blk
    BY DEF TrTable
  <1>2. z = [t EXCEPT !.used = @ \ {b}, !.list = RemoveFirst(@, b), !.blk[b] = v]
    OBVIOUS
  <1> HIDE DEF x
  <1>3. y \in TrTable /\ y.used = x.used /\ y.list = RemoveFirst(t.list, b) /\ y.blk = x.blk
    BY <1>1 DEF TrTable
  <1> HIDE DEF y
  <1>4. z \in TrTable /\ z.used = y.used /\ z.list = y.list /\ z.blk = [y.blk EXCEPT ![b] = v]
    BY <1>3 DEF TrTable
  <1> HIDE DEF z
  <1> QED BY <1>1, <1>2, <1>3, <1>4

\* Taking a slot.
LEMMA ObAdded ==
  ASSUME NEW o \in ObTable, NEW i \in Slot, NEW v \in Observer
  PROVE  LET r == [o EXCEPT !.used = @ \cup {i}, !.list = Append(@, i), !.slot[i] = v]
         IN  /\ r \in ObTable /\ r.used = o.used \cup {i} /\ r.list = Append(o.list, i)
             /\ r.slot = [o.slot EXCEPT ![i] = v]
  <1> DEFINE x == [o EXCEPT !.used = @ \cup {i}]
             y == [x EXCEPT !.list = Append(@, i)]
             z == [y EXCEPT !.slot[i] = v]
  <1>1. x \in ObTable /\ x.used = o.used \cup {i} /\ x.list = o.list /\ x.slot = o.slot
    BY DEF ObTable
  <1>2. z = [o EXCEPT !.used = @ \cup {i}, !.list = Append(@, i), !.slot[i] = v]
    OBVIOUS
  <1> HIDE DEF x
  <1>0. Append(x.list, i) \in Seq(Slot)
    BY <1>1 DEF ObTable
  <1>3. y \in ObTable /\ y.used = x.used /\ y.list = Append(o.list, i) /\ y.slot = x.slot
    <2> DEFINE l == Append(x.list, i)
    <2>1. y = [x EXCEPT !.list = l]
      OBVIOUS
    <2>2. l \in Seq(Slot) /\ l = Append(o.list, i)
      BY <1>0, <1>1
    <2> HIDE DEF l, y
    <2> QED BY <1>1, <2>1, <2>2 DEF ObTable
  <1> HIDE DEF y
  <1>4. z \in ObTable /\ z.used = y.used /\ z.list = y.list /\ z.slot = [y.slot EXCEPT ![i] = v]
    BY <1>3 DEF ObTable
  <1> HIDE DEF z
  <1> QED BY <1>1, <1>2, <1>3, <1>4

\* A fresh block is open, and nobody waits for it yet.
LEMMA NewOK ==
  ASSUME NEW s, PairOK(s), NEW b \in Block \ s.t.used, NEW p \in Peer
  PROVE  LET n == coap_new_transaction(s, b, p)
         IN  /\ PairOK(n) /\ n.o = s.o
             /\ n.t.used = s.t.used \cup {b}
  <1> DEFINE r == [addr |-> p, retr |-> 0, active |-> FALSE]
             t == TrWith(s.t, b, r)
             n == coap_new_transaction(s, b, p)
  <1>1. /\ s = [t |-> s.t, o |-> s.o] /\ TrOK(s.t) /\ ObOK(s.o) /\ Waiting(s.t, s.o)
        /\ s.t \in TrTable
    BY DEF PairOK, TrOK, TrTable
  <1>2. n = [t |-> t, o |-> s.o]
    BY DEF coap_new_transaction, TrWith
  <1>3. r \in Transaction /\ r.retr < MaxRetransmit
    BY Numbers DEF Transaction
  <1>4. /\ Append(s.t.list, b) \in Seq(Block) /\ IsInjective(Append(s.t.list, b))
        /\ ToSet(Append(s.t.list, b)) = s.t.used \cup {b}
    BY <1>1, AppendKeeps DEF TrOK
  <1> HIDE DEF r, n
  <1>6. /\ t \in TrTable /\ t.used = s.t.used \cup {b} /\ t.list = Append(s.t.list, b)
        /\ t.blk = [s.t.blk EXCEPT ![b] = r]
    <2>1. s.t \in TrTable /\ b \in Block /\ r \in Transaction
      BY <1>1, <1>3
    <2> QED BY <2>1, TrAdded
  <1> HIDE DEF t
  <1>8. s.t.blk \in [Block -> Transaction]
    BY <1>1 DEF TrTable
  <1>9. TrOK(t)
    BY <1>1, <1>3, <1>4, <1>6, <1>8 DEF TrOK, TrTable
  <1>10. Waiting(t, s.o)
    BY <1>1, <1>6, <1>8 DEF Waiting
  <1>11. /\ n.t = t /\ n.o = s.o /\ n = [t |-> n.t, o |-> n.o]
    BY <1>2
  <1> QED BY <1>1, <1>6, <1>9, <1>10, <1>11 DEF PairOK, n, r

\* A block that is given up is free, and who waited for it waits no more.
LEMMA ClearOK ==
  ASSUME NEW s, PairOK(s), NEW b \in Block \cup {0}
  PROVE  LET n == coap_clear_transaction(s, b)
         IN  /\ PairOK(n) /\ n.o.used = s.o.used
             /\ \A i \in Slot : n.o.slot[i].addr = s.o.slot[i].addr /\ n.o.slot[i].url = s.o.slot[i].url
             /\ n.t.used = s.t.used \ {b}
             /\ \A c \in Block : c # b => n.t.blk[c] = s.t.blk[c]
  <1> DEFINE n == coap_clear_transaction(s, b)
             t == [s.t EXCEPT !.used = @ \ {b}, !.list = RemoveFirst(@, b), !.blk[b] = Freed]
             o == RenamePast(s.o, b)
             S == s.o.slot
  <1>1. /\ s = [t |-> s.t, o |-> s.o] /\ TrOK(s.t) /\ ObOK(s.o) /\ Waiting(s.t, s.o)
        /\ s.t \in TrTable /\ s.o \in ObTable
    BY DEF PairOK, TrOK, TrTable, ObOK, ObTable
  <1>2. CASE b = 0
    <2>1. n = s /\ 0 \notin s.t.used
      BY <1>1, <1>2, Numbers DEF coap_clear_transaction, TrTable
    <2> QED BY <1>2, <2>1
  <1>3. CASE b # 0
    <2>0. b \in Block
      BY <1>3
    <2>1. n = [t |-> t, o |-> o]
      BY <1>3 DEF coap_clear_transaction
    <2>2. /\ RemoveFirst(s.t.list, b) \in Seq(Block) /\ IsInjective(RemoveFirst(s.t.list, b))
          /\ ToSet(RemoveFirst(s.t.list, b)) = s.t.used \ {b}
      BY <1>1, RemoveFirstKeeps DEF TrOK
    <2>3. s.t.used \ {b} \in SUBSET Block /\ Freed \in Transaction /\ Freed.retr < MaxRetransmit
      BY <1>1, Numbers DEF TrTable
    <2>4. /\ t \in TrTable /\ t.used = s.t.used \ {b} /\ t.list = RemoveFirst(s.t.list, b)
          /\ t.blk = [s.t.blk EXCEPT ![b] = Freed]
      BY <1>1, <2>0, <2>2, <2>3, TrFreed
    <2> HIDE DEF t
    <2>5. s.t.blk \in [Block -> Transaction] /\ s.o.used \subseteq Slot
      BY <1>1 DEF TrTable, ObTable
    <2>6. TrOK(t)
      BY <1>1, <2>2, <2>3, <2>4, <2>5 DEF TrOK, TrTable
    <2> DEFINE F == [i \in Slot |-> IF i \in s.o.used /\ S[i].last_mid = b
                                    THEN [S[i] EXCEPT !.last_mid = Past(i)] ELSE S[i]]
    <2>7. o = [s.o EXCEPT !.slot = F]
      BY DEF RenamePast
    <2>8. S \in [Slot -> Observer]
      BY <1>1 DEF ObTable
    <2> HIDE DEF S
    <2>9. ASSUME NEW i \in Slot
          PROVE  /\ F[i] \in Observer /\ F[i].addr = S[i].addr /\ F[i].url = S[i].url
                 /\ F[i].last_mid = IF i \in s.o.used /\ S[i].last_mid = b THEN Past(i) ELSE S[i].last_mid
      BY <2>8, Numbers DEF Observer
    <2>10. F \in [Slot -> Observer]
      BY <2>9
    <2> HIDE DEF F
    <2>11. /\ o \in ObTable /\ o.slot = F /\ o.list = s.o.list /\ o.used = s.o.used
      BY <1>1, <2>7, <2>10 DEF ObTable
    <2> HIDE DEF o
    <2>12. ObOK(o)
      BY <1>1, <2>5, <2>9, <2>11 DEF ObOK, ObTable, S
    <2>13. Waiting(t, o)
      <3>1. SUFFICES ASSUME NEW i \in s.o.used, F[i].last_mid \in Block
                     PROVE  F[i].last_mid \in t.used /\ t.blk[F[i].last_mid].addr = F[i].addr
        BY <2>11 DEF Waiting
      <3>2. i \in Slot /\ Past(i) \notin Block
        BY <2>5, Numbers
      <3>3. F[i].last_mid = S[i].last_mid /\ S[i].last_mid # b /\ F[i].addr = S[i].addr
        BY <2>9, <3>1, <3>2
      <3>4. S[i].last_mid \in s.t.used /\ s.t.blk[S[i].last_mid].addr = S[i].addr
        BY <1>1, <3>1, <3>3 DEF Waiting, S
      <3> QED BY <2>4, <2>5, <3>1, <3>3, <3>4
    <2>14. n.t = t /\ n.o = o /\ n = [t |-> n.t, o |-> n.o]
      BY <2>1
    <2>15. \A c \in Block : c # b => t.blk[c] = s.t.blk[c]
      BY <2>4, <2>5
    <2> QED BY <2>4, <2>6, <2>9, <2>11, <2>12, <2>13, <2>14, <2>15 DEF PairOK, S
  <1> QED BY <1>2, <1>3

\* Sending starts the timer of the transaction or ends it.
LEMMA SendOK ==
  ASSUME NEW s, PairOK(s), NEW b \in s.t.used
  PROVE  LET n == coap_send_transaction(s, b, TRUE) IN PairOK(n) /\ n.o = s.o
  <1> DEFINE n == coap_send_transaction(s, b, TRUE)
             v == [s.t.blk[b] EXCEPT !.active = TRUE]
             t == [s.t EXCEPT !.blk = [s.t.blk EXCEPT ![b] = v]]
  <1>1. /\ s = [t |-> s.t, o |-> s.o] /\ TrOK(s.t) /\ ObOK(s.o) /\ Waiting(s.t, s.o)
        /\ s.t \in TrTable
    BY DEF PairOK, TrOK, TrTable
  <1>2. s.t.blk \in [Block -> Transaction] /\ b \in Block
    BY <1>1 DEF TrTable
  <1>3. v \in Transaction /\ v.retr = s.t.blk[b].retr /\ v.addr = s.t.blk[b].addr
    BY <1>2 DEF Transaction
  <1>4. n = [s EXCEPT !.t = t]
    BY <1>1, <1>2 DEF coap_send_transaction
  <1> HIDE DEF v, n
  <1>5. t \in TrTable /\ t.used = s.t.used /\ t.list = s.t.list /\ t.blk = [s.t.blk EXCEPT ![b] = v]
    BY <1>1, <1>2, <1>3 DEF TrTable
  <1> HIDE DEF t
  <1>6. TrOK(t)
    BY <1>1, <1>2, <1>3, <1>5 DEF TrOK, TrTable
  <1>7. Waiting(t, s.o)
    BY <1>1, <1>2, <1>3, <1>5 DEF Waiting
  <1>8. n = [t |-> t, o |-> s.o]
    BY <1>1, <1>4
  <1>9. n.t = t /\ n.o = s.o /\ n = [t |-> n.t, o |-> n.o]
    BY <1>8
  <1> QED BY <1>1, <1>6, <1>7, <1>9 DEF PairOK, n

-----------------------------------------------------------------------------
(* er-coap-observe.c                                                       *)

\* The relations of a client.
Rel(o, q) == {i \in o.used : o.slot[i].addr = q}

\* A removal loop ends one of the relations it looks for, if there is one.
LEMMA RemoveOK ==
  ASSUME NEW o, ObOK(o), NEW G \in SUBSET o.used
  PROVE  LET r == coap_remove_observer(o, G)
         IN  /\ ObOK(r) /\ \A t : Waiting(t, o) => Waiting(t, r)
             /\ \/ G = {} /\ r = o
                \/ \E x \in G : /\ r.used = o.used \ {x}
                                /\ \A j \in o.used \ {x} : r.slot[j] = o.slot[j]
  <1> DEFINE r == coap_remove_observer(o, G)
             I == {k \in 1..Len(o.list) : o.list[k] \in G}
             i == SelectInSeq(o.list, LAMBDA x : x \in G)
  <1>1. /\ o \in ObTable /\ o.list \in Seq(Slot) /\ IsInjective(o.list) /\ ToSet(o.list) = o.used
        /\ o.slot \in [Slot -> Observer] /\ o.used \in SUBSET Slot
    BY DEF ObOK, ObTable
  <1>2. \A x \in G : \E k \in 1..Len(o.list) : o.list[k] = x
    BY <1>1, ToSetIs
  <1>3. i = IF I # {} THEN Min(I) ELSE 0
    BY DEF SelectInSeq
  <1>4. CASE I = {}
    <2>1. G = {} /\ i = 0
      BY <1>2, <1>3, <1>4
    <2>2. r = o
      BY <2>1 DEF coap_remove_observer
    <2> QED BY <2>1, <2>2
  <1>5. CASE I # {}
    <2>1. I \in SUBSET Nat
      BY <1>1
    <2>2. i \in I
      <3> HIDE DEF I
      <3> QED BY <1>3, <1>5, <2>1, MinIs
    <2> DEFINE x == o.list[i]
               v == Vacant(o.slot[x].counter)
    <2>3. i \in 1..Len(o.list) /\ x \in G /\ x \in Slot /\ i # 0 /\ x \in o.used
      BY <1>1, <2>2
    <2>4. r = [o EXCEPT !.used = @ \ {x}, !.list = RemoveAt(@, i), !.slot[x] = v]
      BY <2>3 DEF coap_remove_observer
    <2>5. v \in Observer
      <3>1. o.slot[x] \in Observer
        BY <1>1, <2>3
      <3>2. o.slot[x].counter \in 0..(RefreshInterval - 1)
        BY <3>1 DEF Observer
      <3> QED BY <3>2, Numbers
    <2> HIDE DEF i, v, r
    <2>6. /\ RemoveAt(o.list, i) \in Seq(Slot) /\ IsInjective(RemoveAt(o.list, i))
          /\ ToSet(RemoveAt(o.list, i)) = o.used \ {x}
      BY <1>1, <2>3, RemoveAtKeeps
    <2> HIDE DEF x
    <2>7. /\ r \in ObTable /\ r.used = o.used \ {x} /\ r.list = RemoveAt(o.list, i)
          /\ r.slot = [o.slot EXCEPT ![x] = v]
      <3> DEFINE l == RemoveAt(o.list, i)
                 U == o.used \ {x}
                 w == [o.slot EXCEPT ![x] = v]
                 z == [o EXCEPT !.used = U, !.list = l, !.slot = w]
      <3>1. o \in ObTable /\ l \in Seq(Slot) /\ U \in SUBSET Slot /\ w \in [Slot -> Observer]
        BY <1>1, <2>3, <2>5, <2>6
      <3>2. r = z
        BY <2>4
      <3> HIDE DEF l, U, w
      <3>3. z \in ObTable /\ z.used = U /\ z.list = l /\ z.slot = w
        BY <3>1 DEF ObTable
      <3> HIDE DEF z
      <3> QED BY <3>2, <3>3 DEF l, U, w
    <2>8. \A j \in o.used \ {x} : r.slot[j] = o.slot[j]
      BY <1>1, <2>7
    <2>9. ObOK(r)
      BY <1>1, <2>6, <2>7, <2>8 DEF ObOK, ObTable
    <2>10. \A t : Waiting(t, o) => Waiting(t, r)
      BY <2>7, <2>8 DEF Waiting
    <2> QED BY <2>3, <2>7, <2>8, <2>9, <2>10 DEF r
  <1> QED BY <1>4, <1>5

\* A registration replaces the client's old relation, and takes no other client's.
LEMMA AddOK ==
  ASSUME NEW o, ObOK(o), NEW p \in Peer, NEW u \in Url
  PROVE  LET r == add_observer(o, p, u)
         IN  /\ ObOK(r) /\ \A t : Waiting(t, o) => Waiting(t, r)
             /\ \A q \in Peer : Cardinality(Rel(r, q)) >= Cardinality(Rel(o, q))
  <1> DEFINE G == {i \in o.used : o.slot[i].addr = p /\ o.slot[i].url = u}
             k == coap_remove_observer(o, G)
             s == memb_alloc(Slot, k.used)
             r == add_observer(o, p, u)
  <1>1. k = coap_remove_observer_by_uri(o, p, u)
    BY DEF coap_remove_observer_by_uri
  <1>2. /\ ObOK(k) /\ \A t : Waiting(t, o) => Waiting(t, k)
        /\ \/ G = {} /\ k = o
           \/ \E x \in G : /\ k.used = o.used \ {x}
                           /\ \A j \in o.used \ {x} : k.slot[j] = o.slot[j]
    <2>1. G \in SUBSET o.used
      OBVIOUS
    <2> HIDE DEF G
    <2> QED BY <2>1, RemoveOK
  <1> HIDE DEF k
  <1>3. k \in ObTable /\ k.used \in SUBSET Slot /\ k.slot \in [Slot -> Observer] /\ k.list \in Seq(Slot)
        /\ IsInjective(k.list) /\ ToSet(k.list) = k.used
    BY <1>2 DEF ObOK, ObTable
  <1>4. \/ Slot \subseteq k.used /\ s = 0
        \/ s \in Slot \ k.used
    BY Numbers, AllocIs
  <1>5. IsFiniteSet(Slot) /\ o.used \in SUBSET Slot
    BY PoolsFinite DEF ObOK
  <1>6. \A q : IsFiniteSet(Rel(o, q)) /\ Cardinality(Rel(o, q)) \in Nat
    <2>1. \A q : Rel(o, q) \in SUBSET Slot
      BY <1>5 DEF Rel
    <2> QED BY <1>5, <2>1, FS_Subset, FS_CardinalityType
  <1> HIDE DEF s
  <1>7. CASE s = 0
    <2>1. r = k
      BY <1>1, <1>7 DEF add_observer, s
    <2>2. Slot \subseteq k.used
      BY <1>4, <1>7, Numbers
    <2>3. k = o
      BY <1>2, <1>5, <2>2
    <2> QED BY <1>2, <1>6, <2>1, <2>3
  <1>8. CASE s # 0
    <2> DEFINE v == [addr |-> p, url |-> u, last_mid |-> 0,
                     counter |-> (k.slot[s].counter + 1) % RefreshInterval]
    <2>1. s \in Slot /\ s \notin k.used
      BY <1>4, <1>8
    <2>2. r = [k EXCEPT !.used = @ \cup {s}, !.list = Append(@, s), !.slot[s] = v]
      BY <1>1, <1>8 DEF add_observer, s
    <2>3. v \in Observer
      <3>1. k.slot[s].counter \in Nat
        BY <1>3, <2>1 DEF Observer
      <3>2. (k.slot[s].counter + 1) % RefreshInterval \in 0..(RefreshInterval - 1)
        BY <3>1, Numbers
      <3> QED BY <3>2, Numbers DEF Observer
    <2>4. v.addr = p /\ v.url = u /\ v.last_mid = 0
      OBVIOUS
    <2> HIDE DEF v, r
    <2>5. /\ r \in ObTable /\ r.used = k.used \cup {s} /\ r.list = Append(k.list, s)
          /\ r.slot = [k.slot EXCEPT ![s] = v]
      <3> DEFINE z == [k EXCEPT !.used = @ \cup {s}, !.list = Append(@, s), !.slot[s] = v]
      <3>1. /\ z \in ObTable /\ z.used = k.used \cup {s} /\ z.list = Append(k.list, s)
            /\ z.slot = [k.slot EXCEPT ![s] = v]
        <4>1. k \in ObTable /\ s \in Slot /\ v \in Observer
          BY <1>3, <2>1, <2>3
        <4> QED BY <4>1, ObAdded
      <3>2. r = z
        BY <2>2
      <3> HIDE DEF z
      <3> QED BY <3>1, <3>2
    <2>6. /\ Append(k.list, s) \in Seq(Slot) /\ IsInjective(Append(k.list, s))
          /\ ToSet(Append(k.list, s)) = k.used \cup {s}
      BY <1>3, <2>1, AppendKeeps
    <2>7. r.slot[s] = v /\ \A j \in k.used : r.slot[j] = k.slot[j]
      BY <1>3, <2>1, <2>5
    <2>8. \A j \in k.used : ~(k.slot[j].addr = p /\ k.slot[j].url = u)
      <3>1. CASE G = {} /\ k = o
        BY <3>1
      <3>2. CASE \E x \in G : /\ k.used = o.used \ {x}
                              /\ \A j \in o.used \ {x} : k.slot[j] = o.slot[j]
        BY <3>2 DEF ObOK
      <3> QED BY <1>2, <3>1, <3>2
    <2>9. ObOK(r)
      BY <1>2, <1>3, <2>4, <2>5, <2>6, <2>7, <2>8 DEF ObOK, ObTable
    <2>10. \A t : Waiting(t, o) => Waiting(t, r)
      BY <1>2, <2>4, <2>5, <2>7, Numbers DEF Waiting
    <2>11. ASSUME NEW q \in Peer PROVE Cardinality(Rel(r, q)) >= Cardinality(Rel(o, q))
      <3>1. Rel(r, q) = Rel(k, q) \cup IF q = p THEN {s} ELSE {}
        BY <2>4, <2>5, <2>7 DEF Rel
      <3>2. IsFiniteSet(Rel(r, q)) /\ Cardinality(Rel(r, q)) \in Nat
        <4>1. Rel(r, q) \in SUBSET Slot
          BY <2>5 DEF Rel, ObTable
        <4> QED BY <1>5, <4>1, FS_Subset, FS_CardinalityType
      <3>3. CASE G = {} /\ k = o
        <4>1. Rel(o, q) \in SUBSET Rel(r, q)
          BY <3>1, <3>3
        <4>2. Cardinality(Rel(o, q)) <= Cardinality(Rel(r, q))
          BY <3>2, <4>1, FS_Subset
        <4> QED BY <1>6, <3>2, <4>2
      <3>4. CASE \E x \in G : /\ k.used = o.used \ {x}
                              /\ \A j \in o.used \ {x} : k.slot[j] = o.slot[j]
        <4>1. PICK x \in G : /\ k.used = o.used \ {x}
                             /\ \A j \in o.used \ {x} : k.slot[j] = o.slot[j]
          BY <3>4
        <4>2. x \in o.used /\ o.slot[x].addr = p
          OBVIOUS
        <4>3. CASE q # p
          <5>1. Rel(r, q) = Rel(o, q)
            BY <3>1, <4>1, <4>2, <4>3 DEF Rel
          <5> QED BY <1>6, <5>1
        <4>4. CASE q = p
          <5>1. Rel(k, q) = Rel(o, q) \ {x} /\ x \in Rel(o, q)
            BY <4>1, <4>2, <4>4 DEF Rel
          <5>2. Rel(r, q) = Rel(k, q) \cup {s} /\ s \notin Rel(k, q)
            BY <2>1, <3>1, <4>4 DEF Rel
          <5>3. IsFiniteSet(Rel(k, q)) /\ Cardinality(Rel(k, q)) = Cardinality(Rel(o, q)) - 1
            BY <1>6, <5>1, FS_RemoveElement
          <5>4. Cardinality(Rel(r, q)) = Cardinality(Rel(k, q)) + 1
            BY <5>2, <5>3, FS_AddElement
          <5> QED BY <1>6, <5>3, <5>4
        <4> QED BY <4>3, <4>4
      <3> QED BY <1>2, <3>3, <3>4
    <2> QED BY <2>9, <2>10, <2>11 DEF r
  <1> QED BY <1>7, <1>8

\* The place of a position among the positions of a finite set: from 1 up to the size
\* of the set, and no two positions have the same.
LEMMA RankIs ==
  ASSUME NEW R \in SUBSET Nat, IsFiniteSet(R)
  PROVE  /\ \A k \in R : Cardinality({j \in R : j <= k}) \in 1..Cardinality(R)
         /\ \A k, h \in R : Cardinality({j \in R : j <= k}) = Cardinality({j \in R : j <= h}) => k = h
  <1> DEFINE B(k) == {j \in R : j <= k}
  <1>1. ASSUME NEW k \in R
        PROVE  B(k) \in SUBSET R /\ IsFiniteSet(B(k)) /\ Cardinality(B(k)) \in 1..Cardinality(R)
    <2>1. B(k) \in SUBSET R /\ k \in B(k)
      OBVIOUS
    <2> HIDE DEF B
    <2>2. IsFiniteSet(B(k)) /\ Cardinality(B(k)) <= Cardinality(R)
      BY <2>1, FS_Subset
    <2>3. Cardinality(R) \in Nat /\ Cardinality(B(k)) \in Nat
      BY <2>2, FS_CardinalityType
    <2>4. Cardinality(B(k)) # 0
      BY <2>1, <2>2, FS_EmptySet
    <2> QED BY <2>1, <2>2, <2>3, <2>4
  <1>2. ASSUME NEW k \in R, NEW h \in R, k < h PROVE Cardinality(B(k)) # Cardinality(B(h))
    <2>0. k \in Nat /\ h \in Nat /\ ~(h <= k) /\ h <= h /\ \A j \in R : j <= k => j <= h
      <3>1. k \in Nat /\ h \in Nat /\ \A j \in R : j \in Nat
        OBVIOUS
      <3> QED BY <1>2, <3>1
    <2>1. B(k) \in SUBSET B(h) /\ h \in B(h) /\ h \notin B(k)
      BY <2>0
    <2>2. IsFiniteSet(B(h))
      BY <1>1
    <2> HIDE DEF B
    <2> QED BY <2>1, <2>2, FS_Subset
  <1>3. ASSUME NEW k \in R, NEW h \in R, Cardinality(B(k)) = Cardinality(B(h)) PROVE k = h
    <2>1. ~(k < h) /\ ~(h < k)
      BY <1>2, <1>3
    <2> QED BY <2>1
  <1> QED BY <1>1, <1>3

\* The blocks of a round of notifications are free and all different, and each belongs
\* to one observer.
LEMMA PlanOK ==
  ASSUME NEW s, PairOK(s), NEW u
  PROVE  LET plan == NotifyPlan(s, u)
         IN  /\ plan.blk \in Seq(Block) /\ IsInjective(plan.blk)
             /\ ToSet(plan.blk) \cap s.t.used = {}
             /\ \A c \in plan.con : c.to \in s.o.used /\ c.blk \in ToSet(plan.blk)
             /\ \A c, d \in plan.con : c.blk = d.blk => c.to = d.to
             /\ plan.non \subseteq s.o.used
  <1> DEFINE at(k)   == s.o.slot[s.o.list[k]]
             match   == {k \in DOMAIN s.o.list : at(k).url = u}
             R       == {k \in match : \E j \in match : j <= k /\ at(j).counter = 0}
             F       == Block \ s.t.used
             free    == Ascending(F)
             rank(k) == Cardinality({j \in R : j <= k})
             m       == Min({Len(free), Cardinality(R)})
             con     == {[to |-> s.o.list[k], blk |-> free[rank(k)]] : k \in {j \in R : rank(j) <= Len(free)}}
             blk     == SubSeq(free, 1, m)
             non     == IF free = <<>> THEN {} ELSE {s.o.list[k] : k \in match \ R}
  <1>1. NotifyPlan(s, u) = [con |-> con, blk |-> blk, non |-> non]
    BY DEF NotifyPlan
  <1>2. s.o.list \in Seq(Slot) /\ ToSet(s.o.list) = s.o.used /\ s.t.used \in SUBSET Block
    BY DEF PairOK, TrOK, ObOK
  <1>3. \A k \in DOMAIN s.o.list : s.o.list[k] \in s.o.used
    BY <1>2 DEF ToSet
  <1>4. match \subseteq DOMAIN s.o.list /\ R \subseteq match
    OBVIOUS
  <1> HIDE DEF match, R
  <1>5. R \in SUBSET Nat /\ IsFiniteSet(R)
    <2>1. DOMAIN s.o.list = 1..Len(s.o.list) /\ Len(s.o.list) \in Nat
      BY <1>2
    <2>2. IsFiniteSet(1..Len(s.o.list))
      BY <2>1, FS_Interval
    <2>3. R \in SUBSET (1..Len(s.o.list))
      BY <1>4, <2>1
    <2>4. R \in SUBSET Nat
      BY <2>3
    <2>5. IsFiniteSet(R)
      BY <2>2, <2>3, FS_Subset
    <2> QED BY <2>4, <2>5
  <1>6. /\ \A k \in R : rank(k) \in 1..Cardinality(R)
        /\ \A k, h \in R : rank(k) = rank(h) => k = h
    BY <1>5, RankIs
  <1> HIDE DEF rank
  <1>7. Cardinality(R) \in Nat
    BY <1>5, FS_CardinalityType
  <1>8. F \in SUBSET Nat /\ IsFiniteSet(F)
    BY Numbers, PoolsFinite, FS_Difference
  <1> HIDE DEF F
  <1>9. free \in Seq(F) /\ IsInjective(free) /\ ToSet(free) = F
    BY <1>8, AscendingIs
  <1> HIDE DEF free
  <1>10. Len(free) \in Nat /\ DOMAIN free = 1..Len(free)
    BY <1>9
  <1>11. m \in {Len(free), Cardinality(R)} /\ m <= Len(free) /\ m <= Cardinality(R)
    <2> DEFINE M == {Len(free), Cardinality(R)}
    <2>1. M \in SUBSET Nat /\ M # {} /\ Len(free) \in M /\ Cardinality(R) \in M
      BY <1>7, <1>10
    <2> HIDE DEF M
    <2>2. Min(M) \in M /\ \A x \in M : Min(M) <= x
      BY <2>1, MinIs
    <2> QED BY <2>1, <2>2 DEF M
  <1> HIDE DEF m
  <1>12. m \in 0..Len(free) /\ \A n \in Nat : n <= Len(free) /\ n <= Cardinality(R) => n <= m
    BY <1>7, <1>10, <1>11
  <1>13. /\ blk \in Seq(F) /\ IsInjective(blk) /\ Len(blk) = m
         /\ \A i \in 1..m : blk[i] = free[i]
         /\ ToSet(blk) \subseteq F
    BY <1>9, <1>12, PrefixKeeps
  <1> HIDE DEF blk
  <1>14. blk \in Seq(Block) /\ ToSet(blk) \cap s.t.used = {}
    BY <1>13 DEF F
  <1>15. ASSUME NEW k \in R, rank(k) <= Len(free)
         PROVE  rank(k) \in 1..m /\ rank(k) \in 1..Len(free) /\ free[rank(k)] \in ToSet(blk)
    <2>1. rank(k) \in 1..m /\ rank(k) \in 1..Len(free)
      BY <1>6, <1>7, <1>10, <1>12, <1>15
    <2>2. DOMAIN blk = 1..m
      BY <1>13
    <2> QED BY <1>13, <2>1, <2>2 DEF ToSet
  <1>16. \A c \in con : \E k \in R : /\ rank(k) <= Len(free)
                                     /\ c.to = s.o.list[k] /\ c.blk = free[rank(k)]
    OBVIOUS
  <1> HIDE DEF con
  <1>17. \A c \in con : c.to \in s.o.used /\ c.blk \in ToSet(blk)
    BY <1>3, <1>4, <1>15, <1>16
  <1>18. ASSUME NEW c \in con, NEW d \in con, c.blk = d.blk PROVE c.to = d.to
    <2>1. PICK k \in R : rank(k) <= Len(free) /\ c.to = s.o.list[k] /\ c.blk = free[rank(k)]
      BY <1>16
    <2>2. PICK h \in R : rank(h) <= Len(free) /\ d.to = s.o.list[h] /\ d.blk = free[rank(h)]
      BY <1>16
    <2>3. rank(k) \in DOMAIN free /\ rank(h) \in DOMAIN free /\ free[rank(k)] = free[rank(h)]
      BY <1>10, <1>15, <1>18, <2>1, <2>2
    <2>4. rank(k) = rank(h)
      BY <1>9, <2>3 DEF IsInjective
    <2> QED BY <1>6, <2>1, <2>2, <2>4
  <1>19. non \subseteq s.o.used
    BY <1>3, <1>4
  <1> HIDE DEF non
  <1> QED BY <1>1, <1>13, <1>14, <1>17, <1>18, <1>19

\* A notification changes the identifier and the counter of an observer, nothing else.
LEMMA NotifiedIs ==
  ASSUME NEW obs \in Observer, NEW mid \in Mid, NEW ok \in BOOLEAN
  PROVE  LET z == Notified(obs, mid, ok)
         IN  z \in Observer /\ z.addr = obs.addr /\ z.url = obs.url /\ z.last_mid = mid
  <1> DEFINE w == IF ok THEN (obs.counter + 1) % RefreshInterval ELSE obs.counter
             y == [obs EXCEPT !.last_mid = mid, !.counter = w]
  <1>1. Notified(obs, mid, ok) = y
    BY DEF Notified
  <1>2. w \in 0..(RefreshInterval - 1)
    <2>1. obs.counter \in 0..(RefreshInterval - 1) /\ RefreshInterval \in Nat /\ 0 < RefreshInterval
      BY Numbers DEF Observer
    <2> QED BY <2>1
  <1> HIDE DEF w
  <1>3. y \in Observer /\ y.addr = obs.addr /\ y.url = obs.url /\ y.last_mid = mid
    BY <1>2 DEF Observer
  <1> QED BY <1>1, <1>3

\* A round of notifications opens a transaction with each observer that it makes wait,
\* and ends nobody's relation.
LEMMA NotifyOK ==
  ASSUME NEW s, PairOK(s), NEW u, NEW ok \in BOOLEAN
  PROVE  LET n == coap_notify_observers(s, NotifyPlan(s, u), ok)
         IN  /\ PairOK(n) /\ n.o.used = s.o.used
             /\ \A i \in Slot : n.o.slot[i].addr = s.o.slot[i].addr /\ n.o.slot[i].url = s.o.slot[i].url
  <1> DEFINE plan == NotifyPlan(s, u)
             n == coap_notify_observers(s, plan, ok)
             Owner(b) == CHOOSE c \in plan.con : c.blk = b
             Sent(i) == CHOOSE c \in plan.con : c.to = i
             S == s.o.slot
             B == [b \in Block |-> IF \E c \in plan.con : c.blk = b
                                   THEN [addr |-> S[Owner(b).to].addr, retr |-> 0, active |-> TRUE]
                                   ELSE s.t.blk[b]]
             P == [i \in Slot |-> IF i \in plan.non
                                  THEN Notified(S[i], Past(i), ok)
                                  ELSE IF \E c \in plan.con : c.to = i
                                  THEN Notified(S[i], Sent(i).blk, ok)
                                  ELSE S[i]]
             U == s.t.used \cup ToSet(plan.blk)
             l == s.t.list \o plan.blk
             t == [used |-> U, list |-> l, blk |-> B]
             o == [s.o EXCEPT !.slot = P]
  <1>1. /\ plan.blk \in Seq(Block) /\ IsInjective(plan.blk)
        /\ ToSet(plan.blk) \cap s.t.used = {}
        /\ \A c \in plan.con : c.to \in s.o.used /\ c.blk \in ToSet(plan.blk)
        /\ \A c, d \in plan.con : c.blk = d.blk => c.to = d.to
        /\ plan.non \subseteq s.o.used
    BY PlanOK
  <1> HIDE DEF plan
  <1>2. n = [t |-> t, o |-> o]
    <2>1. n.t = t
      BY DEF coap_notify_observers
    <2>2. n.o = o
      BY DEF coap_notify_observers
    <2>3. n = [t |-> n.t, o |-> n.o]
      BY DEF coap_notify_observers
    <2> HIDE DEF n, t, o
    <2> QED BY <2>1, <2>2, <2>3
  <1> HIDE DEF n
  <1>3. /\ TrOK(s.t) /\ ObOK(s.o) /\ Waiting(s.t, s.o) /\ s.o \in ObTable
        /\ s.t.blk \in [Block -> Transaction] /\ s.t.list \in Seq(Block) /\ s.t.used \in SUBSET Block
        /\ IsInjective(s.t.list) /\ ToSet(s.t.list) = s.t.used
        /\ S \in [Slot -> Observer] /\ s.o.used \in SUBSET Slot
    BY DEF PairOK, TrOK, ObOK, ObTable
  <1>5. \A b : (\E c \in plan.con : c.blk = b) => Owner(b) \in plan.con /\ Owner(b).blk = b
    OBVIOUS
  <1>6. \A i : (\E c \in plan.con : c.to = i) => Sent(i) \in plan.con /\ Sent(i).to = i
    OBVIOUS
  <1> HIDE DEF S, Owner, Sent
  <1>7. ToSet(plan.blk) \subseteq Block
    BY <1>1, ToSetIs
  <1>8. ASSUME NEW b \in Block
        PROVE  /\ B[b] \in Transaction /\ B[b].retr < MaxRetransmit
               /\ (\E c \in plan.con : c.blk = b) => B[b].addr = S[Owner(b).to].addr
               /\ ~(\E c \in plan.con : c.blk = b) => B[b] = s.t.blk[b]
    <2>1. CASE \E c \in plan.con : c.blk = b
      <3>1. Owner(b).to \in Slot
        BY <1>1, <1>3, <1>5, <2>1
      <3>2. S[Owner(b).to].addr \in Peer
        BY <1>3, <3>1 DEF Observer
      <3>3. B[b] = [addr |-> S[Owner(b).to].addr, retr |-> 0, active |-> TRUE]
        BY <2>1
      <3> HIDE DEF B
      <3> QED BY <2>1, <3>2, <3>3, Numbers DEF Transaction
    <2>2. CASE ~\E c \in plan.con : c.blk = b
      <3>1. B[b] = s.t.blk[b]
        BY <2>2
      <3> HIDE DEF B
      <3> QED BY <1>3, <2>2, <3>1 DEF TrOK
    <2> QED BY <2>1, <2>2
  <1>9. ASSUME NEW i \in Slot
        PROVE  /\ P[i] \in Observer /\ P[i].addr = S[i].addr /\ P[i].url = S[i].url
               /\ P[i].last_mid = IF i \in plan.non THEN Past(i)
                                  ELSE IF \E c \in plan.con : c.to = i THEN Sent(i).blk
                                  ELSE S[i].last_mid
    <2>1. S[i] \in Observer /\ Past(i) \in Mid
      BY <1>3, Numbers
    <2>3. ASSUME NEW mid \in Mid
          PROVE  LET z == Notified(S[i], mid, ok)
                 IN  z \in Observer /\ z.addr = S[i].addr /\ z.url = S[i].url /\ z.last_mid = mid
      BY <2>1, NotifiedIs
    <2>4. CASE i \in plan.non
      <3>1. P[i] = Notified(S[i], Past(i), ok)
        BY <2>4
      <3> HIDE DEF P
      <3> QED BY <2>1, <2>3, <2>4, <3>1
    <2>5. CASE i \notin plan.non /\ \E c \in plan.con : c.to = i
      <3>1. P[i] = Notified(S[i], Sent(i).blk, ok)
        BY <2>5
      <3>2. Sent(i).blk \in Mid
        BY <1>1, <1>6, <1>7, <2>5, Numbers
      <3> HIDE DEF P
      <3> QED BY <2>3, <2>5, <3>1, <3>2
    <2>6. CASE i \notin plan.non /\ ~\E c \in plan.con : c.to = i
      BY <2>1, <2>6
    <2> QED BY <2>4, <2>5, <2>6
  <1>10. B \in [Block -> Transaction] /\ P \in [Slot -> Observer]
    BY <1>8, <1>9
  <1> HIDE DEF B, P
  <1>11. l \in Seq(Block) /\ IsInjective(l) /\ ToSet(l) = U /\ U \in SUBSET Block
    <2>1. ToSet(s.t.list) \cap ToSet(plan.blk) = {}
      BY <1>1, <1>3
    <2> QED BY <1>1, <1>3, <1>7, <2>1, ConcatKeeps
  <1>12. s.t.used \subseteq U /\ ToSet(plan.blk) \subseteq U
    OBVIOUS
  <1> HIDE DEF l, U
  <1>13. t.blk = B /\ t.list = l /\ t.used = U /\ t \in TrTable
    BY <1>10, <1>11 DEF TrTable
  <1>14. o.slot = P /\ o.list = s.o.list /\ o.used = s.o.used /\ o \in ObTable
    BY <1>3, <1>10 DEF ObTable
  <1> HIDE DEF t, o
  <1>15. TrOK(t)
    BY <1>8, <1>11, <1>13 DEF TrOK, TrTable
  <1>16. ObOK(o)
    BY <1>3, <1>9, <1>14 DEF ObOK, ObTable, S
  <1>17. ASSUME NEW i \in s.o.used, P[i].last_mid \in Block
         PROVE  P[i].last_mid \in U /\ B[P[i].last_mid].addr = P[i].addr
    <2>1. i \in Slot /\ i \notin plan.non
      BY <1>3, <1>9, <1>17, Numbers
    <2>2. CASE \E c \in plan.con : c.to = i
      <3> DEFINE b == Sent(i).blk
      <3>1. P[i].last_mid = b /\ Sent(i) \in plan.con /\ Sent(i).to = i
        BY <1>6, <1>9, <2>1, <2>2
      <3>2. b \in U /\ b \in Block
        BY <1>1, <1>7, <1>12, <3>1
      <3>3. Owner(b).to = i
        BY <1>1, <1>5, <3>1
      <3> QED BY <1>8, <1>9, <2>1, <3>1, <3>2, <3>3
    <2>3. CASE ~\E c \in plan.con : c.to = i
      <3> DEFINE b == S[i].last_mid
      <3>1. P[i].last_mid = b
        BY <1>9, <2>1, <2>3
      <3>2. b \in s.t.used /\ s.t.blk[b].addr = S[i].addr
        BY <1>3, <1>17, <3>1 DEF Waiting, S
      <3>3. ~\E c \in plan.con : c.blk = b
        BY <1>1, <3>2
      <3>4. b \in U /\ b \in Block
        BY <1>3, <1>12, <3>2
      <3> QED BY <1>8, <1>9, <2>1, <3>1, <3>2, <3>3, <3>4
    <2> QED BY <2>2, <2>3
  <1>18. Waiting(t, o)
    BY <1>13, <1>14, <1>17 DEF Waiting
  <1>19. n.t = t /\ n.o = o /\ n = [t |-> n.t, o |-> n.o]
    BY <1>2
  <1>20. PairOK(n) /\ n.o.used = s.o.used /\ n.o.slot = P
    BY <1>14, <1>15, <1>16, <1>18, <1>19 DEF PairOK
  <1> QED BY <1>9, <1>20 DEF n, plan, S

-----------------------------------------------------------------------------
(* Relations and the steps that end them.                                  *)

\* A client has fewer relations in r than in o.
Loses(o, r, q) == Cardinality(Rel(r, q)) < Cardinality(Rel(o, q))

\* A client whose relations are all still there has not lost one.
LEMMA RelSame ==
  ASSUME NEW o, ObOK(o), NEW r, NEW q, Rel(r, q) = Rel(o, q)
  PROVE  ~Loses(o, r, q)
  <1>1. Rel(o, q) \in SUBSET Slot
    BY DEF Rel, ObOK
  <1>2. Cardinality(Rel(o, q)) \in Nat
    BY <1>1, PoolsFinite, FS_Subset, FS_CardinalityType
  <1> QED BY <1>2 DEF Loses

\* Slots in use that keep their client keep every relation.
LEMMA RelKept ==
  ASSUME NEW o, ObOK(o), NEW r, r.used = o.used, \A i \in Slot : r.slot[i].addr = o.slot[i].addr, NEW q
  PROVE  Rel(r, q) = Rel(o, q)
  <1>1. o.used \subseteq Slot
    BY DEF ObOK
  <1> QED BY <1>1 DEF Rel

\* A removal loop that looks for relations of client p takes one from nobody else, and
\* from p only if it finds one.
LEMMA RemoveLoses ==
  ASSUME NEW o, ObOK(o), NEW G \in SUBSET o.used, NEW p, \A i \in G : o.slot[i].addr = p,
         NEW q, ~(q = p /\ G # {})
  PROVE  Rel(coap_remove_observer(o, G), q) = Rel(o, q)
  <1> DEFINE r == coap_remove_observer(o, G)
  <1>1. \/ G = {} /\ r = o
        \/ \E x \in G : /\ r.used = o.used \ {x}
                        /\ \A j \in o.used \ {x} : r.slot[j] = o.slot[j]
    BY RemoveOK
  <1> HIDE DEF r
  <1>2. CASE G = {} /\ r = o
    BY <1>2 DEF r
  <1>3. CASE \E x \in G : r.used = o.used \ {x} /\ \A j \in o.used \ {x} : r.slot[j] = o.slot[j]
    <2>1. PICK x \in G : r.used = o.used \ {x} /\ \A j \in o.used \ {x} : r.slot[j] = o.slot[j]
      BY <1>3
    <2>2. x \in o.used /\ o.slot[x].addr = p /\ q # p
      OBVIOUS
    <2> QED BY <2>1, <2>2 DEF Rel, r
  <1> QED BY <1>1, <1>2, <1>3

-----------------------------------------------------------------------------
(* coap_check_transactions                                                 *)

\* A retransmission counts up and starts the timer, for the same peer.
LEMMA SentAgainIs ==
  ASSUME NEW t \in Transaction, t.retr + 1 < MaxRetransmit
  PROVE  LET z == SentAgain(t)
         IN  z \in Transaction /\ z.addr = t.addr /\ z.retr < MaxRetransmit
  <1> DEFINE n == t.retr + 1
             y == [t EXCEPT !.retr = n, !.active = TRUE]
  <1>1. SentAgain(t) = y
    BY DEF SentAgain
  <1>2. n \in 0..MaxRetransmit /\ n < MaxRetransmit
    <2>1. t.retr \in 0..MaxRetransmit /\ MaxRetransmit \in Nat
      BY Numbers DEF Transaction
    <2> QED BY <2>1
  <1> HIDE DEF n
  <1>3. y \in Transaction /\ y.addr = t.addr /\ y.retr = n
    BY <1>2 DEF Transaction
  <1> QED BY <1>1, <1>2, <1>3

\* The loop sends again only what has a retransmission left, and what it gives up has
\* used them all.
LEMMA CheckIs ==
  ASSUME NEW t, TrOK(t)
  PROVE  LET c == coap_check_transactions(t)
         IN  /\ c.resent \subseteq t.used
             /\ \A b \in c.resent : t.blk[b].retr + 1 < MaxRetransmit
             /\ \/ c.over = 0
                \/ /\ c.over \in t.used /\ ~t.blk[c.over].active
                   /\ t.blk[c.over].retr + 1 >= MaxRetransmit
  <1> DEFINE Late(b) == ~t.blk[b].active
             TimesOut(b) == Late(b) /\ t.blk[b].retr + 1 >= MaxRetransmit
             I == {k \in 1..Len(t.list) : TimesOut(t.list[k])}
             stop == SelectInSeq(t.list, TimesOut)
             seen == IF stop = 0 THEN t.list ELSE SubSeq(t.list, 1, stop - 1)
             resent == {b \in ToSet(seen) : Late(b)}
             over == IF stop = 0 THEN 0 ELSE t.list[stop]
  <1>1. coap_check_transactions(t) = [resent |-> resent, over |-> over]
    BY DEF coap_check_transactions
  <1>2. stop = IF I # {} THEN Min(I) ELSE 0
    BY DEF SelectInSeq
  <1> HIDE DEF stop
  <1>3. /\ t.list \in Seq(Block) /\ IsInjective(t.list) /\ ToSet(t.list) = t.used
        /\ t.blk \in [Block -> Transaction] /\ t.used \in SUBSET Block
        /\ Len(t.list) \in Nat
    BY DEF TrOK
  <1>4. \A k \in 1..Len(t.list) : t.list[k] \in t.used
    BY <1>3 DEF ToSet
  <1>5. \A b \in Block : t.blk[b].retr \in Nat /\ MaxRetransmit \in Nat
    BY <1>3, Numbers DEF Transaction
  <1>6. \A b \in Block : Late(b) /\ ~TimesOut(b) => t.blk[b].retr + 1 < MaxRetransmit
    BY <1>5
  <1>7. CASE I = {}
    <2>1. stop = 0 /\ seen = t.list /\ over = 0
      BY <1>2, <1>7
    <2>2. \A b \in t.used : ~TimesOut(b)
      BY <1>3, <1>7, ToSetIs
    <2> HIDE DEF TimesOut, seen, over, I
    <2>3. resent \subseteq t.used /\ \A b \in resent : t.blk[b].retr + 1 < MaxRetransmit
      BY <1>3, <1>6, <2>1, <2>2
    <2> HIDE DEF resent
    <2> QED BY <1>1, <2>1, <2>3
  <1>8. CASE I # {}
    <2>1. I \in SUBSET Nat
      OBVIOUS
    <2>2. stop \in I /\ \A k \in I : stop <= k
      <3> HIDE DEF I
      <3> QED BY <1>2, <1>8, <2>1, MinIs
    <2>3. stop \in 1..Len(t.list) /\ stop # 0 /\ TimesOut(t.list[stop])
      BY <2>2
    <2>4. over = t.list[stop] /\ over \in t.used /\ TimesOut(over)
      BY <1>4, <2>3
    <2>5. \A k \in 1..(stop - 1) : k \in 1..Len(t.list) /\ ~TimesOut(t.list[k])
      BY <1>3, <2>2
    <2> DEFINE m == stop - 1
    <2>6. m \in 0..Len(t.list) /\ seen = SubSeq(t.list, 1, m)
      BY <1>3, <2>3
    <2> HIDE DEF TimesOut, seen, over, I, m
    <2>7. /\ seen \in Seq(Block) /\ Len(seen) = m /\ \A k \in 1..m : seen[k] = t.list[k]
      BY <1>3, <2>6, PrefixKeeps
    <2>8. \A b \in ToSet(seen) : b \in t.used /\ ~TimesOut(b)
      <3>1. TAKE b \in ToSet(seen)
      <3>2. PICK k \in 1..m : seen[k] = b
        BY <2>7, ToSetIs
      <3> QED BY <1>4, <2>5, <2>7, <3>2 DEF m
    <2>9. resent \subseteq t.used /\ \A b \in resent : t.blk[b].retr + 1 < MaxRetransmit
      BY <1>3, <1>6, <2>8
    <2>10. ~t.blk[over].active /\ t.blk[over].retr + 1 >= MaxRetransmit
      BY <2>4 DEF TimesOut
    <2> HIDE DEF resent
    <2> QED BY <1>1, <2>4, <2>9, <2>10
  <1> QED BY <1>7, <1>8

\* Retransmissions leave the tables in order.
LEMMA ResendOK ==
  ASSUME NEW t, NEW o, PairOK([t |-> t, o |-> o]), NEW X,
         X \subseteq t.used, \A b \in X : t.blk[b].retr + 1 < MaxRetransmit
  PROVE  LET n == [t EXCEPT !.blk = [b \in Block |-> IF b \in X THEN SentAgain(@[b]) ELSE @[b]]]
         IN  PairOK([t |-> n, o |-> o])
  <1> DEFINE B == [b \in Block |-> IF b \in X THEN SentAgain(t.blk[b]) ELSE t.blk[b]]
             n == [t EXCEPT !.blk = B]
             s == [t |-> n, o |-> o]
  <1>1. /\ TrOK(t) /\ ObOK(o) /\ Waiting(t, o) /\ t \in TrTable
        /\ t.blk \in [Block -> Transaction] /\ t.used \in SUBSET Block
    BY DEF PairOK, TrOK, TrTable
  <1>2. ASSUME NEW b \in Block
        PROVE  B[b] \in Transaction /\ B[b].addr = t.blk[b].addr /\ B[b].retr < MaxRetransmit
    <2>1. CASE b \in X
      <3>1. B[b] = SentAgain(t.blk[b])
        BY <2>1
      <3>2. t.blk[b] \in Transaction /\ t.blk[b].retr + 1 < MaxRetransmit
        BY <1>1, <2>1
      <3> HIDE DEF B
      <3> QED BY <3>1, <3>2, SentAgainIs
    <2>2. CASE b \notin X
      <3>1. B[b] = t.blk[b]
        BY <2>2
      <3> HIDE DEF B
      <3> QED BY <1>1, <3>1 DEF TrOK
    <2> QED BY <2>1, <2>2
  <1>3. B \in [Block -> Transaction]
    BY <1>2
  <1> HIDE DEF B
  <1>4. n \in TrTable /\ n.blk = B /\ n.used = t.used /\ n.list = t.list
    BY <1>1, <1>3 DEF TrTable
  <1> HIDE DEF n
  <1>5. TrOK(n)
    BY <1>1, <1>2, <1>4 DEF TrOK, TrTable
  <1>6. Waiting(n, o)
    BY <1>1, <1>2, <1>4 DEF Waiting
  <1>7. s.t = n /\ s.o = o /\ s = [t |-> s.t, o |-> s.o]
    OBVIOUS
  <1>8. PairOK(s)
    BY <1>1, <1>5, <1>6, <1>7 DEF PairOK
  <1> QED BY <1>8 DEF n, B

-----------------------------------------------------------------------------
(* The steps.                                                              *)

\* What may end a relation of client p.
OwnEnd(p) ==
    \/ \E b \in Block : Final(b) /\ tr.blk[b].addr = p /\ TimerEvent
    \/ \E u \in Url : Request(p, u, "cancel")
    \/ \E mid \in Mid : /\ alive[p]
                        /\ \E i \in Relations(p) : ob.slot[i].last_mid = mid
                        /\ Receive(p, TRUE, mid)

\* What the step of an operation must keep.
Kept ==
    /\ PairOK([t |-> tr', o |-> ob'])
    /\ \A q \in Peer : Loses(ob, ob', q) => OwnEnd(q)

\* The tables that hold the invariant, as a pair.
LEMMA TablesOK ==
  ASSUME CoapInv
  PROVE  PairOK(Tables) /\ Tables.t = tr /\ Tables.o = ob /\ ObOK(ob) /\ TrOK(tr)
  BY DEF CoapInv, PairOK, Tables

\* An operation's result is what the tables become.
LEMMA BecomesIs ==
  ASSUME NEW s, Becomes(s)
  PROVE  tr' = s.t /\ ob' = s.o
  BY DEF Becomes

\* Tables that become a pair in order with everybody's relations are kept.
LEMMA KeptBy ==
  ASSUME CoapInv, NEW s, PairOK(s), tr' = s.t, ob' = s.o,
         s.o.used = ob.used, \A i \in Slot : s.o.slot[i].addr = ob.slot[i].addr
  PROVE  Kept
  <1>1. PairOK([t |-> tr', o |-> ob'])
    BY DEF PairOK
  <1>2. \A q \in Peer : ~Loses(ob, ob', q)
    <2>1. TAKE q \in Peer
    <2>2. ObOK(ob)
      BY TablesOK
    <2>3. Rel(s.o, q) = Rel(ob, q)
      BY <2>2, RelKept
    <2> QED BY <2>2, <2>3, RelSame
  <1> QED BY <1>1, <1>2 DEF Kept

\* A step of the tables' owner that leaves both alone.
LEMMA KeptSame ==
  ASSUME CoapInv, tr' = tr, ob' = ob
  PROVE  Kept
  <1>1. PairOK(Tables) /\ Tables.t = tr /\ Tables.o = ob
    BY TablesOK
  <1> QED BY <1>1, KeptBy

\* A request of the application takes a block and starts its timer.
LEMMA StartKeeps ==
  ASSUME CoapInv, NEW p \in Peer, _coap_nonblocking_request_start(p)
  PROVE  Kept
  <1> DEFINE b == memb_alloc(Block, tr.used)
             n == coap_new_transaction(Tables, b, p)
             x == coap_send_transaction(n, b, TRUE)
  <1>1. PairOK(Tables) /\ Tables.t = tr /\ Tables.o = ob
    BY TablesOK
  <1>2. b = 0 \/ b \in Block \ tr.used
    BY AllocIs, Numbers
  <1>3. Becomes(IF b = 0 THEN Tables ELSE x)
    BY DEF _coap_nonblocking_request_start
  <1> HIDE DEF b
  <1>4. CASE b = 0
    <2>1. tr' = Tables.t /\ ob' = Tables.o
      BY <1>3, <1>4, BecomesIs
    <2> QED BY <1>1, <2>1, KeptSame
  <1>5. CASE b # 0
    <2>1. b \in Block \ Tables.t.used
      BY <1>1, <1>2, <1>5
    <2>2. PairOK(n) /\ n.o = ob /\ b \in n.t.used
      <3>1. PairOK(n) /\ n.o = Tables.o /\ n.t.used = Tables.t.used \cup {b}
        BY <1>1, <2>1, NewOK
      <3> HIDE DEF n
      <3> QED BY <1>1, <3>1
    <2> HIDE DEF n
    <2>3. PairOK(x) /\ x.o = ob
      BY <2>2, SendOK
    <2> HIDE DEF x
    <2>4. tr' = x.t /\ ob' = x.o
      BY <1>3, <1>5, BecomesIs
    <2> QED BY <2>3, <2>4, KeptBy
  <1> QED BY <1>4, <1>5

\* A request, whatever its handler does, leaves the tables in order, and only one that
\* cancels ends a relation, of its sender.
LEMMA RequestKeeps ==
  ASSUME CoapInv, NEW p \in Peer, NEW u \in Url,
         NEW what \in {"plain", "observe", "cancel", "notify"}, Request(p, u, what)
  PROVE  Kept
  <1> DEFINE b == memb_alloc(Block, tr.used)
             s == coap_new_transaction(Tables, b, p)
             n == coap_notify_observers(s, NotifyPlan(s, u), TRUE)
             x == coap_clear_transaction(n, b)
  <1>1. PairOK(Tables) /\ Tables.t = tr /\ Tables.o = ob /\ ObOK(ob) /\ TrOK(tr) /\ Waiting(tr, ob)
    BY TablesOK DEF CoapInv
  <1>2. b = 0 \/ b \in Block \ tr.used
    BY AllocIs, Numbers
  <1>3. CASE b = 0 \/ what = "plain"
    <2>1. tr' = tr /\ ob' = ob
      BY <1>3 DEF Request
    <2> QED BY <2>1, KeptSame
  <1>4. CASE b # 0 /\ what = "observe"
    <2> DEFINE r == add_observer(ob, p, u)
    <2>1. tr' = tr /\ ob' = r
      BY <1>4 DEF Request
    <2>2. /\ ObOK(r) /\ Waiting(tr, r)
          /\ \A q \in Peer : Cardinality(Rel(r, q)) >= Cardinality(Rel(ob, q))
      BY <1>1, AddOK
    <2> HIDE DEF r
    <2>3. \A q \in Peer : Cardinality(Rel(r, q)) \in Nat /\ Cardinality(Rel(ob, q)) \in Nat
      <3>1. TAKE q \in Peer
      <3>2. Rel(r, q) \in SUBSET Slot /\ Rel(ob, q) \in SUBSET Slot
        BY <1>1, <2>2 DEF Rel, ObOK
      <3> QED BY <3>2, PoolsFinite, FS_Subset, FS_CardinalityType
    <2>4. \A q \in Peer : ~Loses(ob, ob', q)
      BY <2>1, <2>2, <2>3 DEF Loses
    <2>5. PairOK([t |-> tr', o |-> ob'])
      BY <1>1, <2>1, <2>2 DEF PairOK
    <2> QED BY <2>4, <2>5 DEF Kept
  <1>5. CASE b # 0 /\ what = "cancel"
    <2> DEFINE G == {i \in ob.used : ob.slot[i].addr = p /\ ob.slot[i].url = u}
               r == coap_remove_observer(ob, G)
    <2>1. tr' = tr /\ ob' = r
      BY <1>5 DEF Request, coap_remove_observer_by_uri
    <2>2. G \in SUBSET ob.used /\ \A i \in G : ob.slot[i].addr = p
      OBVIOUS
    <2> HIDE DEF G
    <2>3. ObOK(r) /\ Waiting(tr, r)
      BY <1>1, <2>2, RemoveOK
    <2>4. ASSUME NEW q \in Peer, q # p PROVE ~Loses(ob, ob', q)
      <3>1. Rel(r, q) = Rel(ob, q)
        BY <1>1, <2>2, <2>4, RemoveLoses
      <3> QED BY <1>1, <2>1, <3>1, RelSame
    <2>5. OwnEnd(p)
      BY <1>5 DEF OwnEnd
    <2> HIDE DEF r
    <2>6. PairOK([t |-> tr', o |-> ob'])
      BY <1>1, <2>1, <2>3 DEF PairOK
    <2> QED BY <2>4, <2>5, <2>6 DEF Kept
  <1>6. CASE b # 0 /\ what = "notify"
    <2>1. Becomes(x)
      BY <1>6 DEF Request
    <2> HIDE DEF b
    <2>2. b \in Block \ Tables.t.used
      BY <1>1, <1>2, <1>6
    <2>3. PairOK(s) /\ s.o = ob
      <3>1. PairOK(s) /\ s.o = Tables.o
        BY <1>1, <2>2, NewOK
      <3> HIDE DEF s
      <3> QED BY <1>1, <3>1
    <2> HIDE DEF s
    <2>4. /\ PairOK(n) /\ n.o.used = ob.used
          /\ \A i \in Slot : n.o.slot[i].addr = ob.slot[i].addr
      BY <2>3, NotifyOK
    <2> HIDE DEF n
    <2>5. /\ PairOK(x) /\ x.o.used = ob.used
          /\ \A i \in Slot : x.o.slot[i].addr = ob.slot[i].addr
      <3>1. /\ PairOK(x) /\ x.o.used = n.o.used
            /\ \A i \in Slot : x.o.slot[i].addr = n.o.slot[i].addr
        BY <2>2, <2>4, ClearOK
      <3> HIDE DEF x
      <3> QED BY <2>4, <3>1
    <2> HIDE DEF x
    <2>6. tr' = x.t /\ ob' = x.o
      BY <2>1, BecomesIs
    <2> QED BY <2>5, <2>6, KeptBy
  <1> QED BY <1>3, <1>4, <1>5, <1>6

\* Any other message ends at most the transaction it names, and a reset a relation of
\* its sender.
LEMMA ReceiveKeeps ==
  ASSUME CoapInv, NEW p \in Peer, NEW rst \in BOOLEAN, NEW mid \in Mid, Receive(p, rst, mid)
  PROVE  Kept
  <1> DEFINE G == {i \in ob.used : ob.slot[i].addr = p /\ ob.slot[i].last_mid = mid}
             o == IF rst THEN coap_remove_observer(ob, G) ELSE ob
             s == [t |-> tr, o |-> o]
             b == coap_get_transaction_by_mid(tr, mid)
             x == coap_clear_transaction(s, b)
  <1>1. ObOK(ob) /\ TrOK(tr) /\ Waiting(tr, ob)
    BY DEF CoapInv
  <1>2. tr' = x.t /\ ob' = x.o
    <2>1. Becomes(x)
      BY DEF Receive, coap_remove_observer_by_mid
    <2> HIDE DEF x
    <2> QED BY <2>1, BecomesIs
  <1>3. G \in SUBSET ob.used /\ (\A i \in G : ob.slot[i].addr = p)
        /\ (G # {} => \E i \in Relations(p) : ob.slot[i].last_mid = mid)
    BY DEF Relations
  <1> HIDE DEF G
  <1>4. b \in Block \cup {0}
    BY <1>1 DEF coap_get_transaction_by_mid, TrOK
  <1> HIDE DEF b
  <1>5. ObOK(o) /\ Waiting(tr, o)
    BY <1>1, <1>3, RemoveOK
  <1>6. ASSUME NEW q \in Peer, ~(rst /\ q = p /\ G # {}) PROVE Rel(o, q) = Rel(ob, q)
    <2>1. CASE rst
      BY <1>1, <1>3, <1>6, <2>1, RemoveLoses
    <2>2. CASE ~rst
      BY <2>2
    <2> QED BY <2>1, <2>2
  <1> HIDE DEF o
  <1>7. PairOK(s) /\ s.o = o
    BY <1>1, <1>5 DEF PairOK
  <1> HIDE DEF s
  <1>8. PairOK(x) /\ x.o.used = o.used /\ \A i \in Slot : x.o.slot[i].addr = o.slot[i].addr
    <2>1. /\ PairOK(x) /\ x.o.used = s.o.used /\ \A i \in Slot : x.o.slot[i].addr = s.o.slot[i].addr
      BY <1>4, <1>7, ClearOK
    <2> HIDE DEF x
    <2> QED BY <1>7, <2>1
  <1> HIDE DEF x
  <1>9. ASSUME NEW q \in Peer, Loses(ob, ob', q) PROVE OwnEnd(q)
    <2>1. Rel(x.o, q) = Rel(o, q)
      BY <1>5, <1>8, RelKept
    <2>2. rst /\ q = p /\ G # {}
      <3>1. SUFFICES ASSUME ~(rst /\ q = p /\ G # {}) PROVE FALSE
        OBVIOUS
      <3>2. Rel(x.o, q) = Rel(ob, q)
        BY <1>6, <2>1, <3>1
      <3>3. ~Loses(ob, x.o, q)
        BY <1>1, <3>2, RelSame
      <3> QED BY <1>2, <1>9, <3>3
    <2>3. alive[p] /\ rst = TRUE
      BY <2>2 DEF Receive
    <2> QED BY <1>3, <2>2, <2>3 DEF OwnEnd
  <1>10. PairOK([t |-> tr', o |-> ob'])
    BY <1>2, <1>8 DEF PairOK
  <1> QED BY <1>9, <1>10 DEF Kept

\* The error path frees the block of the last request once more, whoever has it now.
LEMMA MalformedKeeps ==
  ASSUME CoapInv, NEW p \in Peer, Malformed(p)
  PROVE  Kept
  <1> DEFINE x == coap_clear_transaction(Tables, transaction)
  <1>1. PairOK(Tables) /\ Tables.t = tr /\ Tables.o = ob /\ transaction \in Block \cup {0}
    BY TablesOK DEF CoapInv
  <1>2. /\ PairOK(x) /\ x.o.used = Tables.o.used
        /\ \A i \in Slot : x.o.slot[i].addr = Tables.o.slot[i].addr
    BY <1>1, ClearOK
  <1>3. Becomes(x)
    BY DEF Malformed
  <1> HIDE DEF x
  <1>4. tr' = x.t /\ ob' = x.o
    BY <1>3, BecomesIs
  <1> QED BY <1>1, <1>2, <1>4, KeptBy

\* A timer that elapses changes only whether it runs.
LEMMA ExpireKeeps ==
  ASSUME CoapInv, NEW b \in Block, Expire(b)
  PROVE  Kept
  <1> DEFINE v == [tr.blk[b] EXCEPT !.active = FALSE]
             B == [tr.blk EXCEPT ![b] = v]
             n == [tr EXCEPT !.blk = B]
             s == [t |-> n, o |-> ob]
  <1>1. /\ TrOK(tr) /\ ObOK(ob) /\ Waiting(tr, ob) /\ tr \in TrTable
        /\ tr.blk \in [Block -> Transaction]
    BY DEF CoapInv, TrOK, TrTable
  <1>2. tr' = n /\ ob' = ob
    BY <1>1 DEF Expire
  <1>3. v \in Transaction /\ v.retr = tr.blk[b].retr /\ v.addr = tr.blk[b].addr
    BY <1>1 DEF Transaction
  <1> HIDE DEF v
  <1>4. /\ B \in [Block -> Transaction]
        /\ \A c \in Block : B[c].retr = tr.blk[c].retr /\ B[c].addr = tr.blk[c].addr
    BY <1>1, <1>3
  <1> HIDE DEF B
  <1>5. n \in TrTable /\ n.blk = B /\ n.used = tr.used /\ n.list = tr.list
    BY <1>1, <1>4 DEF TrTable
  <1> HIDE DEF n
  <1>6. TrOK(n)
    BY <1>1, <1>4, <1>5 DEF TrOK, TrTable
  <1>7. Waiting(n, ob)
    <2>1. tr.used \subseteq Block
      BY <1>1 DEF TrTable
    <2> QED BY <1>1, <1>4, <1>5, <2>1 DEF Waiting
  <1>8. PairOK(s) /\ s.t = n /\ s.o = ob
    BY <1>1, <1>6, <1>7 DEF PairOK
  <1> HIDE DEF s
  <1> QED BY <1>2, <1>8, KeptBy

\* A time-out ends a relation of the peer that did not answer, and of no other.
LEMMA TimerKeeps ==
  ASSUME CoapInv, TimerEvent
  PROVE  Kept
  <1> DEFINE c == coap_check_transactions(tr)
             t == [tr EXCEPT !.blk = [b \in Block |-> IF b \in c.resent THEN SentAgain(@[b]) ELSE @[b]]]
             p == tr.blk[c.over].addr
             G == {i \in ob.used : ob.slot[i].addr = p}
             o == coap_remove_observer(ob, G)
             s == [t |-> t, o |-> o]
             x == coap_clear_transaction(s, c.over)
  <1>1. /\ PairOK(Tables) /\ Tables = [t |-> tr, o |-> ob]
        /\ ObOK(ob) /\ TrOK(tr) /\ Waiting(tr, ob) /\ tr.used \subseteq Block
    BY TablesOK DEF CoapInv, Tables, TrOK
  <1>2. Becomes(IF c.over = 0 THEN [t |-> t, o |-> ob] ELSE x)
    BY DEF TimerEvent, coap_remove_observer_by_client
  <1>3. /\ c.resent \subseteq tr.used
        /\ \A b \in c.resent : tr.blk[b].retr + 1 < MaxRetransmit
        /\ \/ c.over = 0
           \/ /\ c.over \in tr.used /\ ~tr.blk[c.over].active
              /\ tr.blk[c.over].retr + 1 >= MaxRetransmit
    BY <1>1, CheckIs
  <1> HIDE DEF c
  <1>4. PairOK([t |-> t, o |-> ob])
    <2> DEFINE X == c.resent
    <2>1. PairOK([t |-> tr, o |-> ob]) /\ X \subseteq tr.used /\ \A b \in X : tr.blk[b].retr + 1 < MaxRetransmit
      BY <1>1, <1>3
    <2> HIDE DEF X
    <2>2. PairOK([t |-> [tr EXCEPT !.blk = [b \in Block |-> IF b \in X THEN SentAgain(@[b]) ELSE @[b]]], o |-> ob])
      BY <2>1, ResendOK
    <2> QED BY <2>2 DEF X
  <1> HIDE DEF t
  <1>5. CASE c.over = 0
    <2> DEFINE y == [t |-> t, o |-> ob]
    <2>1. Becomes(y) /\ PairOK(y) /\ y.o = ob
      BY <1>2, <1>4, <1>5
    <2> HIDE DEF y
    <2>2. tr' = y.t /\ ob' = y.o
      BY <2>1, BecomesIs
    <2> QED BY <2>1, <2>2, KeptBy
  <1>6. CASE c.over # 0
    <2>1. Becomes(x)
      BY <1>2, <1>6
    <2>2. c.over \in Block \cup {0}
      BY <1>1, <1>3
    <2>3. G \in SUBSET ob.used /\ \A i \in G : ob.slot[i].addr = p
      OBVIOUS
    <2> HIDE DEF G
    <2>4. ObOK(o) /\ \A w : Waiting(w, ob) => Waiting(w, o)
      BY <1>1, <2>3, RemoveOK
    <2>5. \A q \in Peer : q # p => Rel(o, q) = Rel(ob, q)
      <3> HIDE DEF p
      <3> QED BY <1>1, <2>3, RemoveLoses
    <2> HIDE DEF o, p
    <2>6. TrOK(t) /\ Waiting(t, ob)
      BY <1>4 DEF PairOK
    <2>7. PairOK(s) /\ s.o = o
      BY <2>4, <2>6 DEF PairOK
    <2> HIDE DEF s
    <2>8. /\ PairOK(x) /\ x.o.used = s.o.used /\ \A i \in Slot : x.o.slot[i].addr = s.o.slot[i].addr
      BY <2>2, <2>7, ClearOK
    <2> HIDE DEF x
    <2>9. tr' = x.t /\ ob' = x.o
      BY <2>1, BecomesIs
    <2>10. ASSUME NEW q \in Peer, Loses(ob, ob', q) PROVE OwnEnd(q)
      <3>1. Rel(x.o, q) = Rel(o, q)
        BY <2>4, <2>7, <2>8, RelKept
      <3>2. q = p
        <4>1. SUFFICES ASSUME q # p PROVE FALSE
          OBVIOUS
        <4>2. Rel(x.o, q) = Rel(ob, q)
          BY <2>5, <3>1, <4>1
        <4>3. ~Loses(ob, x.o, q)
          BY <1>1, <4>2, RelSame
        <4> QED BY <2>9, <2>10, <4>3
      <3>3. c.over \in Block /\ Final(c.over) /\ tr.blk[c.over].addr = q
        BY <1>1, <1>3, <1>6, <3>2 DEF Final, Expired, p
      <3> QED BY <3>3 DEF OwnEnd
    <2>11. PairOK([t |-> tr', o |-> ob'])
      BY <2>8, <2>9 DEF PairOK
    <2> QED BY <2>10, <2>11 DEF Kept
  <1> QED BY <1>5, <1>6

\* A notification ends no relation.
LEMMA NotifyKeeps ==
  ASSUME CoapInv, NEW u \in Url, NEW ok \in BOOLEAN, Notify(u, ok)
  PROVE  Kept
  <1> DEFINE x == coap_notify_observers(Tables, NotifyPlan(Tables, u), ok)
  <1>1. PairOK(Tables) /\ Tables.t = tr /\ Tables.o = ob
    BY TablesOK
  <1>2. /\ PairOK(x) /\ x.o.used = Tables.o.used
        /\ \A i \in Slot : x.o.slot[i].addr = Tables.o.slot[i].addr
    BY <1>1, NotifyOK
  <1>3. Becomes(x)
    BY DEF Notify
  <1> HIDE DEF x
  <1>4. tr' = x.t /\ ob' = x.o
    BY <1>3, BecomesIs
  <1> QED BY <1>1, <1>2, <1>4, KeptBy

\* Every step keeps the tables in order and the relations of all but the clients that
\* end their own.
LEMMA NextKeeps ==
  ASSUME CoapInv, Next
  PROVE  Kept
  <1>1. ASSUME NEW p \in Peer, _coap_nonblocking_request_start(p) PROVE Kept
    BY <1>1, StartKeeps
  <1>2. ASSUME NEW p \in Peer, NEW u \in Url, NEW what \in {"plain", "observe", "cancel", "notify"},
               Request(p, u, what)
        PROVE  Kept
    BY <1>2, RequestKeeps
  <1>3. ASSUME NEW p \in Peer, NEW rst \in BOOLEAN, NEW mid \in Mid, Answer(p, rst, mid) \/ Stray(p, rst, mid)
        PROVE  Kept
    BY <1>3, ReceiveKeeps DEF Answer, Stray
  <1>4. ASSUME NEW p \in Peer, Malformed(p) PROVE Kept
    BY <1>4, MalformedKeeps
  <1>5. ASSUME NEW b \in Block, Expire(b) PROVE Kept
    BY <1>5, ExpireKeeps
  <1>6. ASSUME TimerEvent PROVE Kept
    BY <1>6, TimerKeeps
  <1>7. ASSUME NEW u \in Url, NEW ok \in BOOLEAN, Notify(u, ok) PROVE Kept
    BY <1>7, NotifyKeeps
  <1>8. ASSUME NEW p \in Mortal, Crash(p) PROVE Kept
    BY <1>8, KeptSame DEF Crash
  <1> QED BY <1>1, <1>2, <1>3, <1>4, <1>5, <1>6, <1>7, <1>8 DEF Next

\* The rest of the state stays within its types.
LEMMA RestStep ==
  ASSUME CoapInv, Next
  PROVE  transaction' \in Block \cup {0} /\ alive' \in [Peer -> BOOLEAN] /\ budget' \in 0..MaxEvents
  <1>0. /\ transaction \in Block \cup {0} /\ alive \in [Peer -> BOOLEAN] /\ budget \in 0..MaxEvents
        /\ MaxEvents \in Nat
    BY Numbers DEF CoapInv
  <1>a. budget > 0 => budget - 1 \in 0..MaxEvents
    BY <1>0
  <1>1. ASSUME NEW p \in Peer, _coap_nonblocking_request_start(p)
        PROVE  transaction' \in Block \cup {0} /\ alive' \in [Peer -> BOOLEAN] /\ budget' \in 0..MaxEvents
    BY <1>0, <1>a, <1>1 DEF _coap_nonblocking_request_start
  <1>2. ASSUME NEW p \in Peer, NEW u \in Url, NEW what \in {"plain", "observe", "cancel", "notify"},
               Request(p, u, what)
        PROVE  transaction' \in Block \cup {0} /\ alive' \in [Peer -> BOOLEAN] /\ budget' \in 0..MaxEvents
    <2>1. memb_alloc(Block, tr.used) \in Block \cup {0}
      BY AllocIs, Numbers
    <2>2. transaction' = memb_alloc(Block, tr.used) /\ alive' = alive /\ budget' = budget
      BY <1>2 DEF Request
    <2> QED BY <1>0, <2>1, <2>2
  <1>3. ASSUME NEW p \in Peer, NEW rst \in BOOLEAN, NEW mid \in Mid, Answer(p, rst, mid) \/ Stray(p, rst, mid)
        PROVE  transaction' \in Block \cup {0} /\ alive' \in [Peer -> BOOLEAN] /\ budget' \in 0..MaxEvents
    <2>1. transaction' = 0 /\ alive' = alive
      BY <1>3 DEF Answer, Stray, Receive
    <2>2. budget' = budget \/ (budget > 0 /\ budget' = budget - 1)
      BY <1>3 DEF Answer, Stray
    <2> QED BY <1>0, <1>a, <2>1, <2>2
  <1>4. ASSUME NEW p \in Peer, Malformed(p)
        PROVE  transaction' \in Block \cup {0} /\ alive' \in [Peer -> BOOLEAN] /\ budget' \in 0..MaxEvents
    BY <1>0, <1>a, <1>4 DEF Malformed
  <1>5. ASSUME (\E b \in Block : Expire(b)) \/ TimerEvent
        PROVE  transaction' \in Block \cup {0} /\ alive' \in [Peer -> BOOLEAN] /\ budget' \in 0..MaxEvents
    <2>1. transaction' = transaction /\ alive' = alive /\ budget' = budget
      BY <1>5 DEF Expire, TimerEvent
    <2> QED BY <1>0, <2>1
  <1>7. ASSUME NEW u \in Url, NEW ok \in BOOLEAN, Notify(u, ok)
        PROVE  transaction' \in Block \cup {0} /\ alive' \in [Peer -> BOOLEAN] /\ budget' \in 0..MaxEvents
    <2>1. /\ transaction' = transaction /\ alive' = alive
          /\ budget' = budget \/ (budget > 0 /\ budget' = budget - 1)
      BY <1>7 DEF Notify
    <2> QED BY <1>0, <1>a, <2>1
  <1>8. ASSUME NEW p \in Mortal, Crash(p)
        PROVE  transaction' \in Block \cup {0} /\ alive' \in [Peer -> BOOLEAN] /\ budget' \in 0..MaxEvents
    BY <1>0, <1>8 DEF Crash
  <1> QED BY <1>1, <1>2, <1>3, <1>4, <1>5, <1>7, <1>8 DEF Next

-----------------------------------------------------------------------------
(* The theorems.                                                           *)

\* Nothing is open and nobody observes at the start.
LEMMA CoapInit == Init => CoapInv
  <1>1. SUFFICES ASSUME Init PROVE CoapInv
    OBVIOUS
  <1>2. [b \in Block |-> Freed] \in [Block -> Transaction] /\ [i \in Slot |-> Vacant(0)] \in [Slot -> Observer]
    BY Numbers
  <1>3. IsInjective(<<>>) /\ ToSet(<<>>) = {}
    BY DEF IsInjective, ToSet
  <1>4. /\ tr.blk = [b \in Block |-> Freed] /\ tr.list = <<>> /\ tr.used = {} /\ tr \in TrTable
    BY <1>1, <1>2 DEF Init, TrTable
  <1>5. /\ ob.slot = [i \in Slot |-> Vacant(0)] /\ ob.list = <<>> /\ ob.used = {} /\ ob \in ObTable
    BY <1>1, <1>2 DEF Init, ObTable
  <1>6. TrOK(tr)
    BY <1>3, <1>4, Numbers DEF TrOK, TrTable
  <1>7. ObOK(ob)
    BY <1>3, <1>5 DEF ObOK, ObTable
  <1>8. Waiting(tr, ob)
    BY <1>5 DEF Waiting
  <1>9. transaction \in Block \cup {0} /\ alive \in [Peer -> BOOLEAN] /\ budget \in 0..MaxEvents
    BY <1>1, Numbers DEF Init
  <1> QED BY <1>6, <1>7, <1>8, <1>9 DEF CoapInv

\* The inductive invariant: the two pools and their lists agree, whoever waits for an
\* acknowledgement waits for an open transaction of its own, and every open
\* transaction has a retransmission or its time-out to come.
THEOREM CoapInvariant == Spec => []CoapInv
  <1>1. ASSUME CoapInv, [Next]_vars PROVE CoapInv'
    <2>1. CASE Next
      <3>1. PairOK([t |-> tr', o |-> ob'])
        BY <1>1, <2>1, NextKeeps DEF Kept
      <3>2. TrOK(tr)' /\ ObOK(ob)' /\ Waiting(tr, ob)'
        BY <3>1 DEF PairOK
      <3>3. transaction' \in Block \cup {0} /\ alive' \in [Peer -> BOOLEAN] /\ budget' \in 0..MaxEvents
        BY <1>1, <2>1, RestStep
      <3> QED BY <3>2, <3>3 DEF CoapInv
    <2>2. CASE UNCHANGED vars
      BY <1>1, <2>2 DEF vars, CoapInv
    <2> QED BY <1>1, <2>1, <2>2
  <1> QED BY <1>1, CoapInit, PTL DEF Spec

\* Every value of the engine stays within its C type.
THEOREM CoapTypes == Spec => []TypeOK
  <1>1. CoapInv => TypeOK
    BY DEF CoapInv, TrOK, ObOK, TypeOK
  <1> QED BY <1>1, CoapInvariant, PTL

\* No block of transactions_memb is lost or listed twice, whichever messages arrive in
\* whichever order, and what an observer waits for is open with it: the double free on
\* the error path and the reuse of a block never leave a stale identifier behind.
THEOREM TransactionsAccounted == Spec => []OpenTransactions
  <1>1. ASSUME CoapInv PROVE OpenTransactions
    <2>1. /\ TrOK(tr) /\ Waiting(tr, ob) /\ tr.list \in Seq(Block) /\ IsInjective(tr.list)
          /\ ToSet(tr.list) = tr.used /\ tr.used \subseteq Block
      BY <1>1 DEF CoapInv, TrOK
    <2>2. Len(tr.list) = Cardinality(tr.used)
      BY <2>1, InjectiveLen
    <2> QED BY <2>1, <2>2 DEF OpenTransactions, TrOK, Waiting
  <1> QED BY <1>1, CoapInvariant, PTL

\* No slot of observers_memb is lost, and no client has two relations for a resource.
THEOREM OneRelationEach == Spec => []OneObserverPerResource
  <1>1. ASSUME CoapInv PROVE OneObserverPerResource
    <2>1. /\ ObOK(ob) /\ ob.list \in Seq(Slot) /\ IsInjective(ob.list) /\ ToSet(ob.list) = ob.used
      BY <1>1 DEF CoapInv, ObOK
    <2>2. Len(ob.list) = Cardinality(ob.used)
      BY <2>1, InjectiveLen
    <2> QED BY <2>1, <2>2 DEF OneObserverPerResource, ObOK
  <1> QED BY <1>1, CoapInvariant, PTL

\* Nobody else's reset, silence or registration ends a client's relations, in a full
\* pool as well as in an empty one.
THEOREM RelationsEndByOwner == Spec => EndedByOwnClient
  <1> DEFINE Step == \A p \in Peer :
         Cardinality(Relations(p)') < Cardinality(Relations(p)) =>
            \/ \E b \in Block : Final(b) /\ tr.blk[b].addr = p /\ TimerEvent
            \/ \E u \in Url : Request(p, u, "cancel")
            \/ \E mid \in Mid : /\ alive[p]
                                /\ \E i \in Relations(p) : ob.slot[i].last_mid = mid
                                /\ Receive(p, TRUE, mid)
  <1>1. ASSUME CoapInv, [Next]_vars PROVE [Step]_vars
    <2>1. CASE Next
      <3>1. ASSUME NEW q \in Peer, Cardinality(Relations(q)') < Cardinality(Relations(q))
            PROVE  OwnEnd(q)
        <4>1. Relations(q)' = Rel(ob', q) /\ Relations(q) = Rel(ob, q)
          BY DEF Relations, Rel
        <4>2. Loses(ob, ob', q)
          BY <3>1, <4>1 DEF Loses
        <4> QED BY <1>1, <2>1, <4>2, NextKeeps DEF Kept
      <3> QED BY <3>1 DEF OwnEnd
    <2>2. CASE UNCHANGED vars
      BY <2>2
    <2> QED BY <1>1, <2>1, <2>2
  <1> HIDE DEF Step
  <1>2. Spec => [][Step]_vars
    BY <1>1, CoapInvariant, PTL DEF Spec
  <1> QED BY <1>2 DEF EndedByOwnClient, Step

=============================================================================
