----------------------------- MODULE TschProofs -----------------------------
(***************************************************************************)
(* Proofs about TschQueue, for any number of neighbours, packets, links    *)
(* and retries.                                                            *)
(*                                                                         *)
(* TschInv says where the packets are and what the main context holds at   *)
(* each of its steps; what it found out before a slot operation fell in is *)
(* still true after it, because a slot operation only takes packets out of *)
(* the neighbours' rings and only puts packets into dequeued_ringbuf.      *)
(* Every step keeps it and is a step of TschFifo, or none: LEMMA Step.     *)
(* From it follow TypeOK, PacketsAccounted, LinkScheduled and the          *)
(* refinement ImplementsFifo.  LinksCounted has an invariant of its own,   *)
(* CountInv.                                                               *)
(***************************************************************************)
EXTENDS TschQueue, SeqLemmas

-----------------------------------------------------------------------------
(* Ring buffers.                                                           *)

\* Dividing by m a number that is off by at most one multiple of it.
LEMMA Wrap ==
  ASSUME NEW m \in Nat, 0 < m, NEW x \in Int
  PROVE  /\ 0 <= x /\ x < m => x % m = x
         /\ m <= x /\ x < 2 * m => x % m = x - m
  OBVIOUS

\* The number of places from get to put.
LEMMA CountIs ==
  ASSUME NEW n \in Nat \ {0, 1}, NEW put \in 0 .. n - 1, NEW get \in 0 .. n - 1
  PROVE  /\ (put + n - get) % n = IF get <= put THEN put - get ELSE put + n - get
         /\ (put + n - get) % n \in 0 .. n - 1
  <1> DEFINE x == put + n - get
  <1>1. /\ x \in Int /\ n \in Nat /\ 0 < n
        /\ get <= put => n <= x /\ x < 2 * n /\ x - n = put - get
        /\ ~(get <= put) => 0 <= x /\ x < n
    OBVIOUS
  <1>2. (put + n - get) % n = x % n
    OBVIOUS
  <1> HIDE DEF x
  <1>3. x % n = IF get <= put THEN x - n ELSE x
    BY <1>1, Wrap
  <1> QED BY <1>1, <1>2, <1>3 DEF x

\* Place i of a ring of n whose first element is at g.
Place(g, i, n) == IF g + i - 1 < n THEN g + i - 1 ELSE g + i - 1 - n

\* The places of a ring, by their distance from the first.
LEMMA PlaceIs ==
  ASSUME NEW n \in Nat \ {0, 1}, NEW g \in 0 .. n - 1, NEW i \in 1 .. n
  PROVE  (g + i - 1) % n = Place(g, i, n) /\ Place(g, i, n) \in 0 .. n - 1
  <1> DEFINE x == g + i - 1
  <1>1. x \in Int /\ n \in Nat /\ 0 < n /\ 0 <= x /\ x < 2 * n
    OBVIOUS
  <1>2. (g + i - 1) % n = x % n /\ Place(g, i, n) = IF x < n THEN x ELSE x - n
    BY DEF Place
  <1> HIDE DEF x
  <1>3. x % n = IF x < n THEN x ELSE x - n
    <2>1. CASE x < n
      BY <1>1, <2>1, Wrap
    <2>2. CASE ~(x < n)
      <3>1. n <= x
        BY <1>1, <2>2
      <3> QED BY <1>1, <2>2, <3>1, Wrap
    <2> QED BY <2>1, <2>2
  <1> QED BY <1>1, <1>2, <1>3

\* The place after place p.
LEMMA NextPlace ==
  ASSUME NEW n \in Nat \ {0, 1}, NEW p \in 0 .. n - 1
  PROVE  (p + 1) % n = (IF p + 1 < n THEN p + 1 ELSE 0) /\ (p + 1) % n \in 0 .. n - 1
  <1> DEFINE x == p + 1
  <1>1. x \in Int /\ n \in Nat /\ 0 < n /\ 0 <= x /\ x <= n /\ (p + 1) % n = x % n
    OBVIOUS
  <1> HIDE DEF x
  <1>2. x % n = IF x < n THEN x ELSE 0
    <2>1. CASE x < n
      BY <1>1, <2>1, Wrap
    <2>2. CASE ~(x < n)
      <3>1. n <= x /\ x < 2 * n /\ x - n = 0
        BY <1>1, <2>2
      <3> QED BY <1>1, <2>2, <3>1, Wrap
    <2> QED BY <2>1, <2>2
  <1> QED BY <1>1, <1>2 DEF x

\* A ring buffer of n places.
Ring(n) == [put : 0 .. n - 1, get : 0 .. n - 1, arr : [0 .. n - 1 -> Packet \cup {NONE}]]

\* What the indexes say about the contents.
LEMMA RingIs ==
  ASSUME NEW n \in Nat \ {0, 1}, NEW r \in Ring(n)
  PROVE  /\ RingSize(r) = n
         /\ r.put \in 0 .. n - 1 /\ r.get \in 0 .. n - 1
         /\ r.arr \in [0 .. n - 1 -> Packet \cup {NONE}]
         /\ Elements(r) = IF r.get <= r.put THEN r.put - r.get ELSE r.put + n - r.get
         /\ Elements(r) \in 0 .. n - 1
         /\ Full(r) <=> Elements(r) = n - 1
         /\ Contents(r) = [i \in 1 .. Elements(r) |-> r.arr[Place(r.get, i, n)]]
         /\ Contents(r) \in Seq(Packet \cup {NONE}) /\ Len(Contents(r)) = Elements(r)
  <1>1. RingSize(r) = n
    <2>1. DOMAIN r.arr = 0 .. n - 1
      BY DEF Ring
    <2>2. Cardinality(0 .. n - 1) = n
      BY FS_Interval
    <2> QED BY <2>1, <2>2 DEF RingSize
  <1>2. r.put \in 0 .. n - 1 /\ r.get \in 0 .. n - 1 /\ r.arr \in [0 .. n - 1 -> Packet \cup {NONE}]
    BY DEF Ring
  <1>3. /\ Elements(r) = IF r.get <= r.put THEN r.put - r.get ELSE r.put + n - r.get
        /\ Elements(r) \in 0 .. n - 1
    <2> DEFINE p == r.put
               g == r.get
    <2>1. p \in 0 .. n - 1 /\ g \in 0 .. n - 1
      BY <1>2
    <2>2. Elements(r) = (p + n - g) % n
      BY <1>1 DEF Elements
    <2> HIDE DEF p, g
    <2>3. /\ (p + n - g) % n = IF g <= p THEN p - g ELSE p + n - g
          /\ (p + n - g) % n \in 0 .. n - 1
      BY <2>1, CountIs
    <2> QED BY <2>2, <2>3 DEF p, g
  <1>4. Full(r) <=> Elements(r) = n - 1
    BY <1>1 DEF Full
  <1>5. ASSUME NEW i \in 1 .. Elements(r)
        PROVE  (r.get + i - 1) % n = Place(r.get, i, n) /\ Place(r.get, i, n) \in 0 .. n - 1
    <2> DEFINE g == r.get
    <2>1. g \in 0 .. n - 1 /\ i \in 1 .. n
      BY <1>2, <1>3
    <2> HIDE DEF g
    <2>2. (g + i - 1) % n = Place(g, i, n) /\ Place(g, i, n) \in 0 .. n - 1
      BY <2>1, PlaceIs
    <2> QED BY <2>2 DEF g
  <1>6. Contents(r) = [i \in 1 .. Elements(r) |-> r.arr[Place(r.get, i, n)]]
    BY <1>1, <1>5 DEF Contents
  <1>7. Contents(r) \in Seq(Packet \cup {NONE}) /\ Len(Contents(r)) = Elements(r)
    <2>1. Contents(r) \in [1 .. Elements(r) -> Packet \cup {NONE}]
      BY <1>2, <1>5, <1>6
    <2>2. Elements(r) \in Nat
      BY <1>3
    <2> DEFINE c == Contents(r)
               e == Elements(r)
    <2> HIDE DEF c, e
    <2>3. c \in [1 .. e -> Packet \cup {NONE}] /\ e \in Nat
      BY <2>1, <2>2 DEF c, e
    <2>4. c \in Seq(Packet \cup {NONE}) /\ Len(c) = e
      BY <2>3
    <2> QED BY <2>4 DEF c, e
  <1> QED BY <1>1, <1>2, <1>3, <1>4, <1>6, <1>7

\* Storing at the free place leaves the contents alone.
LEMMA StoreIs ==
  ASSUME NEW n \in Nat \ {0, 1}, NEW r \in Ring(n), NEW p \in Packet
  PROVE  /\ Store(r, p) \in Ring(n) /\ Contents(Store(r, p)) = Contents(r)
         /\ Elements(Store(r, p)) = Elements(r) /\ Store(r, p).put = r.put
         /\ Store(r, p).arr[r.put] = p
  <1> DEFINE s == Store(r, p)
  <1>1. r.put \in 0 .. n - 1 /\ r.get \in 0 .. n - 1 /\ r.arr \in [0 .. n - 1 -> Packet \cup {NONE}]
    BY RingIs
  <1>2. s = [put |-> r.put, get |-> r.get, arr |-> [r.arr EXCEPT ![r.put] = p]]
    <2>1. r = [put |-> r.put, get |-> r.get, arr |-> r.arr]
      BY DEF Ring
    <2>2. s = [r EXCEPT !.arr[r.put] = p]
      BY DEF Store
    <2> HIDE DEF s
    <2> QED BY <2>1, <2>2
  <1>3. s \in Ring(n)
    BY <1>1, <1>2 DEF Ring
  <1>4. s.put = r.put /\ s.get = r.get /\ s.arr[r.put] = p
        /\ \A k \in 0 .. n - 1 : k # r.put => s.arr[k] = r.arr[k]
    BY <1>1, <1>2
  <1> HIDE DEF s
  <1>5. Elements(s) = Elements(r)
    BY <1>3, <1>4, RingIs
  <1>6. ASSUME NEW i \in 1 .. Elements(r)
        PROVE  Place(r.get, i, n) \in 0 .. n - 1 /\ Place(r.get, i, n) # r.put
    <2> DEFINE a == r.put
               g == r.get
               e == Elements(r)
    <2>1. /\ a \in 0 .. n - 1 /\ g \in 0 .. n - 1 /\ e \in 0 .. n - 1
          /\ e = IF g <= a THEN a - g ELSE a + n - g
          /\ i \in 1 .. e
      BY RingIs
    <2> HIDE DEF a, g, e
    <2>2. Place(g, i, n) \in 0 .. n - 1 /\ Place(g, i, n) # a
      BY <2>1 DEF Place
    <2> QED BY <2>2 DEF a, g
  <1>7. Contents(s) = [i \in 1 .. Elements(r) |-> s.arr[Place(r.get, i, n)]]
    BY <1>3, <1>4, <1>5, RingIs
  <1>8. Contents(s) = Contents(r)
    BY <1>4, <1>6, <1>7, RingIs
  <1> QED BY <1>3, <1>4, <1>5, <1>8 DEF s

\* ringbufindex_put takes in what was stored.
LEMMA PutIs ==
  ASSUME NEW n \in Nat \ {0, 1}, NEW r \in Ring(n), ~Full(r)
  PROVE  /\ RingPut(r) \in Ring(n)
         /\ Contents(RingPut(r)) = Append(Contents(r), r.arr[r.put])
  <1> DEFINE s == RingPut(r)
             a == r.put
             g == r.get
             h == (a + 1) % n
             e == Elements(r)
             c == Contents(r)
  <1>1. /\ a \in 0 .. n - 1 /\ g \in 0 .. n - 1 /\ r.arr \in [0 .. n - 1 -> Packet \cup {NONE}]
        /\ e \in 0 .. n - 1 /\ e # n - 1 /\ e = IF g <= a THEN a - g ELSE a + n - g
        /\ c = [i \in 1 .. e |-> r.arr[Place(g, i, n)]] /\ Len(c) = e
        /\ c \in Seq(Packet \cup {NONE})
    BY RingIs
  <1>2. r = [put |-> r.put, get |-> r.get, arr |-> r.arr] /\ RingSize(r) = n
    BY RingIs DEF Ring
  <1>3. s = [put |-> h, get |-> g, arr |-> r.arr]
    <2>1. s = [r EXCEPT !.put = (r.put + 1) % n]
      BY <1>2 DEF RingPut
    <2> HIDE DEF s
    <2> QED BY <1>2, <2>1
  <1> HIDE DEF s, a, g, e, c
  <1>4. h = (IF a + 1 < n THEN a + 1 ELSE 0) /\ h \in 0 .. n - 1
    BY <1>1, NextPlace
  <1> HIDE DEF h
  <1>5. s \in Ring(n) /\ s.get = g /\ s.arr = r.arr /\ s.put = h
    BY <1>1, <1>3, <1>4 DEF Ring
  <1>6. Elements(s) = e + 1
    <2>1. Elements(s) = IF s.get <= s.put THEN s.put - s.get ELSE s.put + n - s.get
      BY <1>5, RingIs
    <2>2. Elements(s) = IF g <= h THEN h - g ELSE h + n - g
      BY <1>5, <2>1
    <2>3. n \in Nat /\ g \in Nat /\ h \in Nat /\ a \in Nat /\ e \in Nat
      BY <1>1, <1>4
    <2>4. /\ g < n /\ a < n /\ e < n - 1
          /\ IF g <= a THEN e = a - g ELSE e = a + n - g
          /\ IF a + 1 < n THEN h = a + 1 ELSE h = 0
      BY <1>1, <1>4
    <2>5. CASE a + 1 < n
      BY <2>2, <2>3, <2>4, <2>5
    <2>6. CASE ~(a + 1 < n)
      BY <2>2, <2>3, <2>4, <2>6
    <2> QED BY <2>5, <2>6
  <1>7. Contents(s) = [i \in 1 .. e + 1 |-> r.arr[Place(g, i, n)]]
    BY <1>5, <1>6, RingIs
  <1>8. Place(g, e + 1, n) = a
    BY <1>1 DEF Place
  <1>9. Append(c, r.arr[a]) = [i \in 1 .. e + 1 |-> IF i <= e THEN c[i] ELSE r.arr[a]]
    <2>1. DOMAIN Append(c, r.arr[a]) = 1 .. e + 1
      BY <1>1
    <2>2. \A i \in 1 .. e + 1 : Append(c, r.arr[a])[i] = IF i <= e THEN c[i] ELSE r.arr[a]
      BY <1>1
    <2>3. Append(c, r.arr[a]) = [i \in DOMAIN Append(c, r.arr[a]) |-> Append(c, r.arr[a])[i]]
      BY <1>1
    <2> QED BY <2>1, <2>2, <2>3
  <1>10. \A i \in 1 .. e + 1 : (IF i <= e THEN c[i] ELSE r.arr[a]) = r.arr[Place(g, i, n)]
    <2> SUFFICES ASSUME NEW i \in 1 .. e + 1
                 PROVE  (IF i <= e THEN c[i] ELSE r.arr[a]) = r.arr[Place(g, i, n)]
      OBVIOUS
    <2>1. CASE i <= e
      BY <1>1, <2>1
    <2>2. CASE ~(i <= e)
      <3>1. i = e + 1
        BY <1>1, <2>2
      <3> QED BY <1>8, <2>2, <3>1
    <2> QED BY <2>1, <2>2
  <1>11. Contents(s) = Append(c, r.arr[a])
    BY <1>7, <1>9, <1>10
  <1> QED BY <1>5, <1>11 DEF s, a, c

\* ringbufindex_get takes out the first element and spares the free place.
LEMMA GetIs ==
  ASSUME NEW n \in Nat \ {0, 1}, NEW r \in Ring(n), Elements(r) # 0
  PROVE  /\ RingGet(r) \in Ring(n) /\ Contents(RingGet(r)) = Tail(Contents(r))
         /\ Contents(r) # << >> /\ First(r) = Head(Contents(r)) /\ ~Full(RingGet(r))
         /\ RingGet(r).put = r.put /\ RingGet(r).arr[r.put] = r.arr[r.put]
  <1> DEFINE s == RingGet(r)
             a == r.put
             g == r.get
             h == (g + 1) % n
             e == Elements(r)
             c == Contents(r)
  <1>1. /\ a \in 0 .. n - 1 /\ g \in 0 .. n - 1 /\ r.arr \in [0 .. n - 1 -> Packet \cup {NONE}]
        /\ e \in 1 .. n - 1 /\ e = IF g <= a THEN a - g ELSE a + n - g
        /\ c = [i \in 1 .. e |-> r.arr[Place(g, i, n)]] /\ Len(c) = e
        /\ c \in Seq(Packet \cup {NONE})
    BY RingIs
  <1>2. r = [put |-> r.put, get |-> r.get, arr |-> r.arr] /\ RingSize(r) = n
    BY RingIs DEF Ring
  <1>3. s = [put |-> a, get |-> h, arr |-> [r.arr EXCEPT ![g] = NONE]]
    <2>1. s = [r EXCEPT !.get = (r.get + 1) % n, !.arr[r.get] = NONE]
      BY <1>2 DEF RingGet
    <2> HIDE DEF s
    <2> QED BY <1>2, <2>1
  <1>4. First(r) = r.arr[g]
    BY DEF First
  <1> HIDE DEF s, a, g, e, c
  <1>5. h = (IF g + 1 < n THEN g + 1 ELSE 0) /\ h \in 0 .. n - 1
    BY <1>1, NextPlace
  <1> HIDE DEF h
  <1>6. /\ s \in Ring(n) /\ s.put = a /\ s.get = h
        /\ \A k \in 0 .. n - 1 : k # g => s.arr[k] = r.arr[k]
    BY <1>1, <1>3, <1>5 DEF Ring
  <1>7. Elements(s) = e - 1
    <2>1. Elements(s) = IF s.get <= s.put THEN s.put - s.get ELSE s.put + n - s.get
      BY <1>6, RingIs
    <2>2. Elements(s) = IF h <= a THEN a - h ELSE a + n - h
      BY <1>6, <2>1
    <2>3. n \in Nat /\ g \in Nat /\ h \in Nat /\ a \in Nat /\ e \in Nat
      BY <1>1, <1>5
    <2>4. /\ g < n /\ a < n /\ 0 < e /\ e < n
          /\ IF g <= a THEN e = a - g ELSE e = a + n - g
          /\ IF g + 1 < n THEN h = g + 1 ELSE h = 0
      BY <1>1, <1>5
    <2>5. CASE g + 1 < n
      BY <2>2, <2>3, <2>4, <2>5
    <2>6. CASE ~(g + 1 < n)
      BY <2>2, <2>3, <2>4, <2>6
    <2> QED BY <2>5, <2>6
  <1>8. ASSUME NEW i \in 1 .. e - 1
        PROVE  /\ Place(h, i, n) = Place(g, i + 1, n) /\ Place(h, i, n) # g
               /\ Place(h, i, n) \in 0 .. n - 1 /\ i + 1 \in 1 .. e
    <2>1. n \in Nat /\ g \in Nat /\ h \in Nat /\ a \in Nat /\ e \in Nat /\ i \in Nat
      BY <1>1, <1>5
    <2>2. /\ g < n /\ a < n /\ e < n /\ 0 < i /\ i < e
          /\ IF g <= a THEN e = a - g ELSE e = a + n - g
          /\ IF g + 1 < n THEN h = g + 1 ELSE h = 0
      BY <1>1, <1>5
    <2>3. i + 1 \in 1 .. e
      BY <2>1, <2>2
    <2>4. CASE g + 1 < n
      BY <2>1, <2>2, <2>3, <2>4 DEF Place
    <2>5. CASE ~(g + 1 < n)
      BY <2>1, <2>2, <2>3, <2>5 DEF Place
    <2> QED BY <2>4, <2>5
  <1>9. Contents(s) = [i \in 1 .. e - 1 |-> s.arr[Place(h, i, n)]]
    BY <1>6, <1>7, RingIs
  <1>10. c # << >> /\ Head(c) = r.arr[g]
    <2>1. Head(c) = c[1] /\ c # << >> /\ 1 \in 1 .. e
      BY <1>1
    <2>2. Place(g, 1, n) = g
      BY <1>1 DEF Place
    <2> QED BY <1>1, <2>1, <2>2
  <1>11. Tail(c) = [i \in 1 .. e - 1 |-> c[i + 1]]
    BY <1>1, <1>10
  <1>12. \A i \in 1 .. e - 1 : s.arr[Place(h, i, n)] = c[i + 1]
    BY <1>1, <1>6, <1>8
  <1>13. Contents(s) = Tail(c)
    BY <1>9, <1>11, <1>12
  <1>14. ~Full(s)
    BY <1>1, <1>6, <1>7, RingIs
  <1>15. a # g
    BY <1>1
  <1>16. s.arr[a] = r.arr[a]
    BY <1>1, <1>6, <1>15
  <1> QED BY <1>4, <1>6, <1>10, <1>13, <1>14, <1>16 DEF s, a, c

\* A ring whose indexes meet is empty.
LEMMA EmptyIs ==
  ASSUME NEW n \in Nat \ {0, 1}, NEW k \in 0 .. n - 1, NEW r,
         r = [put |-> k, get |-> k, arr |-> [i \in 0 .. n - 1 |-> NONE]]
  PROVE  r \in Ring(n) /\ Contents(r) = << >> /\ Elements(r) = 0
  <1>1. r \in Ring(n) /\ r.put = k /\ r.get = k
    BY DEF Ring
  <1>2. Elements(r) = 0
    <2>1. Elements(r) = IF r.get <= r.put THEN r.put - r.get ELSE r.put + n - r.get
      BY <1>1, RingIs
    <2>2. k <= k /\ k - k = 0
      OBVIOUS
    <2> QED BY <1>1, <2>1, <2>2
  <1>3. Contents(r) \in Seq(Packet \cup {NONE}) /\ Len(Contents(r)) = 0
    BY <1>1, <1>2, RingIs
  <1> QED BY <1>1, <1>2, <1>3

-----------------------------------------------------------------------------
(* The inductive invariant.                                                *)

N == TSCH_QUEUE_NUM_PER_NEIGHBOR
D == TSCH_DEQUEUED_ARRAY_SIZE
R == TSCH_MAC_MAX_FRAME_RETRIES

Nbr == [ring : Ring(N), win : 0 .. 2^TSCH_MAC_MAX_BE,
        be : TSCH_MAC_MIN_BE .. TSCH_MAC_MAX_BE, links : 0 .. 255, src : BOOLEAN]

Main == [at : {"idle", "request", "take", "critical", "fill", "put", "added", "removed",
               "count", "uncount", "source", "rx", "report", "scan", "free_nbr", "reset"},
         op : {"none", "add_nbr", "remove_nbr", "add_link", "remove_link"},
         then : {"idle", "fill", "count", "uncount", "source", "added", "removed", "free_nbr"},
         a : NbrAddr \cup {NONE}, p : Nat \cup {NONE}, l : Link \cup {NONE},
         rest : Seq(NbrAddr), after : {"idle", "reset"}]

\* The queues and the list of neighbours; the virtual ones are never removed.
Lists ==
  /\ list \in Seq(NbrAddr) /\ IsInjective(list)
  /\ Len(list) <= TSCH_QUEUE_MAX_NEIGHBOR_QUEUES
  /\ OnList(Eb) /\ OnList(Broadcast)
  /\ nbr \in [NbrAddr -> Nbr]
  /\ deq \in Ring(D)
  /\ \A a \in NbrAddr : ~OnList(a) => IsEmpty(a)

\* The schedule and the flags.
Schedule ==
  /\ assoc \in BOOLEAN /\ armed \in BOOLEAN
  /\ sched \in SUBSET Block /\ link \in [Block -> Link]
  /\ cur \in Block \cup {NONE} /\ bak \in Block \cup {NONE}
  /\ LinkScheduled

Locking == main.at \in {"request", "take", "critical"}

Removing == main.op = "remove_nbr"

\* What the main context holds when it waits for the lock.
Locked ==
  \/ /\ main.op = "add_nbr" /\ main.a \in NbrAddr /\ ~OnList(main.a)
     /\ main.then \in {"fill", "count", "uncount", "source"}
     /\ main.then = "source" => main.a \in Addr
     /\ main.then \in {"count", "uncount"} => main.l \in Link /\ main.l.tx /\ main.a = main.l.addr
  \/ /\ main.op = "add_link" /\ main.then = "added"
     /\ main.l \in Link /\ main.a = main.l.addr
  \/ /\ main.op = "remove_link" /\ main.then = "removed"
     /\ main.p \in sched /\ main.l = link[main.p] /\ main.a = main.l.addr
  \/ /\ main.op = "remove_nbr" /\ main.then = "free_nbr"
     /\ main.a \in Addr /\ IsEmpty(main.a) /\ nbr[main.a].links = 0

\* What it holds at its other steps.
Control ==
  /\ main \in Main
  /\ lock = IF At("take") THEN "requested" ELSE IF At("critical") THEN "held" ELSE "free"
  /\ At("idle") => main = Idle
  /\ IF Locking THEN Locked ELSE main.op = "none"
  /\ main.at \in {"added", "removed", "count", "uncount"} =>
       main.l \in Link /\ main.a = main.l.addr
  /\ main.at \in {"count", "uncount"} => main.l.tx
  /\ At("fill") => main.a \in NbrAddr
  /\ At("put") => /\ OnList(main.a) /\ main.p \in Packet /\ ~Full(nbr[main.a].ring)
                  /\ nbr[main.a].ring.arr[nbr[main.a].ring.put] = main.p
  /\ main.at \in {"rx", "report", "reset"} => main.p = NONE
  /\ main.after = "reset" =>
       ~assoc /\ (main.at \in {"rx", "report", "scan", "free_nbr", "reset"} \/ Removing)
  /\ At("reset") => main.after = "reset" /\ Elements(deq) = 0
  /\ Reported => main.p \in Packet /\ Elements(deq) # 0 /\ First(deq) = main.p
  /\ At("free_nbr") => main.a \in Addr /\ ~OnList(main.a)

Queues == [a \in NbrAddr |-> Contents(nbr[a].ring)]
InHand == IF At("put") THEN {main.p} ELSE {}

\* Where the packets are, given the queues, those that left, the one in hand,
\* the allocated ones and their transmissions.
Account(q, l, h, k, t) ==
  /\ q \in [NbrAddr -> Seq(Packet)] /\ l \in Seq(Packet) /\ h \in SUBSET Packet
  /\ k \in SUBSET Packet /\ t \in [Packet -> 0 .. R + 1]
  /\ k = h \cup ToSet(l) \cup UNION {ToSet(q[a]) : a \in NbrAddr}
  /\ IsInjective(l) /\ h \cap ToSet(l) = {}
  /\ \A a \in NbrAddr :
       /\ IsInjective(q[a]) /\ ToSet(q[a]) \cap (h \cup ToSet(l)) = {}
       /\ \A b \in NbrAddr : a # b => ToSet(q[a]) \cap ToSet(q[b]) = {}
       /\ \A p \in ToSet(q[a]) : t[p] <= R
  /\ \A p \in Packet : p \notin k \/ p \in h => t[p] = 0

Accounted == Account(Queues, Leaving, InHand, pkts, tx)

TschInv == Lists /\ Schedule /\ Control /\ Accounted

\* A link of the schedule that tx_links_count does not have yet, or still has.
Uncounted(a) ==
  \/ At("added") /\ main.l.tx /\ main.a = a
  \/ /\ At("count") \/ (Locking /\ main.op = "add_nbr" /\ main.then = "count")
     /\ main.a = a

Overcounted(a) ==
  \/ At("removed") /\ main.l.tx /\ main.a = a
  \/ /\ At("uncount") \/ (Locking /\ main.op = "add_nbr" /\ main.then = "uncount")
     /\ main.a = a

LinkCount(a) == IF OnList(a) THEN nbr[a].links ELSE 0

CountInv ==
  /\ \A a \in NbrAddr :
       LinkCount(a) + (IF Uncounted(a) THEN 1 ELSE 0)
         = Cardinality(TxLinks(a)) + (IF Overcounted(a) THEN 1 ELSE 0)
  /\ main.at \in {"count", "uncount"} => OnList(main.a)

-----------------------------------------------------------------------------
(* What the steps do to the places of the packets.                         *)

\* tsch_queue_add_packet takes a free block.
LEMMA AccountFill ==
  ASSUME NEW q, NEW l, NEW k, NEW t, Account(q, l, {}, k, t), NEW p \in Packet, p \notin k
  PROVE  /\ [t EXCEPT ![p] = 0] = t
         /\ Account(q, l, {p}, k \cup {p}, [t EXCEPT ![p] = 0])
  <1>1. t \in [Packet -> 0 .. R + 1] /\ t[p] = 0
    BY DEF Account
  <1>2. [t EXCEPT ![p] = 0] = t
    BY <1>1
  <1>3. p \notin ToSet(l) /\ \A a \in NbrAddr : p \notin ToSet(q[a])
    BY DEF Account
  <1>4. Account(q, l, {p}, k \cup {p}, t)
    BY <1>1, <1>3 DEF Account
  <1> QED BY <1>2, <1>4

\* ringbufindex_put hands it to a queue.
LEMMA AccountPut ==
  ASSUME NEW q, NEW l, NEW k, NEW t, NEW p, Account(q, l, {p}, k, t), NEW a \in NbrAddr,
         R \in Nat
  PROVE  /\ Account([q EXCEPT ![a] = Append(@, p)], l, {}, k, t)
         /\ p \in Packet /\ p \notin ToSet(l) /\ \A b \in NbrAddr : p \notin ToSet(q[b])
  <1> DEFINE r == [q EXCEPT ![a] = Append(@, p)]
  <1>1. p \in Packet /\ q \in [NbrAddr -> Seq(Packet)] /\ IsInjective(q[a])
    BY DEF Account
  <1>2. p \notin ToSet(l) /\ \A b \in NbrAddr : p \notin ToSet(q[b])
    BY DEF Account
  <1>3. /\ Append(q[a], p) \in Seq(Packet) /\ IsInjective(Append(q[a], p))
        /\ ToSet(Append(q[a], p)) = ToSet(q[a]) \cup {p}
    BY <1>1, <1>2, AppendKeeps
  <1>4. r \in [NbrAddr -> Seq(Packet)] /\ r[a] = Append(q[a], p)
        /\ \A b \in NbrAddr : b # a => r[b] = q[b]
    BY <1>1, <1>3
  <1> HIDE DEF r
  <1>5. t[p] = 0
    BY <1>1 DEF Account
  <1>6. \A b \in NbrAddr : /\ IsInjective(r[b])
                           /\ ToSet(r[b]) = IF b = a THEN ToSet(q[b]) \cup {p} ELSE ToSet(q[b])
    BY <1>3, <1>4 DEF Account
  <1>7. k = {} \cup ToSet(l) \cup UNION {ToSet(r[b]) : b \in NbrAddr}
    <2>1. k = {p} \cup ToSet(l) \cup UNION {ToSet(q[b]) : b \in NbrAddr}
      BY DEF Account
    <2>2. UNION {ToSet(r[b]) : b \in NbrAddr} = {p} \cup UNION {ToSet(q[b]) : b \in NbrAddr}
      BY <1>6
    <2> QED BY <2>1, <2>2
  <1>8. \A b \in NbrAddr : /\ ToSet(r[b]) \cap ({} \cup ToSet(l)) = {}
                           /\ \A c \in NbrAddr : b # c => ToSet(r[b]) \cap ToSet(r[c]) = {}
    BY <1>2, <1>6 DEF Account
  <1>9. \A b \in NbrAddr : \A x \in ToSet(r[b]) : t[x] <= R
    <2> SUFFICES ASSUME NEW b \in NbrAddr, NEW x \in ToSet(r[b]) PROVE t[x] <= R
      OBVIOUS
    <2>1. x = p \/ x \in ToSet(q[b])
      BY <1>6
    <2>2. \A y \in ToSet(q[b]) : t[y] <= R
      BY DEF Account
    <2> QED BY <1>5, <2>1, <2>2
  <1>10. \A x \in Packet : x \notin k \/ x \in {} => t[x] = 0
    BY DEF Account
  <1>11. /\ l \in Seq(Packet) /\ k \in SUBSET Packet /\ t \in [Packet -> 0 .. R + 1]
         /\ IsInjective(l)
    BY DEF Account
  <1>12. Account(r, l, {}, k, t)
    BY <1>4, <1>6, <1>7, <1>8, <1>9, <1>10, <1>11 DEF Account
  <1> QED BY <1>1, <1>2, <1>12 DEF r

\* A packet that is transmitted and kept.
LEMMA AccountKeep ==
  ASSUME NEW q, NEW l, NEW h, NEW k, NEW t, Account(q, l, h, k, t), R \in Nat,
         NEW a \in NbrAddr, q[a] # << >>, t[Head(q[a])] + 1 <= R
  PROVE  Account(q, l, h, k, [t EXCEPT ![Head(q[a])] = @ + 1])
  <1> DEFINE p == Head(q[a])
             u == [t EXCEPT ![p] = @ + 1]
  <1>1. q[a] \in Seq(Packet) /\ IsInjective(q[a])
    BY DEF Account
  <1>2. p \in Packet /\ p \in ToSet(q[a])
    BY <1>1, TailKeeps
  <1>3. t \in [Packet -> 0 .. R + 1] /\ t[p] + 1 <= R
    BY DEF Account
  <1> HIDE DEF p
  <1>4. /\ u \in [Packet -> 0 .. R + 1] /\ u[p] <= R
        /\ \A x \in Packet : x # p => u[x] = t[x]
    BY <1>2, <1>3
  <1> HIDE DEF u
  <1>5. p \in k /\ p \notin h
    BY <1>2 DEF Account
  <1>6. \A b \in NbrAddr : \A x \in ToSet(q[b]) : x \in Packet /\ u[x] <= R
    <2> SUFFICES ASSUME NEW b \in NbrAddr, NEW x \in ToSet(q[b]) PROVE x \in Packet /\ u[x] <= R
      OBVIOUS
    <2>1. x \in Packet /\ t[x] <= R
      BY DEF Account
    <2> QED BY <1>4, <2>1
  <1>7. Account(q, l, h, k, u)
    BY <1>4, <1>5, <1>6 DEF Account
  <1> QED BY <1>7 DEF u, p

\* A packet that is transmitted and leaves its queue.
LEMMA AccountMove ==
  ASSUME NEW q, NEW l, NEW h, NEW k, NEW t, Account(q, l, h, k, t), R \in Nat,
         NEW a \in NbrAddr, q[a] # << >>
  PROVE  /\ Account([q EXCEPT ![a] = Tail(@)], Append(l, Head(q[a])), h, k,
                    [t EXCEPT ![Head(q[a])] = @ + 1])
         /\ Head(q[a]) \in Packet /\ t[Head(q[a])] \in 0 .. R
  <1> DEFINE p == Head(q[a])
             u == [t EXCEPT ![p] = @ + 1]
             r == [q EXCEPT ![a] = Tail(@)]
             m == Append(l, p)
  <1>1. q \in [NbrAddr -> Seq(Packet)] /\ q[a] \in Seq(Packet) /\ IsInjective(q[a])
    BY DEF Account
  <1>2. /\ p \in Packet /\ p \in ToSet(q[a])
        /\ Tail(q[a]) \in Seq(Packet) /\ IsInjective(Tail(q[a]))
        /\ ToSet(Tail(q[a])) = ToSet(q[a]) \ {p}
    BY <1>1, TailKeeps
  <1>3. t \in [Packet -> 0 .. R + 1] /\ t[p] \in 0 .. R
    <2>1. t \in [Packet -> 0 .. R + 1] /\ t[p] <= R
      BY <1>2 DEF Account
    <2> QED BY <1>2, <2>1
  <1>4. p \notin h /\ p \notin ToSet(l) /\ \A b \in NbrAddr : b # a => p \notin ToSet(q[b])
    BY <1>2 DEF Account
  <1>5. l \in Seq(Packet) /\ IsInjective(l)
    BY DEF Account
  <1> HIDE DEF p
  <1>6. m \in Seq(Packet) /\ IsInjective(m) /\ ToSet(m) = ToSet(l) \cup {p}
    BY <1>2, <1>4, <1>5, AppendKeeps
  <1>7. r \in [NbrAddr -> Seq(Packet)] /\ r[a] = Tail(q[a])
        /\ \A b \in NbrAddr : b # a => r[b] = q[b]
    BY <1>1, <1>2
  <1>8. /\ u \in [Packet -> 0 .. R + 1]
        /\ \A x \in Packet : x # p => u[x] = t[x]
    BY <1>2, <1>3
  <1> HIDE DEF r, u, m
  <1>9. \A b \in NbrAddr : /\ IsInjective(r[b])
                           /\ ToSet(r[b]) = ToSet(q[b]) \ {p}
    <2> SUFFICES ASSUME NEW b \in NbrAddr
                 PROVE  IsInjective(r[b]) /\ ToSet(r[b]) = ToSet(q[b]) \ {p}
      OBVIOUS
    <2>1. CASE b = a
      BY <1>2, <1>7, <2>1
    <2>2. CASE b # a
      BY <1>4, <1>7, <2>2 DEF Account
    <2> QED BY <2>1, <2>2
  <1>10. k = h \cup ToSet(m) \cup UNION {ToSet(r[b]) : b \in NbrAddr}
    <2>1. k = h \cup ToSet(l) \cup UNION {ToSet(q[b]) : b \in NbrAddr}
      BY DEF Account
    <2>2. UNION {ToSet(q[b]) : b \in NbrAddr} = {p} \cup UNION {ToSet(r[b]) : b \in NbrAddr}
      <3>1. \A x : (\E b \in NbrAddr : x \in ToSet(q[b])) <=> x = p \/ \E b \in NbrAddr : x \in ToSet(r[b])
        BY <1>2, <1>9
      <3> QED BY <3>1
    <2> QED BY <1>6, <2>1, <2>2
  <1>11. \A b \in NbrAddr : /\ ToSet(r[b]) \cap (h \cup ToSet(m)) = {}
                            /\ \A c \in NbrAddr : b # c => ToSet(r[b]) \cap ToSet(r[c]) = {}
    BY <1>6, <1>9 DEF Account
  <1>12. \A b \in NbrAddr : \A x \in ToSet(r[b]) : u[x] <= R
    <2> SUFFICES ASSUME NEW b \in NbrAddr, NEW x \in ToSet(r[b]) PROVE u[x] <= R
      OBVIOUS
    <2>1. x \in ToSet(q[b]) /\ x # p
      BY <1>9
    <2>2. x \in Packet /\ t[x] <= R
      BY <2>1 DEF Account
    <2> QED BY <1>8, <2>1, <2>2
  <1>13. \A x \in Packet : x \notin k \/ x \in h => u[x] = 0
    <2>1. p \in k
      BY <1>2 DEF Account
    <2> QED BY <1>4, <1>8, <2>1 DEF Account
  <1>14. h \in SUBSET Packet /\ k \in SUBSET Packet /\ h \cap ToSet(m) = {}
    BY <1>4, <1>6 DEF Account
  <1>15. Account(r, m, h, k, u)
    BY <1>6, <1>7, <1>8, <1>9, <1>10, <1>11, <1>12, <1>13, <1>14 DEF Account
  <1> QED BY <1>2, <1>3, <1>15 DEF r, u, m, p

\* tsch_tx_process_pending reports and frees the first packet that left.
LEMMA AccountTell ==
  ASSUME NEW q, NEW l, NEW h, NEW k, NEW t, Account(q, l, h, k, t), R \in Nat, l # << >>
  PROVE  /\ Account(q, Tail(l), h, k \ {Head(l)},
                    [x \in Packet |-> IF x \in {Head(l)} THEN 0 ELSE t[x]])
         /\ Head(l) \in Packet
         /\ [x \in Packet |-> IF x \in {Head(l)} THEN 0 ELSE t[x]] = [t EXCEPT ![Head(l)] = 0]
  <1> DEFINE p == Head(l)
             u == [x \in Packet |-> IF x \in {p} THEN 0 ELSE t[x]]
             m == Tail(l)
  <1>1. l \in Seq(Packet) /\ IsInjective(l)
    BY DEF Account
  <1>2. /\ p \in Packet /\ p \in ToSet(l)
        /\ m \in Seq(Packet) /\ IsInjective(m) /\ ToSet(m) = ToSet(l) \ {p}
    BY <1>1, TailKeeps
  <1>3. p \notin h /\ \A b \in NbrAddr : p \notin ToSet(q[b])
    BY <1>2 DEF Account
  <1>4. t \in [Packet -> 0 .. R + 1]
    BY DEF Account
  <1> HIDE DEF p, m
  <1>5. /\ u \in [Packet -> 0 .. R + 1] /\ u[p] = 0
        /\ \A x \in Packet : x # p => u[x] = t[x]
    BY <1>2, <1>4
  <1>6. u = [t EXCEPT ![p] = 0]
    BY <1>2, <1>4
  <1> HIDE DEF u
  <1>7. k \ {p} = h \cup ToSet(m) \cup UNION {ToSet(q[b]) : b \in NbrAddr}
    <2>1. k = h \cup ToSet(l) \cup UNION {ToSet(q[b]) : b \in NbrAddr}
      BY DEF Account
    <2> QED BY <1>2, <1>3, <2>1
  <1>8. \A b \in NbrAddr : \A x \in ToSet(q[b]) : u[x] <= R
    <2> SUFFICES ASSUME NEW b \in NbrAddr, NEW x \in ToSet(q[b]) PROVE u[x] <= R
      OBVIOUS
    <2>1. x \in Packet /\ t[x] <= R
      BY DEF Account
    <2> QED BY <1>3, <1>5, <2>1
  <1>9. \A x \in Packet : x \notin k \ {p} \/ x \in h => u[x] = 0
    BY <1>5 DEF Account
  <1>10. \A b \in NbrAddr : IsInjective(q[b]) /\ ToSet(q[b]) \cap (h \cup ToSet(m)) = {}
                            /\ \A c \in NbrAddr : b # c => ToSet(q[b]) \cap ToSet(q[c]) = {}
    BY <1>2 DEF Account
  <1>11. h \in SUBSET Packet /\ k \ {p} \in SUBSET Packet /\ h \cap ToSet(m) = {}
         /\ q \in [NbrAddr -> Seq(Packet)]
    BY <1>2 DEF Account
  <1>12. Account(q, m, h, k \ {p}, u)
    BY <1>2, <1>5, <1>7, <1>8, <1>9, <1>10, <1>11 DEF Account
  <1> QED BY <1>2, <1>6, <1>12 DEF u, m, p

\* tsch_queue_reset frees whatever waits.
LEMMA AccountFlush ==
  ASSUME NEW q, NEW k, NEW t, Account(q, << >>, {}, k, t), R \in Nat,
         NEW e, e = [a \in NbrAddr |-> << >>],
         NEW u, u = [x \in Packet |-> IF x \in k THEN 0 ELSE t[x]]
  PROVE  /\ Account(e, << >>, {}, {}, u)
         /\ u = [x \in Packet |-> 0]
         /\ k = UNION {ToSet(q[a]) : a \in NbrAddr}
  <1> DEFINE z == << >>
  <1>1. z \in Seq(Packet) /\ IsInjective(z) /\ ToSet(z) = {}
    BY DEF IsInjective, ToSet
  <1>2. k = UNION {ToSet(q[a]) : a \in NbrAddr}
    BY <1>1 DEF Account
  <1>3. u = [x \in Packet |-> 0]
    BY DEF Account
  <1>4. e \in [NbrAddr -> Seq(Packet)] /\ \A a \in NbrAddr : e[a] = z
    BY <1>1
  <1> HIDE DEF z
  <1>5. Account(e, z, {}, {}, [x \in Packet |-> 0])
    BY <1>1, <1>4 DEF Account
  <1> QED BY <1>2, <1>3, <1>5 DEF z

-----------------------------------------------------------------------------
(* The slot operation.                                                     *)

\* What the proofs use of the constants.
LEMMA Constants ==
  /\ N \in Nat \ {0, 1} /\ D \in Nat \ {0, 1} /\ R \in Nat
  /\ NONE \notin Nat /\ NONE \notin NbrAddr /\ NONE \notin Packet /\ NONE \notin Block
  /\ Eb \in NbrAddr /\ Broadcast \in NbrAddr /\ Eb # Broadcast
  /\ Eb \notin Addr /\ Broadcast \notin Addr /\ Addr \subseteq NbrAddr
  /\ TSCH_MAC_MIN_BE \in Nat /\ TSCH_MAC_MAX_BE \in Nat /\ TSCH_MAC_MIN_BE <= TSCH_MAC_MAX_BE
  /\ \A be \in 0 .. TSCH_MAC_MAX_BE : 2^be \in Nat \ {0}
  BY TschAssumption DEF N, D, R, NbrAddr, Packet, Block

\* A remainder is no greater than the number.
LEMMA ModLess ==
  ASSUME NEW n \in Nat \ {0}, NEW w \in Nat
  PROVE  w % n \in Nat /\ w % n <= w
  OBVIOUS

\* Storing and putting a packet into a ring that has room.
LEMMA PutStored ==
  ASSUME NEW n \in Nat \ {0, 1}, NEW r \in Ring(n), NEW p \in Packet, ~Full(r)
  PROVE  /\ RingPut(Store(r, p)) \in Ring(n)
         /\ Contents(RingPut(Store(r, p))) = Append(Contents(r), p)
  <1> DEFINE s == Store(r, p)
  <1>1. /\ s \in Ring(n) /\ Contents(s) = Contents(r) /\ Elements(s) = Elements(r)
        /\ s.arr[s.put] = p
    BY StoreIs
  <1> HIDE DEF s
  <1>2. ~Full(s)
    BY <1>1, RingIs
  <1>3. RingPut(s) \in Ring(n) /\ Contents(RingPut(s)) = Append(Contents(s), p)
    BY <1>1, <1>2, PutIs
  <1> QED BY <1>1, <1>3 DEF s

\* A ring with elements has a first one.
LEMMA FirstIs ==
  ASSUME NEW n \in Nat \ {0, 1}, NEW r \in Ring(n)
  PROVE  /\ Elements(r) = 0 <=> Contents(r) = << >>
         /\ Elements(r) # 0 => First(r) = Head(Contents(r))
  <1>1. Contents(r) \in Seq(Packet \cup {NONE}) /\ Len(Contents(r)) = Elements(r)
    BY RingIs
  <1>2. Elements(r) = 0 <=> Contents(r) = << >>
    <2> DEFINE c == Contents(r)
    <2> HIDE DEF c
    <2>1. c \in Seq(Packet \cup {NONE}) /\ Len(c) = Elements(r)
      BY <1>1 DEF c
    <2>2. Elements(r) = 0 <=> c = << >>
      BY <2>1
    <2> QED BY <2>2 DEF c
  <1> QED BY <1>2, GetIs

\* The backoff windows change, and nothing else of the neighbours.
LEMMA BackoffIs ==
  ASSUME NEW l, NEW n \in [NbrAddr -> Nbr]
  PROVE  /\ UpdateBackoff(l, n) \in [NbrAddr -> Nbr]
         /\ \A a \in NbrAddr : /\ UpdateBackoff(l, n)[a].ring = n[a].ring
                               /\ UpdateBackoff(l, n)[a].links = n[a].links
  <1>1. ASSUME NEW a \in NbrAddr, n[a].win # 0
        PROVE  LET m == [n[a] EXCEPT !.win = @ - 1]
               IN m \in Nbr /\ m.ring = n[a].ring /\ m.links = n[a].links
    <2>1. n[a] \in Nbr /\ 2^TSCH_MAC_MAX_BE \in Nat
      BY Constants
    <2>2. n[a].win - 1 \in 0 .. 2^TSCH_MAC_MAX_BE
      BY <1>1, <2>1 DEF Nbr
    <2> QED BY <2>1, <2>2 DEF Nbr
  <1> QED BY <1>1 DEF UpdateBackoff

\* A transmission takes at most the first packet out of the queue.
LEMMA AfterTxIs ==
  ASSUME NEW a \in NbrAddr, nbr[a] \in Nbr, ~IsEmpty(a), NEW l,
         NEW ok \in BOOLEAN, NEW leaves \in BOOLEAN, NEW w \in 0 .. 2^TSCH_MAC_MAX_BE - 1
  PROVE  /\ AfterTx(a, l, ok, leaves, w) \in Nbr
         /\ AfterTx(a, l, ok, leaves, w).ring = IF leaves THEN RingGet(nbr[a].ring) ELSE nbr[a].ring
         /\ AfterTx(a, l, ok, leaves, w).links = nbr[a].links
  <1> DEFINE n == IF leaves THEN [nbr[a] EXCEPT !.ring = RingGet(@)] ELSE nbr[a]
             be == IF n.be < TSCH_MAC_MAX_BE THEN n.be + 1 ELSE TSCH_MAC_MAX_BE
             v == (w % 2^be) + 1
  <1>1. /\ n \in Nbr /\ n.links = nbr[a].links
        /\ n.ring = IF leaves THEN RingGet(nbr[a].ring) ELSE nbr[a].ring
    <2>1. RingGet(nbr[a].ring) \in Ring(N)
      BY Constants, GetIs DEF Nbr, IsEmpty
    <2> QED BY <2>1 DEF Nbr
  <1>2. AfterTx(a, l, ok, leaves, w) =
          IF a \notin Addr THEN n
          ELSE IF ok
          THEN IF l.shared \/ Elements(n.ring) = 0
               THEN [n EXCEPT !.win = 0, !.be = TSCH_MAC_MIN_BE] ELSE n
          ELSE IF l.shared THEN [n EXCEPT !.be = be, !.win = v] ELSE n
    BY DEF AfterTx
  <1> HIDE DEF n
  <1>3. be \in TSCH_MAC_MIN_BE .. TSCH_MAC_MAX_BE
    BY <1>1, Constants DEF Nbr
  <1> HIDE DEF be
  <1>4. v \in 0 .. 2^TSCH_MAC_MAX_BE
    <2> DEFINE M == 2^TSCH_MAC_MAX_BE
               K == 2^be
    <2>1. M \in Nat \ {0} /\ K \in Nat \ {0}
      BY <1>3, Constants
    <2>2. w \in 0 .. M - 1
      OBVIOUS
    <2> HIDE DEF M, K
    <2>3. w % K \in Nat /\ w % K <= w
      BY <2>1, <2>2, ModLess
    <2>4. (w % K) + 1 \in 0 .. M
      BY <2>1, <2>2, <2>3
    <2> QED BY <2>4 DEF M, K
  <1> HIDE DEF v
  <1>5. 0 \in 0 .. 2^TSCH_MAC_MAX_BE /\ TSCH_MAC_MIN_BE \in TSCH_MAC_MIN_BE .. TSCH_MAC_MAX_BE
    BY Constants
  <1>6. [n EXCEPT !.win = 0, !.be = TSCH_MAC_MIN_BE] \in Nbr /\ [n EXCEPT !.be = be, !.win = v] \in Nbr
    BY <1>1, <1>3, <1>4, <1>5 DEF Nbr
  <1>7. /\ [n EXCEPT !.win = 0, !.be = TSCH_MAC_MIN_BE].ring = n.ring
        /\ [n EXCEPT !.win = 0, !.be = TSCH_MAC_MIN_BE].links = n.links
        /\ [n EXCEPT !.be = be, !.win = v].ring = n.ring
        /\ [n EXCEPT !.be = be, !.win = v].links = n.links
    BY <1>1 DEF Nbr
  <1> QED BY <1>1, <1>2, <1>6, <1>7

\* A neighbour that is sent to is on the list and has a packet.
LEMMA NeighborIs ==
  ASSUME list \in Seq(NbrAddr), NEW l, NeighborFor(l) # NONE
  PROVE  OnList(NeighborFor(l)) /\ ~IsEmpty(NeighborFor(l))
  <1>1. \A a : PacketFor(a, l) # NONE => OnList(a) /\ ~IsEmpty(a)
    BY DEF PacketFor
  <1>2. ASSUME UnicastForAny(l) # {}
        PROVE  PacketFor(list[Min(UnicastForAny(l))], l) # NONE
    <2>1. UnicastForAny(l) \in SUBSET Nat
      BY DEF UnicastForAny
    <2>2. Min(UnicastForAny(l)) \in UnicastForAny(l)
      BY <1>2, <2>1, MinIs
    <2> QED BY <2>2 DEF UnicastForAny
  <1> QED BY <1>1, <1>2 DEF NeighborFor

\* The end of a slot: windows, the next link, or the network is left.
LEMMA EndSlotIs ==
  ASSUME Schedule, NEW c \in Block \cup {NONE}, NEW n \in [NbrAddr -> Nbr], NEW posted,
         EndSlot(c, n, posted), UNCHANGED <<sched, link>>
  PROVE  /\ Schedule' /\ (assoc' => assoc)
         /\ nbr' \in [NbrAddr -> Nbr]
         /\ \A a \in NbrAddr : nbr'[a].ring = n[a].ring /\ nbr'[a].links = n[a].links
  <1>1. CASE /\ nbr' = IF c = NONE THEN n ELSE UpdateBackoff(link[c], n)
             /\ NextLink /\ UNCHANGED <<assoc, armed>>
    <2>1. Schedule'
      BY <1>1 DEF Schedule, NextLink, LinkScheduled
    <2>2. \/ nbr' = n
          \/ nbr' = UpdateBackoff(link[c], n)
      BY <1>1
    <2> QED BY <1>1, <2>1, <2>2, BackoffIs
  <1>2. CASE assoc' = FALSE /\ armed' = FALSE /\ nbr' = n /\ cur' = c /\ UNCHANGED bak
    BY <1>2 DEF Schedule, LinkScheduled
  <1> QED BY <1>1, <1>2 DEF EndSlot

-----------------------------------------------------------------------------
(* Steps of TschFifo.                                                      *)

FifoStep == [Fifo!FifoNext]_(Fifo!fifoVars)

\* What waits is in the ring buffers of the neighbours on the list.
LEMMA WaitingIs ==
  /\ Lists => [a \in NbrAddr |-> Waiting(a)] = Queues
  /\ Lists' => [a \in NbrAddr |-> Waiting(a)]' = Queues'
  <1>1. ASSUME NEW n \in [NbrAddr -> Nbr], NEW l, \A a \in NbrAddr : a \notin ToSet(l) => Elements(n[a].ring) = 0
        PROVE  [a \in NbrAddr |-> IF a \in ToSet(l) THEN Contents(n[a].ring) ELSE << >>]
                 = [a \in NbrAddr |-> Contents(n[a].ring)]
    <2>1. \A a \in NbrAddr : a \notin ToSet(l) => Contents(n[a].ring) = << >>
      <3> SUFFICES ASSUME NEW a \in NbrAddr, a \notin ToSet(l) PROVE Contents(n[a].ring) = << >>
        OBVIOUS
      <3>1. n[a].ring \in Ring(N) /\ Elements(n[a].ring) = 0
        BY <1>1 DEF Nbr
      <3> QED BY <3>1, Constants, FirstIs
    <2> QED BY <2>1
  <1>2. Lists => [a \in NbrAddr |-> Waiting(a)] = Queues
    BY <1>1 DEF Lists, IsEmpty, OnList, Waiting, Queues
  <1>3. Lists' => [a \in NbrAddr |-> Waiting(a)]' = Queues'
    BY <1>1 DEF Lists, IsEmpty, OnList, Waiting, Queues
  <1> QED BY <1>2, <1>3

\* Nothing happens to the queues.
LEMMA FifoStutter ==
  ASSUME Lists, Lists', Queues' = Queues, Leaving' = Leaving, tx' = tx
  PROVE  FifoStep
  BY WaitingIs DEF FifoStep, Fifo!fifoVars

\* A packet is put into a queue.
LEMMA FifoAccept ==
  ASSUME Lists, Lists', NEW a \in NbrAddr, NEW p \in Packet,
         p \notin ToSet(Leaving), \A b \in NbrAddr : p \notin ToSet(Queues[b]),
         Len(Queues[a]) < N - 1,
         Queues' = [Queues EXCEPT ![a] = Append(@, p)], Leaving' = Leaving, tx' = tx
  PROVE  FifoStep
  <1> DEFINE q == [b \in NbrAddr |-> Waiting(b)]
  <1>1. q = Queues /\ q' = Queues'
    BY WaitingIs
  <1> HIDE DEF q
  <1>2. \A b \in NbrAddr : p \notin ToSet(q[b])
    BY <1>1
  <1>3. ~Fifo!InUse(p)
    BY <1>2 DEF Fifo!InUse, Fifo!ToSet, ToSet, q
  <1>4. Len(q[a]) < TSCH_QUEUE_NUM_PER_NEIGHBOR - 1 /\ q' = [q EXCEPT ![a] = Append(@, p)]
    BY <1>1 DEF N
  <1>5. Fifo!Accept(a, p)
    BY <1>3, <1>4 DEF Fifo!Accept, q
  <1> QED BY <1>5 DEF FifoStep, Fifo!FifoNext

\* The first packet of a queue is transmitted and kept.
LEMMA FifoKeep ==
  ASSUME Lists, Lists', R \in Nat, NEW a \in NbrAddr, Queues[a] # << >>,
         tx[Head(Queues[a])] \in Nat, tx[Head(Queues[a])] + 1 <= R,
         Queues' = Queues, Leaving' = Leaving, tx' = [tx EXCEPT ![Head(Queues[a])] = @ + 1]
  PROVE  FifoStep
  <1> DEFINE p == Head(Queues[a])
  <1>1. tx[p] < R + 1 /\ tx[p] + 1 < R + 1
    BY SMT
  <1>2. Fifo!Transmit(a)
    BY <1>1, WaitingIs DEF Fifo!Transmit, R
  <1> QED BY <1>2 DEF FifoStep, Fifo!FifoNext

\* It is transmitted and leaves.
LEMMA FifoMove ==
  ASSUME Lists, Lists', R \in Nat, NEW a \in NbrAddr, Queues[a] # << >>,
         tx[Head(Queues[a])] \in 0 .. R,
         Queues' = [Queues EXCEPT ![a] = Tail(@)], Leaving' = Append(Leaving, Head(Queues[a])),
         tx' = [tx EXCEPT ![Head(Queues[a])] = @ + 1]
  PROVE  FifoStep
  <1> DEFINE p == Head(Queues[a])
  <1>1. tx[p] < R + 1
    BY SMT
  <1>2. Fifo!Transmit(a)
    BY <1>1, WaitingIs DEF Fifo!Transmit, R
  <1> QED BY <1>2 DEF FifoStep, Fifo!FifoNext

\* The sender of the first packet that left is told.
LEMMA FifoTell ==
  ASSUME Lists, Lists', Leaving # << >>,
         Queues' = Queues, Leaving' = Tail(Leaving), tx' = [tx EXCEPT ![Head(Leaving)] = 0]
  PROVE  FifoStep
  <1>1. Fifo!Tell
    BY WaitingIs DEF Fifo!Tell
  <1> QED BY <1>1 DEF FifoStep, Fifo!FifoNext

\* All are told.
LEMMA FifoFlush ==
  ASSUME Lists, Lists', Leaving = << >>,
         Queues' = [a \in NbrAddr |-> << >>], Leaving' = << >>, tx' = [p \in Packet |-> 0]
  PROVE  FifoStep
  <1>1. Fifo!Flush
    BY WaitingIs DEF Fifo!Flush
  <1> QED BY <1>1 DEF FifoStep, Fifo!FifoNext

-----------------------------------------------------------------------------
(* Steps that leave the queues alone.                                      *)

\* The rings, and what is in hand and leaving, stay.
LEMMA DataKept ==
  ASSUME TschInv, UNCHANGED <<list, pkts, tx, deq>>, nbr' \in [NbrAddr -> Nbr],
         \A a \in NbrAddr : nbr'[a].ring = nbr[a].ring,
         InHand' = InHand, Leaving' = Leaving
  PROVE  Lists' /\ Accounted' /\ FifoStep
  <1>1. Queues' = Queues
    BY DEF Queues
  <1>2. Lists'
    BY DEF TschInv, Lists, OnList, IsEmpty
  <1>3. Accounted'
    BY <1>1 DEF TschInv, Accounted
  <1> QED BY <1>1, <1>2, <1>3, FifoStutter DEF TschInv

\* The slot operation does not disturb what the main context relies on.
LEMMA ControlKept ==
  ASSUME TschInv, UNCHANGED <<main, list, lock, sched, link>>, assoc' => assoc,
         \A a \in NbrAddr : /\ nbr'[a].links = nbr[a].links
                            /\ \/ nbr'[a].ring = nbr[a].ring
                               \/ ~IsEmpty(a) /\ nbr'[a].ring = RingGet(nbr[a].ring),
         \/ deq' = deq
         \/ assoc /\ ~Full(deq) /\ \E p \in Packet : deq' = RingPut(Store(deq, p))
  PROVE  Control'
  <1>1. Lists /\ Control
    BY DEF TschInv
  <1>2. ASSUME NEW a \in NbrAddr
        PROVE  /\ IsEmpty(a) => IsEmpty(a)'
               /\ ~Full(nbr[a].ring) => ~Full(nbr'[a].ring)
               /\ nbr'[a].ring.put = nbr[a].ring.put
               /\ nbr'[a].ring.arr[nbr[a].ring.put] = nbr[a].ring.arr[nbr[a].ring.put]
    <2>1. CASE nbr'[a].ring = nbr[a].ring
      BY <2>1 DEF IsEmpty
    <2>2. CASE ~IsEmpty(a) /\ nbr'[a].ring = RingGet(nbr[a].ring)
      <3>1. nbr[a].ring \in Ring(N) /\ Elements(nbr[a].ring) # 0
        BY <1>1, <2>2 DEF Lists, Nbr, IsEmpty
      <3> QED BY <2>2, <3>1, Constants, GetIs
    <2> QED BY <2>1, <2>2
  <1>3. Elements(deq) # 0 => Elements(deq') # 0 /\ First(deq') = First(deq)
    <2>1. CASE deq' = deq
      BY <2>1
    <2>2. ASSUME NEW p \in Packet, ~Full(deq), deq' = RingPut(Store(deq, p)), Elements(deq) # 0
          PROVE  Elements(deq') # 0 /\ First(deq') = First(deq)
      <3>1. deq \in Ring(D) /\ D \in Nat \ {0, 1}
        BY <1>1, Constants DEF Lists
      <3>2. deq' \in Ring(D) /\ Contents(deq') = Append(Contents(deq), p)
        BY <2>2, <3>1, PutStored
      <3>3. Contents(deq) # << >> /\ First(deq) = Head(Contents(deq))
        BY <2>2, <3>1, FirstIs
      <3>4. Contents(deq) \in Seq(Packet \cup {NONE})
        BY <3>1, RingIs
      <3>5. Contents(deq') # << >> /\ Head(Contents(deq')) = Head(Contents(deq))
        <4> DEFINE c == Contents(deq)
        <4>1. c \in Seq(Packet \cup {NONE}) /\ c # << >> /\ p \in Packet \cup {NONE}
          BY <3>3, <3>4
        <4> HIDE DEF c
        <4>2. Append(c, p) # << >> /\ Head(Append(c, p)) = Head(c)
          BY <4>1
        <4> QED BY <3>2, <4>2 DEF c
      <3> QED BY <3>1, <3>2, <3>3, <3>5, FirstIs
    <2> QED BY <2>1, <2>2
  <1>4. main.after = "reset" => deq' = deq /\ ~assoc'
    BY <1>1 DEF Control
  <1>5. IF Locking THEN Locked' ELSE main.op = "none"
    <2>1. main.a \in Addr /\ IsEmpty(main.a) /\ nbr[main.a].links = 0
            => IsEmpty(main.a)' /\ nbr'[main.a].links = 0
      BY <1>2, Constants DEF IsEmpty
    <2> QED BY <1>1, <2>1 DEF Control, Locked, OnList
  <1>6. At("put") => /\ OnList(main.a)' /\ main.p \in Packet /\ ~Full(nbr'[main.a].ring)
                     /\ nbr'[main.a].ring.arr[nbr'[main.a].ring.put] = main.p
    <2>1. At("put") => main.a \in NbrAddr
      <3>1. ToSet(list) \subseteq NbrAddr
        BY <1>1, ToSetIs DEF Lists
      <3> QED BY <1>1, <3>1 DEF Control, OnList
    <2> QED BY <1>1, <1>2, <2>1 DEF Control, OnList
  <1>7. Reported' = Reported
    BY DEF Reported
  <1>8. At("reset") => main.after = "reset" /\ Elements(deq') = 0
    BY <1>1, <1>4 DEF Control
  <1>9. Reported => main.p \in Packet /\ Elements(deq') # 0 /\ First(deq') = main.p
    BY <1>1, <1>3 DEF Control
  <1> QED BY <1>1, <1>4, <1>5, <1>6, <1>7, <1>8, <1>9 DEF Control, At, Locking, Removing, OnList

-----------------------------------------------------------------------------
(* The steps of the slot operation.                                        *)

\* What any slot leaves as it is.
SlotKeeps ==
  /\ UNCHANGED <<list, sched, link, main, lock>> /\ (assoc' => assoc)
  /\ \A a \in NbrAddr : nbr'[a].links = nbr[a].links

\* A slot in which nothing is sent.
LEMMA SlotQuiet ==
  ASSUME TschInv, UNCHANGED <<list, pkts, tx, deq, lock, sched, link, main>>, assoc' => assoc,
         nbr' \in [NbrAddr -> Nbr],
         \A a \in NbrAddr : nbr'[a].ring = nbr[a].ring /\ nbr'[a].links = nbr[a].links,
         Schedule'
  PROVE  TschInv' /\ FifoStep /\ SlotKeeps
  <1>1. InHand' = InHand /\ Leaving' = Leaving
    BY DEF InHand, At, Leaving, Reported
  <1>2. Lists' /\ Accounted' /\ FifoStep
    BY <1>1, DataKept
  <1>3. Control'
    BY ControlKept
  <1> QED BY <1>2, <1>3 DEF TschInv, SlotKeeps

\* The link of the slot is one of link_memb.
LEMMA SlotLinkIs ==
  ASSUME TschInv, cur # NONE
  PROVE  SlotLink \in Block /\ cur \in Block
  BY DEF TschInv, Schedule, SlotLink

\* A slot in which the first packet of a neighbour is transmitted: it is kept, or
\* moves to dequeued_ringbuf.
LEMMA SlotTxStep ==
  ASSUME TschInv, SlotTx
  PROVE  TschInv' /\ FifoStep /\ SlotKeeps
  <1>1. Lists /\ Schedule /\ Control /\ Accounted
    BY DEF TschInv
  <1>2. PICK c \in {SlotLink}, a \in NbrAddr :
          /\ a = NeighborFor(link[c])
          /\ \/ Full(deq) /\ EndSlot(c, nbr, events) /\ UNCHANGED <<tx, deq>>
             \/ ~Full(deq) /\ TxSlot(a, c)
    BY DEF SlotTx
  <1>3. c \in Block
    BY <1>2, SlotLinkIs DEF SlotTx
  <1>4. OnList(a) /\ ~IsEmpty(a)
    BY <1>1, <1>2, Constants, NeighborIs DEF Lists
  <1>5. assoc /\ UNCHANGED <<list, pkts, lock, sched, link, main>>
    BY DEF SlotTx
  <1>6. CASE EndSlot(c, nbr, events) /\ UNCHANGED <<tx, deq>>
    <2>1. /\ Schedule' /\ (assoc' => assoc) /\ nbr' \in [NbrAddr -> Nbr]
          /\ \A b \in NbrAddr : nbr'[b].ring = nbr[b].ring /\ nbr'[b].links = nbr[b].links
      BY <1>1, <1>3, <1>5, <1>6, EndSlotIs DEF Lists
    <2> QED BY <1>5, <1>6, <2>1, SlotQuiet
  <1>7. CASE ~Full(deq) /\ TxSlot(a, c)
    <2> DEFINE p == First(nbr[a].ring)
    <2>1. PICK ok \in BOOLEAN, w \in 0 .. 2^TSCH_MAC_MAX_BE - 1 :
            \E leaves \in {Leaves(ok, tx[p] + 1)} :
              /\ tx' = [tx EXCEPT ![p] = @ + 1]
              /\ deq' = IF leaves THEN RingPut(Store(deq, p)) ELSE deq
              /\ \E n \in {[nbr EXCEPT ![a] = AfterTx(a, link[c], ok, leaves, w)]} :
                   EndSlot(c, n, events \cup {"pending"})
      BY <1>7 DEF TxSlot
    <2> DEFINE leaves == Leaves(ok, tx[p] + 1)
               n == [nbr EXCEPT ![a] = AfterTx(a, link[c], ok, leaves, w)]
    <2>2. /\ tx' = [tx EXCEPT ![p] = @ + 1]
          /\ deq' = IF leaves THEN RingPut(Store(deq, p)) ELSE deq
          /\ EndSlot(c, n, events \cup {"pending"})
      BY <2>1
    <2>3. leaves \in BOOLEAN /\ (~leaves => ~(tx[p] + 1 >= R + 1))
      BY DEF Leaves, R
    <2>4. nbr \in [NbrAddr -> Nbr] /\ nbr[a] \in Nbr /\ nbr[a].ring \in Ring(N) /\ deq \in Ring(D)
      BY <1>1 DEF Lists, Nbr
    <2>5. /\ n \in [NbrAddr -> Nbr] /\ n[a].links = nbr[a].links
          /\ n[a].ring = IF leaves THEN RingGet(nbr[a].ring) ELSE nbr[a].ring
          /\ \A b \in NbrAddr : b # a => n[b] = nbr[b]
      <3>1. /\ AfterTx(a, link[c], ok, leaves, w) \in Nbr
            /\ AfterTx(a, link[c], ok, leaves, w).ring = IF leaves THEN RingGet(nbr[a].ring) ELSE nbr[a].ring
            /\ AfterTx(a, link[c], ok, leaves, w).links = nbr[a].links
        BY <1>4, <2>3, <2>4, AfterTxIs
      <3> QED BY <2>4, <3>1
    <2> HIDE DEF n, leaves
    <2>6. /\ Schedule' /\ (assoc' => assoc) /\ nbr' \in [NbrAddr -> Nbr]
          /\ \A b \in NbrAddr : nbr'[b].ring = n[b].ring /\ nbr'[b].links = n[b].links
      BY <1>1, <1>3, <1>5, <2>2, <2>5, EndSlotIs
    <2>7. /\ \A b \in NbrAddr : nbr'[b].links = nbr[b].links
          /\ \A b \in NbrAddr : b # a => nbr'[b].ring = nbr[b].ring
          /\ nbr'[a].ring = IF leaves THEN RingGet(nbr[a].ring) ELSE nbr[a].ring
      BY <2>5, <2>6
    <2>8. Queues[a] # << >> /\ p = Head(Queues[a]) /\ Elements(nbr[a].ring) # 0
      BY <1>4, <2>4, Constants, FirstIs DEF IsEmpty, Queues
    <2>9. Account(Queues, Leaving, InHand, pkts, tx)
      BY <1>1 DEF Accounted
    <2>10. /\ p \in Packet /\ tx[p] \in 0 .. R /\ R \in Nat
           /\ Account([Queues EXCEPT ![a] = Tail(@)], Append(Leaving, p), InHand, pkts,
                      [tx EXCEPT ![p] = @ + 1])
      <3>1. R \in Nat
        BY Constants
      <3> HIDE DEF p
      <3>2. /\ Account([Queues EXCEPT ![a] = Tail(@)], Append(Leaving, Head(Queues[a])), InHand, pkts,
                       [tx EXCEPT ![Head(Queues[a])] = @ + 1])
            /\ Head(Queues[a]) \in Packet /\ tx[Head(Queues[a])] \in 0 .. R
        BY <2>8, <2>9, <3>1, AccountMove
      <3> QED BY <2>8, <3>1, <3>2
    <2> HIDE DEF p
    <2>11. InHand' = InHand
      BY <1>5 DEF InHand, At
    <2>12. CASE ~leaves
      <3>1. Queues' = Queues
        BY <2>7, <2>12 DEF Queues
      <3>2. Leaving' = Leaving /\ deq' = deq
        BY <1>5, <2>2, <2>12 DEF Leaving, Reported
      <3>3. tx[p] + 1 <= R
        BY <2>3, <2>10, <2>12
      <3>4. Account(Queues, Leaving, InHand, pkts, tx')
        BY <2>2, <2>8, <2>9, <2>10, <3>3, AccountKeep
      <3>5. Accounted'
        BY <1>5, <2>11, <3>1, <3>2, <3>4 DEF Accounted
      <3>6. Lists'
        BY <1>1, <1>5, <2>6, <2>7, <2>12, <3>2 DEF Lists, OnList, IsEmpty
      <3>7. FifoStep
        <4>1. /\ tx[Head(Queues[a])] \in Nat /\ tx[Head(Queues[a])] + 1 <= R
              /\ tx' = [tx EXCEPT ![Head(Queues[a])] = @ + 1]
          BY <2>2, <2>8, <2>10, <3>3
        <4> QED BY <1>1, <2>8, <2>10, <3>1, <3>2, <3>6, <4>1, FifoKeep
      <3>8. Control'
        BY <1>5, <2>6, <2>7, <2>12, <3>2, ControlKept
      <3> QED BY <1>5, <2>6, <2>7, <3>5, <3>6, <3>7, <3>8 DEF TschInv, SlotKeeps
    <2>13. CASE leaves
      <3>1. Contents(RingGet(nbr[a].ring)) = Tail(Contents(nbr[a].ring)) /\ RingGet(nbr[a].ring) \in Ring(N)
        BY <2>4, <2>8, Constants, GetIs
      <3>2. Queues' = [Queues EXCEPT ![a] = Tail(@)]
        BY <2>7, <2>13, <3>1 DEF Queues
      <3>3. deq' = RingPut(Store(deq, p)) /\ deq' \in Ring(D)
            /\ Contents(deq') = Append(Contents(deq), p)
        BY <1>7, <2>2, <2>4, <2>10, <2>13, Constants, PutStored
      <3>4. Leaving' = Append(Leaving, p)
        <4>1. CASE ~Reported
          BY <1>5, <3>3, <4>1 DEF Leaving, Reported
        <4>2. CASE Reported
          <5> DEFINE d == Contents(deq)
          <5>1. d # << >>
            BY <1>1, <2>4, <4>2, Constants, FirstIs DEF Control
          <5>2. d \in Seq(Packet \cup {NONE}) /\ p \in Packet \cup {NONE}
            BY <2>4, <2>10, Constants, RingIs
          <5>3. Leaving = Tail(d) /\ Leaving' = Tail(Append(d, p))
            BY <1>5, <3>3, <4>2 DEF Leaving, Reported
          <5> HIDE DEF d
          <5>4. Tail(Append(d, p)) = Append(Tail(d), p)
            BY <5>1, <5>2
          <5> QED BY <5>3, <5>4
        <4> QED BY <4>1, <4>2
      <3>5. Accounted'
        BY <1>5, <2>2, <2>10, <2>11, <3>2, <3>4 DEF Accounted
      <3>6. Lists'
        BY <1>1, <1>4, <1>5, <2>6, <2>7, <3>3 DEF Lists, OnList, IsEmpty
      <3>7. FifoStep
        <4>1. /\ tx[Head(Queues[a])] \in 0 .. R /\ Leaving' = Append(Leaving, Head(Queues[a]))
              /\ tx' = [tx EXCEPT ![Head(Queues[a])] = @ + 1]
          BY <2>2, <2>8, <2>10, <3>4
        <4> QED BY <1>1, <2>8, <2>10, <3>2, <3>6, <4>1, FifoMove
      <3>8. \A b \in NbrAddr : /\ nbr'[b].links = nbr[b].links
                               /\ \/ nbr'[b].ring = nbr[b].ring
                                  \/ ~IsEmpty(b) /\ nbr'[b].ring = RingGet(nbr[b].ring)
        BY <1>4, <2>7, <2>13
      <3>9. Control'
        BY <1>5, <1>7, <2>6, <2>10, <3>3, <3>8, ControlKept
      <3> QED BY <1>5, <2>6, <2>7, <3>5, <3>6, <3>7, <3>9 DEF TschInv, SlotKeeps
    <2> QED BY <2>3, <2>12, <2>13
  <1> QED BY <1>2, <1>6, <1>7

\* tsch_slot_operation, wherever it falls.
LEMMA SlotStep ==
  ASSUME TschInv, Interrupt
  PROVE  TschInv' /\ FifoStep /\ SlotKeeps
  <1>1. Lists /\ Schedule
    BY DEF TschInv
  <1>2. CASE SlotSkipped
    <2>1. cur \in Block \cup {NONE} /\ EndSlot(cur, nbr, events) /\ nbr \in [NbrAddr -> Nbr]
      BY <1>1, <1>2 DEF SlotSkipped, Schedule, Lists
    <2>2. UNCHANGED <<list, pkts, tx, deq, lock, sched, link, main>>
      BY <1>2 DEF SlotSkipped
    <2>3. /\ Schedule' /\ (assoc' => assoc) /\ nbr' \in [NbrAddr -> Nbr]
          /\ \A b \in NbrAddr : nbr'[b].ring = nbr[b].ring /\ nbr'[b].links = nbr[b].links
      BY <1>1, <2>1, <2>2, EndSlotIs
    <2> QED BY <2>2, <2>3, SlotQuiet
  <1>3. CASE SlotTx
    BY <1>3, SlotTxStep
  <1>4. CASE SlotRx
    <2>1. PICK c \in {SlotLink}, got \in BOOLEAN :
            EndSlot(c, nbr, IF got THEN events \cup {"pending"} ELSE events)
      BY <1>4 DEF SlotRx
    <2>2. UNCHANGED <<list, pkts, tx, deq, lock, sched, link, main>>
      BY <1>4 DEF SlotRx
    <2>3. c \in Block \cup {NONE} /\ nbr \in [NbrAddr -> Nbr]
      BY <1>1, <1>4, <2>1, SlotLinkIs DEF SlotRx, Lists
    <2>4. /\ Schedule' /\ (assoc' => assoc) /\ nbr' \in [NbrAddr -> Nbr]
          /\ \A b \in NbrAddr : nbr'[b].ring = nbr[b].ring /\ nbr'[b].links = nbr[b].links
      BY <1>1, <2>1, <2>2, <2>3, EndSlotIs
    <2> QED BY <2>2, <2>4, SlotQuiet
  <1>5. CASE SlotStops
    <2>1. UNCHANGED <<list, nbr, pkts, tx, deq, lock, sched, link, main, assoc, cur, bak>>
      BY <1>5 DEF SlotStops, schedVars
    <2>2. Schedule'
      <3>1. /\ assoc' = assoc /\ sched' = sched /\ link' = link /\ cur' = cur /\ bak' = bak
            /\ armed' = FALSE
        BY <1>5, <2>1 DEF SlotStops
      <3> QED BY <1>1, <3>1 DEF Schedule, LinkScheduled
    <2> QED BY <1>1, <2>1, <2>2, SlotQuiet DEF Lists
  <1> QED BY <1>2, <1>3, <1>4, <1>5 DEF Interrupt

-----------------------------------------------------------------------------
(* The steps of the main context that leave the queues alone.              *)

\* The main context is idle again.
LEMMA ControlIdle ==
  ASSUME main' = Idle, lock' = "free"
  PROVE  Control' /\ InHand' = {} /\ Reported' = FALSE
  <1>1. Idle \in Main
    BY DEF Idle, Main
  <1>2. /\ main'.at = "idle" /\ main'.op = "none" /\ main'.p = NONE /\ main'.after = "idle"
    BY DEF Idle
  <1> QED BY <1>1, <1>2 DEF Control, At, Locking, Reported, InHand

\* What the idle main context holds.
LEMMA IdleIs ==
  ASSUME Control, At("idle")
  PROVE  /\ main = Idle /\ main.p = NONE /\ main.op = "none" /\ main.after = "idle"
         /\ lock = "free" /\ InHand = {} /\ Reported = FALSE
  BY DEF Control, At, Idle, Reported, InHand

\* Nothing but the main context changes.
LEMMA MainQuiet ==
  ASSUME TschInv, UNCHANGED <<list, nbr, pkts, tx, deq>>, Schedule',
         ~At("put"), main'.at # "put", Reported' = Reported, Control'
  PROVE  TschInv' /\ FifoStep
  <1>1. InHand' = InHand /\ Leaving' = Leaving
    BY DEF InHand, At, Leaving
  <1>2. nbr' \in [NbrAddr -> Nbr] /\ \A a \in NbrAddr : nbr'[a].ring = nbr[a].ring
    BY DEF TschInv, Lists
  <1> QED BY <1>1, <1>2, DataKept DEF TschInv

\* The schedule stays.
LEMMA ScheduleKept ==
  ASSUME Schedule, assoc' \in BOOLEAN, armed' \in BOOLEAN, assoc' => assoc, UNCHANGED <<sched, link, cur, bak>>
  PROVE  Schedule'
  BY DEF Schedule, LinkScheduled

\* tsch_get_lock asks for the lock.
LEMMA RequestStep ==
  ASSUME TschInv, Request
  PROVE  TschInv' /\ FifoStep
  <1>1. Control /\ Schedule /\ main \in Main
    BY DEF TschInv, Control
  <1>2. /\ main' = [main EXCEPT !.at = "take"] /\ lock' = "requested" /\ main.at = "request"
        /\ UNCHANGED <<list, nbr, pkts, tx, deq, assoc, armed, sched, link, cur, bak>>
    BY DEF Request, At, Go, schedVars
  <1>3. /\ main' \in Main /\ main'.at = "take" /\ main'.op = main.op /\ main'.then = main.then
        /\ main'.a = main.a /\ main'.p = main.p /\ main'.l = main.l /\ main'.after = main.after
    BY <1>1, <1>2 DEF Main
  <1>4. Schedule'
    BY <1>1, <1>2, ScheduleKept DEF Schedule
  <1>5. Control'
    BY <1>1, <1>2, <1>3 DEF Control, At, Locking, Locked, Removing, Reported, OnList, IsEmpty
  <1> QED BY <1>2, <1>3, <1>4, <1>5, MainQuiet DEF At, Reported

\* tsch_get_lock has it.
LEMMA TakeStep ==
  ASSUME TschInv, Take
  PROVE  TschInv' /\ FifoStep
  <1>1. Control /\ Schedule /\ main \in Main
    BY DEF TschInv, Control
  <1>2. /\ main' = [main EXCEPT !.at = "critical"] /\ lock' = "held" /\ main.at = "take"
        /\ UNCHANGED <<list, nbr, pkts, tx, deq, assoc, armed, sched, link, cur, bak>>
    BY DEF Take, At, Go, schedVars
  <1>3. /\ main' \in Main /\ main'.at = "critical" /\ main'.op = main.op /\ main'.then = main.then
        /\ main'.a = main.a /\ main'.p = main.p /\ main'.l = main.l /\ main'.after = main.after
    BY <1>1, <1>2 DEF Main
  <1>4. Schedule'
    BY <1>1, <1>2, ScheduleKept DEF Schedule
  <1>5. Control'
    BY <1>1, <1>2, <1>3 DEF Control, At, Locking, Locked, Removing, Reported, OnList, IsEmpty
  <1> QED BY <1>2, <1>3, <1>4, <1>5, MainQuiet DEF At, Reported

\* A step of the idle main context.
LEMMA IdleStep ==
  ASSUME TschInv, At("idle"), UNCHANGED <<list, nbr, pkts, tx, deq>>, Schedule', Control',
         main'.at # "put", main'.at \notin {"scan", "free_nbr"}, main'.op # "remove_nbr"
  PROVE  TschInv' /\ FifoStep
  <1>1. Reported = FALSE /\ ~At("put")
    BY IdleIs DEF TschInv, At
  <1>2. Reported' = FALSE
    BY DEF Reported
  <1> QED BY <1>1, <1>2, MainQuiet

\* tsch_queue_add_nbr asks for the lock when the neighbour is new.
LEMMA WithNbrIs ==
  ASSUME NEW m \in Main, m.at # "request", m.op = "none",
         NEW then \in {"fill", "count", "uncount", "source"}, NEW w, w = WithNbr(m, then)
  PROVE  /\ w \in Main /\ w.a = m.a /\ w.l = m.l /\ w.p = m.p /\ w.after = m.after
         /\ \/ OnList(m.a) /\ w.at = then /\ w.op = "none"
            \/ ~OnList(m.a) /\ w.at = "request" /\ w.op = "add_nbr" /\ w.then = then
  <1>1. CASE OnList(m.a)
    <2>1. w = [m EXCEPT !.at = then]
      BY <1>1 DEF WithNbr
    <2>2. w \in Main
      BY <2>1 DEF Main
    <2>3. /\ w.a = m.a /\ w.l = m.l /\ w.p = m.p /\ w.after = m.after
          /\ w.at = then /\ w.op = "none"
      BY <2>1 DEF Main
    <2> QED BY <1>1, <2>2, <2>3
  <1>2. CASE ~OnList(m.a)
    <2>1. w = [m EXCEPT !.at = "request", !.op = "add_nbr", !.then = then]
      BY <1>2 DEF WithNbr, LockFor
    <2>2. w \in Main
      BY <2>1 DEF Main
    <2>3. /\ w.a = m.a /\ w.l = m.l /\ w.p = m.p /\ w.after = m.after
          /\ w.at = "request" /\ w.op = "add_nbr" /\ w.then = then
      BY <2>1 DEF Main
    <2> QED BY <1>2, <2>2, <2>3
  <1> QED BY <1>1, <1>2

\* send_packet begins.
LEMMA SendStep ==
  ASSUME TschInv, NEW a \in Addr \cup {Broadcast}, Send(a)
  PROVE  TschInv' /\ FifoStep
  <1>1. Control /\ Schedule /\ main \in Main /\ a \in NbrAddr
    BY Constants DEF TschInv, Control
  <1>2. /\ main' = WithNbr([main EXCEPT !.a = a], "fill") /\ main.at = "idle"
        /\ lock' = lock /\ UNCHANGED <<list, nbr, pkts, tx, deq, assoc, armed, sched, link, cur, bak>>
    BY DEF Send, At, schedVars
  <1>3. main.p = NONE /\ main.op = "none" /\ main.after = "idle" /\ lock = "free"
    BY <1>1, <1>2, IdleIs DEF At
  <1> DEFINE m == [main EXCEPT !.a = a]
  <1>4. m \in Main /\ m.a = a /\ m.at = "idle" /\ m.op = "none" /\ m.p = NONE /\ m.after = "idle"
    BY <1>1, <1>2, <1>3 DEF Main
  <1>5. /\ main' \in Main /\ main'.a = a /\ main'.p = NONE /\ main'.after = "idle"
        /\ \/ OnList(a) /\ main'.at = "fill" /\ main'.op = "none"
           \/ ~OnList(a) /\ main'.at = "request" /\ main'.op = "add_nbr" /\ main'.then = "fill"
    <2>1. main' = WithNbr(m, "fill")
      BY <1>2
    <2> HIDE DEF m
    <2> QED BY <1>4, <2>1, WithNbrIs
  <1>6. Schedule'
    BY <1>1, <1>2, ScheduleKept DEF Schedule
  <1>7. Control'
    BY <1>1, <1>2, <1>3, <1>5 DEF Control, At, Locking, Locked, Removing, Reported, OnList
  <1> QED BY <1>2, <1>5, <1>6, <1>7, IdleStep DEF At

\* tsch_send_eb_process begins.
LEMMA SendEbStep ==
  ASSUME TschInv, SendEb
  PROVE  TschInv' /\ FifoStep
  <1>1. Control /\ Schedule /\ main \in Main /\ Eb \in NbrAddr
    BY Constants DEF TschInv, Control
  <1>2. /\ main' = [main EXCEPT !.a = Eb, !.at = "fill"] /\ main.at = "idle"
        /\ lock' = lock /\ UNCHANGED <<list, nbr, pkts, tx, deq, assoc, armed, sched, link, cur, bak>>
    BY DEF SendEb, At, schedVars
  <1>3. main.p = NONE /\ main.op = "none" /\ main.after = "idle" /\ lock = "free"
    BY <1>1, <1>2, IdleIs DEF At
  <1>4. /\ main' \in Main /\ main'.a = Eb /\ main'.p = NONE /\ main'.after = "idle"
        /\ main'.at = "fill" /\ main'.op = "none"
    BY <1>1, <1>2, <1>3 DEF Main
  <1>5. Schedule'
    BY <1>1, <1>2, ScheduleKept DEF Schedule
  <1>6. Control'
    BY <1>1, <1>2, <1>3, <1>4 DEF Control, At, Locking, Reported
  <1> QED BY <1>2, <1>4, <1>5, <1>6, IdleStep DEF At

\* tsch_queue_update_time_source begins.
LEMMA NewTimeSourceStep ==
  ASSUME TschInv, NEW a \in Addr \cup {NONE}, NewTimeSource(a)
  PROVE  TschInv' /\ FifoStep
  <1>1. Control /\ Schedule /\ main \in Main
    BY DEF TschInv, Control
  <1>2. /\ main' = IF a = NONE THEN [main EXCEPT !.at = "source"]
                   ELSE WithNbr([main EXCEPT !.a = a], "source")
        /\ main.at = "idle"
        /\ lock' = lock /\ UNCHANGED <<list, nbr, pkts, tx, deq, assoc, armed, sched, link, cur, bak>>
    BY DEF NewTimeSource, At, schedVars
  <1>3. main.p = NONE /\ main.op = "none" /\ main.after = "idle" /\ lock = "free"
    BY <1>1, <1>2, IdleIs DEF At
  <1>4. Schedule'
    BY <1>1, <1>2, ScheduleKept DEF Schedule
  <1>5. CASE a = NONE
    <2>1. /\ main' \in Main /\ main'.p = NONE /\ main'.after = "idle"
          /\ main'.at = "source" /\ main'.op = "none"
      BY <1>1, <1>2, <1>3, <1>5 DEF Main
    <2>2. Control'
      BY <1>1, <1>2, <1>3, <2>1 DEF Control, At, Locking, Reported
    <2> QED BY <1>2, <1>4, <2>1, <2>2, IdleStep DEF At
  <1>6. CASE a \in Addr
    <2>1. a # NONE /\ a \in NbrAddr
      BY <1>6, Constants
    <2> DEFINE m == [main EXCEPT !.a = a]
    <2>2. m \in Main /\ m.a = a /\ m.at = "idle" /\ m.op = "none" /\ m.p = NONE /\ m.after = "idle"
      BY <1>1, <1>2, <1>3, <2>1 DEF Main
    <2>3. /\ main' \in Main /\ main'.a = a /\ main'.p = NONE /\ main'.after = "idle"
          /\ \/ OnList(a) /\ main'.at = "source" /\ main'.op = "none"
             \/ ~OnList(a) /\ main'.at = "request" /\ main'.op = "add_nbr" /\ main'.then = "source"
      <3>1. main' = WithNbr(m, "source")
        BY <1>2, <2>1
      <3> HIDE DEF m
      <3> QED BY <2>2, <3>1, WithNbrIs
    <2>4. Control'
      BY <1>1, <1>2, <1>3, <1>6, <2>1, <2>3 DEF Control, At, Locking, Locked, Removing, Reported, OnList
    <2> QED BY <1>2, <1>4, <2>3, <2>4, IdleStep DEF At
  <1> QED BY <1>5, <1>6

\* tsch_schedule_add_link begins.
LEMMA BeginAddLinkStep ==
  ASSUME TschInv, NEW l \in Kinds, BeginAddLink(l)
  PROVE  TschInv' /\ FifoStep
  <1>1. Control /\ Schedule /\ main \in Main /\ l \in Link /\ l.addr \in NbrAddr
    BY TschAssumption DEF TschInv, Control, Link
  <1>2. /\ main' = LockFor([main EXCEPT !.l = l, !.a = l.addr], "add_link", "added")
        /\ main.at = "idle"
        /\ lock' = lock /\ UNCHANGED <<list, nbr, pkts, tx, deq, assoc, armed, sched, link, cur, bak>>
    BY DEF BeginAddLink, At
  <1>3. main.p = NONE /\ main.op = "none" /\ main.after = "idle" /\ lock = "free"
    BY <1>1, <1>2, IdleIs DEF At
  <1>4. /\ main' \in Main /\ main'.a = l.addr /\ main'.l = l /\ main'.p = NONE
        /\ main'.after = "idle" /\ main'.at = "request" /\ main'.op = "add_link" /\ main'.then = "added"
    BY <1>1, <1>2, <1>3 DEF Main, LockFor
  <1>5. Schedule'
    BY <1>1, <1>2, ScheduleKept DEF Schedule
  <1>6. Control'
    BY <1>1, <1>2, <1>3, <1>4 DEF Control, At, Locking, Locked, Removing, Reported
  <1> QED BY <1>2, <1>4, <1>5, <1>6, IdleStep DEF At

\* tsch_schedule_remove_link begins.
LEMMA BeginRemoveLinkStep ==
  ASSUME TschInv, NEW b \in Block, BeginRemoveLink(b)
  PROVE  TschInv' /\ FifoStep
  <1>1. Control /\ Schedule /\ main \in Main /\ link[b] \in Link /\ link[b].addr \in NbrAddr /\ b \in Nat
    BY DEF TschInv, Control, Schedule, Link, Block
  <1>2. /\ main' = LockFor([main EXCEPT !.p = b, !.l = link[b], !.a = link[b].addr],
                           "remove_link", "removed")
        /\ main.at = "idle" /\ b \in sched
        /\ lock' = lock /\ UNCHANGED <<list, nbr, pkts, tx, deq, assoc, armed, sched, link, cur, bak>>
    BY DEF BeginRemoveLink, At
  <1>3. main.p = NONE /\ main.op = "none" /\ main.after = "idle" /\ lock = "free"
    BY <1>1, <1>2, IdleIs DEF At
  <1>4. /\ main' \in Main /\ main'.a = link[b].addr /\ main'.l = link[b] /\ main'.p = b
        /\ main'.after = "idle" /\ main'.at = "request" /\ main'.op = "remove_link"
        /\ main'.then = "removed"
    BY <1>1, <1>2, <1>3 DEF Main, LockFor
  <1>5. Schedule'
    BY <1>1, <1>2, ScheduleKept DEF Schedule
  <1>6. Control'
    BY <1>1, <1>2, <1>3, <1>4 DEF Control, At, Locking, Locked, Removing, Reported
  <1> QED BY <1>2, <1>4, <1>5, <1>6, IdleStep DEF At

\* An event is taken from the queue of tsch_pending_events_process or tsch_process.
LEMMA EventStep ==
  ASSUME TschInv, PendingEvent \/ ProcessLeave
  PROVE  TschInv' /\ FifoStep
  <1>1. Control /\ Schedule /\ main \in Main
    BY DEF TschInv, Control
  <1>2. /\ main.at = "idle"
        /\ lock' = lock /\ UNCHANGED <<list, nbr, pkts, tx, deq, assoc, armed, sched, link, cur, bak>>
    BY DEF PendingEvent, ProcessLeave, At, schedVars
  <1>3. main.p = NONE /\ main.op = "none" /\ main.after = "idle" /\ lock = "free"
    BY <1>1, <1>2, IdleIs DEF At
  <1>4. /\ main' \in Main /\ main'.p = NONE /\ main'.at = "rx" /\ main'.op = "none"
        /\ main'.after = "reset" => ~assoc
    BY <1>1, <1>2, <1>3 DEF Main, PendingEvent, ProcessLeave, Go
  <1>5. Schedule'
    BY <1>1, <1>2, ScheduleKept DEF Schedule
  <1>6. Control'
    BY <1>1, <1>2, <1>3, <1>4 DEF Control, At, Locking, Reported
  <1> QED BY <1>2, <1>4, <1>5, <1>6, IdleStep DEF At

\* tsch_rx_process_pending may leave the network.
LEMMA RxPendingStep ==
  ASSUME TschInv, RxPending
  PROVE  TschInv' /\ FifoStep
  <1>1. Control /\ Schedule /\ main \in Main
    BY DEF TschInv, Control
  <1>2. /\ main.at = "rx" /\ main' = [main EXCEPT !.at = "report"]
        /\ assoc' = assoc \/ assoc' = FALSE
        /\ lock' = lock /\ UNCHANGED <<list, nbr, pkts, tx, deq, armed, sched, link, cur, bak>>
    BY DEF RxPending, At, Go, schedVars
  <1>3. main.p = NONE /\ main.op = "none" /\ lock = "free" /\ (main.after = "reset" => ~assoc)
    BY <1>1, <1>2 DEF Control, At, Locking
  <1>4. /\ main' \in Main /\ main'.p = NONE /\ main'.at = "report" /\ main'.op = "none"
        /\ main'.after = main.after
    BY <1>1, <1>2, <1>3 DEF Main
  <1>5. Schedule' /\ (assoc' => assoc)
    <2>1. assoc \in BOOLEAN /\ armed' \in BOOLEAN
      BY <1>1, <1>2 DEF Schedule
    <2>2. assoc' \in BOOLEAN /\ (assoc' => assoc)
      <3>1. CASE assoc' = assoc
        BY <2>1, <3>1
      <3>2. CASE assoc' = FALSE
        BY <3>2
      <3> QED BY <1>2, <3>1, <3>2
    <2> QED BY <1>1, <1>2, <2>1, <2>2, ScheduleKept
  <1>6. Control'
    BY <1>1, <1>2, <1>3, <1>4, <1>5 DEF Control, At, Locking, Reported
  <1>7. Reported' = Reported
    BY <1>2, <1>3, <1>4 DEF Reported
  <1> QED BY <1>2, <1>4, <1>5, <1>6, <1>7, MainQuiet DEF At

\* tsch_queue_add_packet finds no neighbour, place or block.
LEMMA FillFailsStep ==
  ASSUME TschInv, FillFails
  PROVE  TschInv' /\ FifoStep
  <1>1. Control /\ Schedule
    BY DEF TschInv
  <1>2. /\ main.at = "fill" /\ main' = Idle
        /\ lock' = lock /\ UNCHANGED <<list, nbr, pkts, tx, deq, assoc, armed, sched, link, cur, bak>>
    BY DEF FillFails, At, Done, schedVars
  <1>3. lock' = "free" /\ Reported = FALSE
    BY <1>1, <1>2 DEF Control, At, Reported, Locking
  <1>4. Control' /\ Reported' = FALSE
    BY <1>2, <1>3, ControlIdle
  <1>5. Schedule'
    BY <1>1, <1>2, ScheduleKept DEF Schedule
  <1> QED BY <1>2, <1>3, <1>4, <1>5, MainQuiet DEF At, Idle

\* The lock was released after a change of the schedule.
LEMMA LinkChangedStep ==
  ASSUME TschInv, LinkChanged
  PROVE  TschInv' /\ FifoStep
  <1>1. Control /\ Schedule /\ main \in Main
    BY DEF TschInv, Control
  <1>2. /\ lock' = lock /\ UNCHANGED <<list, nbr, pkts, tx, deq, assoc, armed, sched, link, cur, bak>>
        /\ \/ main.at = "added" /\ main' = IF main.l.tx THEN WithNbr(main, "count") ELSE Idle
           \/ main.at = "removed" /\ main' = IF main.l.tx THEN WithNbr(main, "uncount") ELSE Idle
    BY DEF LinkChanged, At, schedVars
  <1>3. /\ lock = "free" /\ main.op = "none" /\ main.after = "idle" /\ Reported = FALSE
        /\ main.l \in Link /\ main.a = main.l.addr /\ main.a \in NbrAddr
    BY <1>1, <1>2 DEF Control, At, Reported, Locking, Removing, Main, Link
  <1>4. Schedule'
    BY <1>1, <1>2, ScheduleKept DEF Schedule
  <1>5. Control' /\ main'.at # "put" /\ Reported' = FALSE
    <2>1. CASE ~main.l.tx
      <3>1. main' = Idle /\ lock' = "free"
        BY <1>2, <1>3, <2>1
      <3> QED BY <3>1, ControlIdle DEF Idle
    <2>2. CASE main.l.tx
      <3>1. PICK then \in {"count", "uncount"} : main' = WithNbr(main, then)
        BY <1>2, <2>2
      <3>2. /\ main' \in Main /\ main'.a = main.a /\ main'.l = main.l /\ main'.after = "idle"
            /\ \/ OnList(main.a) /\ main'.at = then /\ main'.op = "none"
               \/ ~OnList(main.a) /\ main'.at = "request" /\ main'.op = "add_nbr" /\ main'.then = then
        <4>1. main.at # "request"
          BY <1>2
        <4> QED BY <1>1, <1>3, <3>1, <4>1, WithNbrIs
      <3>3. Control'
        BY <1>1, <1>2, <1>3, <2>2, <3>2 DEF Control, At, Locking, Locked, Removing, Reported, OnList
      <3> QED BY <3>2, <3>3 DEF Reported
    <2> QED BY <2>1, <2>2
  <1> QED BY <1>2, <1>3, <1>4, <1>5, MainQuiet DEF At

\* tsch_queue_free_unused_neighbors looks at one more neighbour.
LEMMA ScanStep ==
  ASSUME TschInv, Scan
  PROVE  TschInv' /\ FifoStep
  <1>1. Control /\ Schedule /\ main \in Main
    BY DEF TschInv, Control
  <1> DEFINE a == Head(main.rest)
             m == [main EXCEPT !.a = a, !.rest = Tail(@)]
  <1>2. /\ main.at = "scan" /\ main.rest # << >>
        /\ main' = IF Unused(a) THEN LockFor(m, "remove_nbr", "free_nbr") ELSE m
        /\ lock' = lock /\ UNCHANGED <<list, nbr, pkts, tx, deq, assoc, armed, sched, link, cur, bak>>
    BY DEF Scan, At, schedVars
  <1>3. a \in NbrAddr /\ Tail(main.rest) \in Seq(NbrAddr)
    <2>1. main.rest \in Seq(NbrAddr)
      BY <1>1 DEF Main
    <2> DEFINE r == main.rest
    <2>2. r \in Seq(NbrAddr) /\ r # << >>
      BY <1>2, <2>1
    <2> HIDE DEF r
    <2>3. Head(r) \in NbrAddr /\ Tail(r) \in Seq(NbrAddr)
      BY <2>2
    <2> QED BY <2>3 DEF r
  <1> HIDE DEF a
  <1>4. /\ m \in Main /\ m.a = a /\ m.at = "scan" /\ m.p = main.p /\ m.op = main.op /\ m.after = main.after
    BY <1>1, <1>2, <1>3 DEF Main
  <1>5. /\ LockFor(m, "remove_nbr", "free_nbr") \in Main
        /\ LockFor(m, "remove_nbr", "free_nbr").at = "request"
        /\ LockFor(m, "remove_nbr", "free_nbr").op = "remove_nbr"
        /\ LockFor(m, "remove_nbr", "free_nbr").then = "free_nbr"
        /\ LockFor(m, "remove_nbr", "free_nbr").a = a
        /\ LockFor(m, "remove_nbr", "free_nbr").p = main.p
        /\ LockFor(m, "remove_nbr", "free_nbr").after = main.after
    BY <1>4 DEF LockFor, Main
  <1>6. main.op = "none" /\ lock = "free"
    BY <1>1, <1>2 DEF Control, At, Locking
  <1> HIDE DEF m
  <1>7. Schedule'
    BY <1>1, <1>2, ScheduleKept DEF Schedule
  <1>8. CASE Unused(a)
    <2> DEFINE k == LockFor(m, "remove_nbr", "free_nbr")
    <2>1. /\ main' \in Main /\ main'.at = "request" /\ main'.op = "remove_nbr"
          /\ main'.then = "free_nbr" /\ main'.a = a /\ main'.p = main.p /\ main'.after = main.after
      BY <1>2, <1>5, <1>8
    <2>2. a \in Addr /\ IsEmpty(a) /\ nbr[a].links = 0
      BY <1>8 DEF Unused
    <2>3. Reported' = Reported
      BY <1>2, <2>1 DEF Reported
    <2>4. Control'
      BY <1>1, <1>2, <1>6, <2>1, <2>2 DEF Control, At, Locking, Locked, Removing, Reported, IsEmpty
    <2> QED BY <1>2, <1>7, <2>1, <2>3, <2>4, MainQuiet DEF At
  <1>9. CASE ~Unused(a)
    <2>1. /\ main' \in Main /\ main'.at = "scan" /\ main'.op = "none"
          /\ main'.p = main.p /\ main'.after = main.after
      BY <1>2, <1>4, <1>6, <1>9
    <2>2. Reported' = Reported
      BY <1>2, <2>1 DEF Reported
    <2>3. Control'
      BY <1>1, <1>2, <1>6, <2>1 DEF Control, At, Locking, Removing, Reported
    <2> QED BY <1>2, <1>7, <2>1, <2>2, <2>3, MainQuiet DEF At
  <1> QED BY <1>8, <1>9

\* An operation ends that changed no ring.
LEMMA DoneQuiet ==
  ASSUME TschInv, UNCHANGED <<list, pkts, tx, deq>>, nbr' \in [NbrAddr -> Nbr],
         \A a \in NbrAddr : nbr'[a].ring = nbr[a].ring,
         ~At("put"), Reported = FALSE, main' = Idle, lock' = "free", Schedule'
  PROVE  TschInv' /\ FifoStep
  <1>1. Control' /\ InHand' = {} /\ Reported' = FALSE
    BY ControlIdle
  <1>2. InHand' = InHand /\ Leaving' = Leaving
    BY <1>1 DEF InHand, Leaving
  <1> QED BY <1>1, <1>2, DataKept DEF TschInv

\* tsch_slot_operation_start.
LEMMA ProcessJoinStep ==
  ASSUME TschInv, ProcessJoin
  PROVE  TschInv' /\ FifoStep
  <1>1. Control /\ Schedule /\ Lists
    BY DEF TschInv
  <1>2. /\ UNCHANGED <<list, nbr, pkts, tx, deq, lock, assoc, sched, link, main>>
        /\ armed' = TRUE /\ NextLink /\ main.at = "idle"
    BY DEF ProcessJoin, At
  <1>3. Schedule'
    BY <1>1, <1>2 DEF Schedule, NextLink, LinkScheduled
  <1>4. Control' /\ Reported' = Reported
    BY <1>1, <1>2 DEF Control, At, Locking, Removing, Reported, OnList
  <1> QED BY <1>2, <1>3, <1>4, MainQuiet DEF At

Byte == 0 .. 255

\* The number of links of one neighbour is set.
LEMMA LinksSet ==
  ASSUME NEW n \in [NbrAddr -> Nbr], NEW a \in NbrAddr, NEW v \in Byte,
         NEW m, m = [n EXCEPT ![a].links = v]
  PROVE  /\ m \in [NbrAddr -> Nbr]
         /\ \A b \in NbrAddr : /\ m[b].ring = n[b].ring
                               /\ m[b].links = IF b = a THEN v ELSE n[b].links
  <1>1. ASSUME NEW b \in NbrAddr
        PROVE  /\ [n[b] EXCEPT !.links = v] \in Nbr /\ [n[b] EXCEPT !.links = v].ring = n[b].ring
               /\ [n[b] EXCEPT !.links = v].links = v
    <2>1. n[b] \in Nbr
      OBVIOUS
    <2> QED BY <2>1 DEF Nbr, Byte
  <1> QED BY <1>1

\* tx_links_count goes up or down.
LEMMA CountStep ==
  ASSUME TschInv, Count
  PROVE  TschInv' /\ FifoStep
  <1>1. Control /\ Schedule /\ Lists
    BY DEF TschInv
  <1>2. /\ UNCHANGED <<list, pkts, tx, deq, lock, assoc, armed, sched, link, cur, bak>>
        /\ main.at \in {"count", "uncount"} /\ main' = Idle
        /\ \/ nbr' = nbr
           \/ /\ OnList(main.a)
              /\ \/ nbr' = [nbr EXCEPT ![main.a].links = (@ + 1) % 256]
                 \/ nbr' = [nbr EXCEPT ![main.a].links = (@ + 255) % 256]
    BY DEF Count, At, Done, schedVars
  <1>3. lock' = "free" /\ Reported = FALSE
    BY <1>1, <1>2 DEF Control, At, Locking, Reported
  <1>4. nbr' \in [NbrAddr -> Nbr] /\ \A a \in NbrAddr : nbr'[a].ring = nbr[a].ring
    <2>1. nbr \in [NbrAddr -> Nbr] /\ main.a \in NbrAddr
      BY <1>1, <1>2 DEF Lists, Control, Link
    <2>2. nbr[main.a].links \in 0 .. 255
      <3>1. nbr[main.a] \in Nbr
        BY <2>1
      <3> QED BY <3>1 DEF Nbr
    <2>3. PICK v \in 0 .. 255 : v = nbr[main.a].links
      BY <2>2
    <2>4. (v + 1) % 256 \in 0 .. 255 /\ (v + 255) % 256 \in 0 .. 255
      OBVIOUS
    <2> DEFINE up == (v + 1) % 256
               down == (v + 255) % 256
    <2>5. \/ nbr' = nbr
          \/ nbr' = [nbr EXCEPT ![main.a].links = up]
          \/ nbr' = [nbr EXCEPT ![main.a].links = down]
      BY <1>2, <2>3
    <2>6. up \in 0 .. 255 /\ down \in 0 .. 255
      BY <2>4
    <2> HIDE DEF up, down
    <2>7. CASE nbr' = nbr
      BY <2>1, <2>7
    <2>8. ASSUME NEW u \in {up, down}, nbr' = [nbr EXCEPT ![main.a].links = u]
          PROVE  nbr' \in [NbrAddr -> Nbr] /\ \A a \in NbrAddr : nbr'[a].ring = nbr[a].ring
      <3>1. u \in Byte
        BY <2>6 DEF Byte
      <3> DEFINE k == main.a
                 m == nbr'
                 n == nbr
      <3>2. m = [n EXCEPT ![k].links = u] /\ k \in NbrAddr /\ n \in [NbrAddr -> Nbr]
        BY <2>1, <2>8
      <3> HIDE DEF k, m, n
      <3>3. m \in [NbrAddr -> Nbr] /\ \A b \in NbrAddr : m[b].ring = n[b].ring
        BY <3>1, <3>2, LinksSet
      <3> QED BY <3>3 DEF m, n
    <2> QED BY <2>5, <2>7, <2>8
  <1>5. Schedule'
    BY <1>1, <1>2, ScheduleKept DEF Schedule
  <1> QED BY <1>2, <1>3, <1>4, <1>5, DoneQuiet DEF At

\* Choosing the time source changes src alone.
LEMMA TimeSourceIs ==
  ASSUME NEW n \in [NbrAddr -> Nbr], NEW a
  PROVE  /\ TimeSource(n, a) \in [NbrAddr -> Nbr]
         /\ \A b \in NbrAddr : /\ TimeSource(n, a)[b].ring = n[b].ring
                               /\ TimeSource(n, a)[b].links = n[b].links
  <1>1. ASSUME NEW b \in NbrAddr, NEW v \in BOOLEAN
        PROVE  /\ [n[b] EXCEPT !.src = v] \in Nbr /\ [n[b] EXCEPT !.src = v].ring = n[b].ring
               /\ [n[b] EXCEPT !.src = v].links = n[b].links
    <2>1. n[b] \in Nbr
      OBVIOUS
    <2> QED BY <2>1 DEF Nbr
  <1>2. \A b \in NbrAddr : (b = a) \in BOOLEAN
    OBVIOUS
  <1> QED BY <1>1, <1>2 DEF TimeSource

\* is_time_source is set and cleared.
LEMMA SetTimeSourceStep ==
  ASSUME TschInv, SetTimeSource
  PROVE  TschInv' /\ FifoStep
  <1>1. Control /\ Schedule /\ Lists
    BY DEF TschInv
  <1>2. /\ UNCHANGED <<list, pkts, tx, deq, lock, assoc, armed, sched, link, cur, bak>>
        /\ main.at = "source" /\ main' = Idle
        /\ nbr' = nbr \/ nbr' = TimeSource(nbr, main.a)
    BY DEF SetTimeSource, At, Done, schedVars
  <1>3. lock' = "free" /\ Reported = FALSE
    BY <1>1, <1>2 DEF Control, At, Locking, Reported
  <1>4. nbr' \in [NbrAddr -> Nbr] /\ \A a \in NbrAddr : nbr'[a].ring = nbr[a].ring
    BY <1>1, <1>2, TimeSourceIs DEF Lists
  <1>5. Schedule'
    BY <1>1, <1>2, ScheduleKept DEF Schedule
  <1> QED BY <1>2, <1>3, <1>4, <1>5, DoneQuiet DEF At

\* The end of tsch_reset.
LEMMA LeaveStep ==
  ASSUME TschInv, Leave
  PROVE  TschInv' /\ FifoStep
  <1>1. Control /\ Schedule /\ Lists
    BY DEF TschInv
  <1>2. /\ UNCHANGED <<list, pkts, tx, deq, lock, assoc, armed, sched, link, bak>>
        /\ main.at = "scan" /\ main.p = NONE /\ main' = Idle
        /\ nbr' = TimeSource(nbr, NONE) /\ cur' = NONE
    BY DEF Leave, At, Done
  <1>3. lock' = "free" /\ Reported = FALSE
    BY <1>1, <1>2 DEF Control, At, Locking, Reported
  <1>4. nbr' \in [NbrAddr -> Nbr] /\ \A a \in NbrAddr : nbr'[a].ring = nbr[a].ring
    BY <1>1, <1>2, TimeSourceIs DEF Lists
  <1>5. Schedule'
    BY <1>1, <1>2 DEF Schedule, LinkScheduled
  <1> QED BY <1>2, <1>3, <1>4, <1>5, DoneQuiet DEF At

\* A block that is not in use.
LEMMA FreeBlock ==
  ASSUME NEW n \in Nat, NEW S \in SUBSET (1 .. n), S # 1 .. n
  PROVE  Min((1 .. n) \ S) \in (1 .. n) \ S
  <1> DEFINE B == 1 .. n
             F == B \ S
  <1>1. B \in SUBSET Nat
    OBVIOUS
  <1>2. S \in SUBSET B /\ S # B
    OBVIOUS
  <1> HIDE DEF B
  <1>3. F \in SUBSET Nat /\ F # {}
    BY <1>1, <1>2
  <1> HIDE DEF F
  <1>4. Min(F) \in F
    BY <1>3, MinIs
  <1> QED BY <1>4 DEF F, B

\* tsch_schedule_add_link under the lock.
LEMMA AddLinkStep ==
  ASSUME TschInv, AddLink
  PROVE  TschInv' /\ FifoStep
  <1>1. Control /\ Schedule /\ Lists /\ main \in Main
    BY DEF TschInv, Control
  <1>2. /\ UNCHANGED <<list, nbr, pkts, tx, deq, assoc, armed, cur, bak>>
        /\ main.at = "critical" /\ main.op = "add_link" /\ lock' = "free"
    BY DEF AddLink, At, Release
  <1>3. Reported = FALSE /\ main.then = "added" /\ main.l \in Link /\ main.a = main.l.addr
        /\ main.after = "idle"
    BY <1>1, <1>2 DEF Control, At, Locking, Locked, Reported, Removing, Main
  <1>4. CASE sched = Block
    <2>1. main' = Idle /\ UNCHANGED <<sched, link>>
      BY <1>4 DEF AddLink, Release
    <2>2. Schedule'
      BY <1>1, <1>2, <2>1, ScheduleKept DEF Schedule
    <2>3. nbr' \in [NbrAddr -> Nbr] /\ \A a \in NbrAddr : nbr'[a].ring = nbr[a].ring
      BY <1>1, <1>2 DEF Lists
    <2> QED BY <1>2, <1>3, <2>1, <2>2, <2>3, DoneQuiet DEF At
  <1>5. CASE sched # Block
    <2> DEFINE b == Min(Block \ sched)
    <2>1. b \in Block
      BY <1>1, <1>5, TschAssumption, FreeBlock DEF Schedule, Block
    <2>2. /\ sched' = sched \cup {b} /\ link' = [link EXCEPT ![b] = main.l]
          /\ main' = [main EXCEPT !.at = "added", !.op = "none", !.then = "idle"]
      BY <1>3, <1>5 DEF AddLink, Release
    <2> HIDE DEF b
    <2>3. Schedule'
      BY <1>1, <1>2, <1>3, <2>1, <2>2 DEF Schedule, LinkScheduled
    <2>4. /\ main' \in Main /\ main'.at = "added" /\ main'.op = "none" /\ main'.a = main.a
          /\ main'.l = main.l /\ main'.after = main.after
      BY <1>1, <2>2 DEF Main
    <2>5. Control' /\ Reported' = FALSE
      BY <1>1, <1>2, <1>3, <2>4 DEF Control, At, Locking, Removing, Reported
    <2> QED BY <1>2, <1>3, <2>3, <2>4, <2>5, MainQuiet DEF At
  <1> QED BY <1>4, <1>5

\* tsch_schedule_remove_link under the lock.
LEMMA RemoveLinkStep ==
  ASSUME TschInv, RemoveLink
  PROVE  TschInv' /\ FifoStep
  <1>1. Control /\ Schedule /\ Lists /\ main \in Main
    BY DEF TschInv, Control
  <1>2. /\ UNCHANGED <<list, nbr, pkts, tx, deq, assoc, armed, link, bak>>
        /\ main.at = "critical" /\ main.op = "remove_link" /\ lock' = "free"
        /\ sched' = sched \ {main.p} /\ cur' = IF cur = main.p THEN NONE ELSE cur
    BY DEF RemoveLink, At, Release
  <1>3. Reported = FALSE /\ main.then = "removed" /\ main.p \in sched /\ main.l = link[main.p]
        /\ main.a = main.l.addr /\ main.after = "idle"
    BY <1>1, <1>2 DEF Control, At, Locking, Locked, Reported, Removing, Main
  <1>4. main' = [main EXCEPT !.at = "removed", !.op = "none", !.then = "idle"]
    BY <1>3 DEF RemoveLink, Release
  <1>5. Schedule'
    BY <1>1, <1>2 DEF Schedule, LinkScheduled
  <1>6. /\ main' \in Main /\ main'.at = "removed" /\ main'.op = "none" /\ main'.a = main.a
        /\ main'.l = main.l /\ main'.after = main.after /\ main.l \in Link
    BY <1>1, <1>3, <1>4 DEF Main, Schedule
  <1>7. Control' /\ Reported' = FALSE
    BY <1>1, <1>2, <1>3, <1>6 DEF Control, At, Locking, Removing, Reported
  <1> QED BY <1>2, <1>3, <1>5, <1>6, <1>7, MainQuiet DEF At

-----------------------------------------------------------------------------
(* The steps of the main context that change the queues or the list.       *)

\* The queues hold the same, in new rings or a new list.
LEMMA AccountedKept ==
  ASSUME TschInv, Lists', Queues' = Queues, Leaving' = Leaving, InHand' = InHand,
         pkts' = pkts, tx' = tx
  PROVE  Accounted' /\ FifoStep
  <1>1. Accounted'
    BY DEF TschInv, Accounted
  <1> QED BY <1>1, FifoStutter DEF TschInv

\* A new neighbour has nothing to send.
LEMMA NewNbrIs ==
  /\ NewNbr \in Nbr /\ NewNbr.links = 0
  /\ Elements(NewNbr.ring) = 0 /\ Contents(NewNbr.ring) = << >>
  <1> DEFINE r == RingInit(N)
  <1>1. r = [put |-> 0, get |-> 0, arr |-> [i \in 0 .. N - 1 |-> NONE]]
    BY DEF RingInit
  <1>2. r \in Ring(N) /\ Contents(r) = << >> /\ Elements(r) = 0
    <2> HIDE DEF r
    <2>1. N \in Nat \ {0, 1} /\ 0 \in 0 .. N - 1
      BY Constants
    <2> QED BY <1>1, <2>1, EmptyIs
  <1>3. NewNbr.ring = r /\ NewNbr.links = 0
    BY DEF NewNbr, N
  <1>4. NewNbr = [ring |-> r, win |-> 0, be |-> TSCH_MAC_MIN_BE, links |-> 0, src |-> FALSE]
    BY DEF NewNbr, N
  <1>5. 0 \in 0 .. 2^TSCH_MAC_MAX_BE /\ TSCH_MAC_MIN_BE \in TSCH_MAC_MIN_BE .. TSCH_MAC_MAX_BE
    BY Constants
  <1> HIDE DEF r
  <1>6. NewNbr \in Nbr
    BY <1>2, <1>4, <1>5 DEF Nbr
  <1> QED BY <1>2, <1>3, <1>6

\* What a neighbour off the list has to send.
LEMMA OffList ==
  ASSUME Lists, NEW a \in NbrAddr, IsEmpty(a)
  PROVE  Contents(nbr[a].ring) = << >> /\ Elements(nbr[a].ring) = 0
  <1>1. nbr[a].ring \in Ring(N)
    BY DEF Lists, Nbr
  <1> QED BY <1>1, Constants, FirstIs DEF IsEmpty

\* A step out of the critical section.
LEMMA Released ==
  ASSUME main \in Main, NEW then \in {"fill", "count", "uncount", "source", "free_nbr"}, Release(then)
  PROVE  /\ main' \in Main /\ main'.at = then /\ main'.op = "none" /\ main'.a = main.a
         /\ main'.l = main.l /\ main'.p = main.p /\ main'.after = main.after /\ lock' = "free"
  <1>1. main' = [main EXCEPT !.at = then, !.op = "none", !.then = "idle"] /\ lock' = "free"
    BY DEF Release
  <1> QED BY <1>1 DEF Main

\* tsch_queue_add_nbr under the lock.
LEMMA AddNbrStep ==
  ASSUME TschInv, AddNbr
  PROVE  TschInv' /\ FifoStep
  <1>1. Control /\ Schedule /\ Lists /\ main \in Main
    BY DEF TschInv, Control
  <1>2. /\ UNCHANGED <<pkts, tx, deq, assoc, armed, sched, link, cur, bak>>
        /\ main.at = "critical" /\ main.op = "add_nbr" /\ Release(main.then)
        /\ IF Len(list) < TSCH_QUEUE_MAX_NEIGHBOR_QUEUES
           THEN list' = Append(list, main.a) /\ nbr' = [nbr EXCEPT ![main.a] = NewNbr]
           ELSE UNCHANGED <<list, nbr>>
    BY DEF AddNbr, At, schedVars
  <1>3. /\ main.a \in NbrAddr /\ ~OnList(main.a) /\ main.after = "idle"
        /\ main.then \in {"fill", "count", "uncount", "source"}
        /\ main.then = "source" => main.a \in Addr
        /\ main.then \in {"count", "uncount"} => main.l \in Link /\ main.l.tx /\ main.a = main.l.addr
    BY <1>1, <1>2 DEF Control, At, Locking, Locked, Removing, Main
  <1>4. /\ main' \in Main /\ main'.at = main.then /\ main'.op = "none" /\ main'.a = main.a
        /\ main'.l = main.l /\ main'.p = main.p /\ main'.after = "idle" /\ lock' = "free"
    <2> DEFINE th == main.then
    <2>1. th \in {"fill", "count", "uncount", "source", "free_nbr"} /\ Release(th)
      BY <1>2, <1>3
    <2> HIDE DEF th
    <2>2. /\ main' \in Main /\ main'.at = th /\ main'.op = "none" /\ main'.a = main.a
          /\ main'.l = main.l /\ main'.p = main.p /\ main'.after = main.after /\ lock' = "free"
      BY <1>1, <2>1, Released
    <2> QED BY <1>3, <2>2 DEF th
  <1>5. Schedule'
    BY <1>1, <1>2, ScheduleKept DEF Schedule
  <1>6. Reported = FALSE /\ Reported' = FALSE /\ InHand' = InHand
    BY <1>2, <1>3, <1>4 DEF Reported, InHand, At
  <1>7. Leaving' = Leaving
    BY <1>2, <1>6 DEF Leaving
  <1>8. Control'
    BY <1>3, <1>4, <1>6 DEF Control, At, Locking, Removing
  <1>9. Lists' /\ Queues' = Queues
    <2>1. CASE UNCHANGED <<list, nbr>>
      BY <1>1, <1>2, <2>1 DEF Lists, OnList, IsEmpty, Queues
    <2>2. CASE /\ Len(list) < TSCH_QUEUE_MAX_NEIGHBOR_QUEUES
               /\ list' = Append(list, main.a) /\ nbr' = [nbr EXCEPT ![main.a] = NewNbr]
      <3>1. list \in Seq(NbrAddr) /\ IsInjective(list) /\ nbr \in [NbrAddr -> Nbr]
        BY <1>1 DEF Lists
      <3>2. /\ list' \in Seq(NbrAddr) /\ IsInjective(list') /\ ToSet(list') = ToSet(list) \cup {main.a}
        BY <1>3, <2>2, <3>1, AppendKeeps DEF OnList
      <3>3. Len(list') <= TSCH_QUEUE_MAX_NEIGHBOR_QUEUES
        <4>1. Len(list') = Len(list) + 1 /\ Len(list) \in Nat
          BY <1>3, <2>2, <3>1
        <4> QED BY <2>2, <4>1, TschAssumption
      <3>4. /\ nbr' \in [NbrAddr -> Nbr] /\ nbr'[main.a] = NewNbr
            /\ \A b \in NbrAddr : b # main.a => nbr'[b] = nbr[b]
        BY <1>3, <2>2, <3>1, NewNbrIs
      <3>5. \A b \in NbrAddr : b \notin ToSet(list') => Elements(nbr'[b].ring) = 0
        BY <1>1, <3>2, <3>4 DEF Lists, OnList, IsEmpty
      <3>6. Contents(nbr[main.a].ring) = << >>
        BY <1>1, <1>3, OffList DEF Lists
      <3>7. \A b \in NbrAddr : Contents(nbr'[b].ring) = Contents(nbr[b].ring)
        BY <3>4, <3>6, NewNbrIs
      <3>8. Lists'
        BY <1>1, <1>2, <3>2, <3>3, <3>4, <3>5 DEF Lists, OnList, IsEmpty
      <3>9. Queues' = Queues
        BY <3>7 DEF Queues
      <3> QED BY <3>8, <3>9
    <2> QED BY <1>2, <2>1, <2>2
  <1> QED BY <1>2, <1>5, <1>6, <1>7, <1>8, <1>9, AccountedKept DEF TschInv

\* tsch_queue_remove_nbr under the lock: what is removed has nothing to send.
LEMMA RemoveNbrStep ==
  ASSUME TschInv, RemoveNbr
  PROVE  TschInv' /\ FifoStep
  <1>1. Control /\ Schedule /\ Lists /\ main \in Main
    BY DEF TschInv, Control
  <1>2. /\ UNCHANGED <<nbr, pkts, tx, deq, assoc, armed, sched, link, cur, bak>>
        /\ main.at = "critical" /\ main.op = "remove_nbr" /\ Release(main.then)
        /\ list' = RemoveFirst(list, main.a)
    BY DEF RemoveNbr, At, schedVars
  <1>3. main.a \in Addr /\ main.a \in NbrAddr /\ IsEmpty(main.a) /\ main.then = "free_nbr"
    BY <1>1, <1>2, Constants DEF Control, At, Locking, Locked
  <1>4. /\ main' \in Main /\ main'.at = "free_nbr" /\ main'.op = "none" /\ main'.a = main.a
        /\ main'.l = main.l /\ main'.p = main.p /\ main'.after = main.after /\ lock' = "free"
    <2>1. Release("free_nbr")
      BY <1>2, <1>3
    <2> QED BY <1>1, <2>1, Released
  <1>5. Schedule'
    BY <1>1, <1>2, ScheduleKept DEF Schedule
  <1>6. Reported' = Reported /\ InHand' = InHand
    BY <1>2, <1>4 DEF Reported, InHand, At
  <1>7. Leaving' = Leaving /\ Queues' = Queues
    BY <1>2, <1>6 DEF Leaving, Queues
  <1>8. /\ list' \in Seq(NbrAddr) /\ IsInjective(list') /\ ToSet(list') = ToSet(list) \ {main.a}
    BY <1>1, <1>2, RemoveFirstKeeps DEF Lists
  <1>9. Len(list') <= TSCH_QUEUE_MAX_NEIGHBOR_QUEUES
    <2>1. list \in Seq(NbrAddr) /\ IsInjective(list) /\ Len(list) <= TSCH_QUEUE_MAX_NEIGHBOR_QUEUES
      BY <1>1 DEF Lists
    <2>2. IsFiniteSet(ToSet(list)) /\ Len(list) = Cardinality(ToSet(list))
      BY <2>1, InjectiveLen
    <2>3. Len(list') = Cardinality(ToSet(list'))
      BY <1>8, InjectiveLen
    <2>4. Cardinality(ToSet(list')) <= Cardinality(ToSet(list))
      BY <1>8, <2>2, FS_Subset
    <2>5. Len(list) \in Nat /\ Len(list') \in Nat
      BY <1>8, <2>1
    <2> QED BY <2>1, <2>2, <2>3, <2>4, <2>5, TschAssumption
  <1>10. Lists'
    <2>1. Eb \in ToSet(list') /\ Broadcast \in ToSet(list')
      BY <1>1, <1>3, <1>8, Constants DEF Lists, OnList
    <2>2. \A b \in NbrAddr : b \notin ToSet(list') => Elements(nbr[b].ring) = 0
      BY <1>1, <1>3, <1>8 DEF Lists, OnList, IsEmpty
    <2> QED BY <1>1, <1>2, <1>8, <1>9, <2>1, <2>2 DEF Lists, OnList, IsEmpty
  <1>11. Control'
    <2>1. ~(main'.a \in ToSet(list'))
      BY <1>4, <1>8
    <2>2. Reported => main.p \in Packet /\ Elements(deq) # 0 /\ First(deq) = main.p
      BY <1>1 DEF Control
    <2>3. main.after = "reset" => ~assoc
      BY <1>1 DEF Control
    <2> QED BY <1>2, <1>3, <1>4, <1>6, <2>1, <2>2, <2>3 DEF Control, At, Locking, Removing, OnList
  <1> QED BY <1>2, <1>5, <1>6, <1>7, <1>10, <1>11, AccountedKept DEF TschInv

\* tsch_queue_add_packet stores a packet at the free place of the ring, where
\* no slot operation sees it.
LEMMA FillStep ==
  ASSUME TschInv, Fill
  PROVE  TschInv' /\ FifoStep
  <1> DEFINE p == Min(Packet \ pkts)
             a == main.a
  <1>1. Control /\ Schedule /\ Lists /\ main \in Main /\ Account(Queues, Leaving, InHand, pkts, tx)
    BY DEF TschInv, Control, Accounted
  <1>2. /\ UNCHANGED <<list, deq, lock, assoc, armed, sched, link, cur, bak>>
        /\ main.at = "fill" /\ OnList(a) /\ ~Full(nbr[a].ring) /\ pkts # Packet
        /\ pkts' = pkts \cup {p} /\ tx' = [tx EXCEPT ![p] = 0]
        /\ nbr' = [nbr EXCEPT ![a].ring = Store(@, p)]
        /\ main' = [main EXCEPT !.at = "put", !.p = p]
    BY DEF Fill, At, schedVars
  <1>3. a \in NbrAddr /\ main.op = "none" /\ main.after = "idle" /\ lock = "free"
    BY <1>1, <1>2 DEF Control, At, Locking, Removing, Main
  <1>4. p \in Packet /\ p \notin pkts /\ p \in Nat
    <2>1. pkts \in SUBSET Packet
      BY <1>1 DEF Account
    <2>2. p \in Packet \ pkts
      BY <1>2, <2>1, TschAssumption, FreeBlock DEF Packet
    <2> QED BY <2>2 DEF Packet
  <1> HIDE DEF p
  <1>5. InHand = {} /\ Reported = FALSE
    BY <1>2, <1>3 DEF InHand, At, Reported
  <1>6. [tx EXCEPT ![p] = 0] = tx /\ Account(Queues, Leaving, {p}, pkts \cup {p}, [tx EXCEPT ![p] = 0])
    BY <1>1, <1>4, <1>5, AccountFill
  <1>7. /\ main' \in Main /\ main'.at = "put" /\ main'.p = p /\ main'.op = "none"
        /\ main'.after = "idle" /\ main'.a = a
    BY <1>1, <1>2, <1>3, <1>4 DEF Main
  <1>8. InHand' = {p} /\ Reported' = FALSE
    BY <1>7 DEF InHand, At, Reported
  <1>9. Leaving' = Leaving
    BY <1>2, <1>5, <1>8 DEF Leaving
  <1> DEFINE r == nbr[a].ring
             s == Store(r, p)
  <1>10. nbr \in [NbrAddr -> Nbr] /\ nbr[a] \in Nbr /\ r \in Ring(N)
    BY <1>1, <1>3 DEF Lists, Nbr
  <1>11. /\ s \in Ring(N) /\ Contents(s) = Contents(r) /\ Elements(s) = Elements(r)
         /\ s.put = r.put /\ s.arr[r.put] = p /\ ~Full(s)
    <2>1. /\ s \in Ring(N) /\ Contents(s) = Contents(r) /\ Elements(s) = Elements(r)
          /\ s.put = r.put /\ s.arr[r.put] = p
      BY <1>4, <1>10, Constants, StoreIs
    <2> HIDE DEF s, r
    <2>2. ~Full(r)
      BY <1>2 DEF r
    <2> QED BY <1>10, <2>1, <2>2, Constants, RingIs
  <1>12. /\ nbr' \in [NbrAddr -> Nbr] /\ nbr'[a].ring = s
         /\ \A b \in NbrAddr : b # a => nbr'[b] = nbr[b]
    <2>1. nbr' = [nbr EXCEPT ![a] = [nbr[a] EXCEPT !.ring = s]]
      BY <1>2
    <2> HIDE DEF s
    <2>2. [nbr[a] EXCEPT !.ring = s] \in Nbr /\ [nbr[a] EXCEPT !.ring = s].ring = s
      BY <1>10, <1>11 DEF Nbr
    <2> QED BY <1>3, <1>10, <2>1, <2>2
  <1> HIDE DEF a, s
  <1>13. Queues' = Queues
    BY <1>11, <1>12 DEF Queues
  <1>14. Lists'
    BY <1>1, <1>2, <1>11, <1>12 DEF Lists, OnList, IsEmpty
  <1>15. Schedule'
    BY <1>1, <1>2, ScheduleKept DEF Schedule
  <1>16. Control'
    BY <1>2, <1>3, <1>4, <1>7, <1>8, <1>11, <1>12 DEF Control, At, Locking, Removing, OnList
  <1>17. Accounted'
    BY <1>2, <1>6, <1>8, <1>9, <1>13 DEF Accounted
  <1>18. FifoStep
    BY <1>1, <1>2, <1>6, <1>9, <1>13, <1>14, FifoStutter
  <1> QED BY <1>14, <1>15, <1>16, <1>17, <1>18 DEF TschInv

\* ringbufindex_put finds the room that tsch_queue_add_packet asked for, since a
\* slot operation only takes packets out.
LEMMA PutStep ==
  ASSUME TschInv, Put
  PROVE  TschInv' /\ FifoStep
  <1> DEFINE p == main.p
             a == main.a
             r == nbr[a].ring
             s == RingPut(r)
  <1>1. Control /\ Schedule /\ Lists /\ Account(Queues, Leaving, InHand, pkts, tx)
    BY DEF TschInv, Accounted
  <1>2. /\ UNCHANGED <<list, pkts, tx, deq, lock, assoc, armed, sched, link, cur, bak>>
        /\ main.at = "put" /\ main' = Idle
        /\ nbr' = IF Full(nbr[main.a].ring) THEN nbr
                  ELSE [nbr EXCEPT ![main.a].ring = RingPut(@)]
    BY DEF Put, At, Done, schedVars
  <1>3. /\ OnList(a) /\ p \in Packet /\ ~Full(r) /\ r.arr[r.put] = p
        /\ lock = "free" /\ main.op = "none"
    BY <1>1, <1>2 DEF Control, At, Locking
  <1>4. a \in NbrAddr
    <2>1. ToSet(list) \subseteq NbrAddr
      BY <1>1, ToSetIs DEF Lists
    <2> QED BY <1>3, <2>1 DEF OnList
  <1>5. nbr \in [NbrAddr -> Nbr] /\ nbr[a] \in Nbr /\ r \in Ring(N)
    BY <1>1, <1>4 DEF Lists, Nbr
  <1>6. s \in Ring(N) /\ Contents(s) = Append(Contents(r), p)
    BY <1>3, <1>5, Constants, PutIs
  <1>7. /\ nbr' \in [NbrAddr -> Nbr] /\ nbr'[a].ring = s
        /\ \A b \in NbrAddr : b # a => nbr'[b] = nbr[b]
    <2>1. nbr' = [nbr EXCEPT ![a] = [nbr[a] EXCEPT !.ring = s]]
      BY <1>2, <1>3
    <2> HIDE DEF s
    <2>2. [nbr[a] EXCEPT !.ring = s] \in Nbr /\ [nbr[a] EXCEPT !.ring = s].ring = s
      BY <1>5, <1>6 DEF Nbr
    <2> HIDE DEF a
    <2> QED BY <1>4, <1>5, <2>1, <2>2
  <1>8. InHand = {p} /\ Reported = FALSE
    BY <1>2, <1>3 DEF InHand, At, Reported
  <1>9. Control' /\ InHand' = {} /\ Reported' = FALSE
    BY <1>2, <1>3, ControlIdle
  <1>10. Leaving' = Leaving
    BY <1>2, <1>8, <1>9 DEF Leaving
  <1>11. Queues' = [Queues EXCEPT ![a] = Append(@, p)] /\ Queues[a] = Contents(r)
    <2> HIDE DEF s, p
    <2> QED BY <1>4, <1>6, <1>7 DEF Queues
  <1>12. Len(Queues[a]) < N - 1
    <2> HIDE DEF r
    <2>1. Elements(r) # N - 1 /\ Elements(r) \in 0 .. N - 1 /\ Len(Contents(r)) = Elements(r)
      BY <1>3, <1>5, Constants, RingIs
    <2>2. Elements(r) < N - 1
      BY <2>1, Constants
    <2> QED BY <1>11, <2>1, <2>2
  <1> HIDE DEF p, r, s
  <1>13. Lists'
    <2> HIDE DEF a
    <2>1. \A b \in NbrAddr : b \notin ToSet(list) => b # a
      BY <1>3 DEF OnList
    <2> QED BY <1>1, <1>2, <1>7, <2>1 DEF Lists, OnList, IsEmpty
  <1>14. Schedule'
    BY <1>1, <1>2, ScheduleKept DEF Schedule
  <1> HIDE DEF a
  <1>15. /\ Account([Queues EXCEPT ![a] = Append(@, p)], Leaving, {}, pkts, tx)
         /\ p \notin ToSet(Leaving) /\ \A b \in NbrAddr : p \notin ToSet(Queues[b])
    BY <1>1, <1>4, <1>8, Constants, AccountPut
  <1>16. Accounted'
    BY <1>2, <1>9, <1>10, <1>11, <1>15 DEF Accounted
  <1>17. FifoStep
    BY <1>1, <1>2, <1>3, <1>4, <1>10, <1>11, <1>12, <1>13, <1>15, FifoAccept
  <1> QED BY <1>9, <1>13, <1>14, <1>16, <1>17 DEF TschInv

\* The neighbours that may be removed.
LEMMA NeighborsIs ==
  ASSUME Lists
  PROVE  Neighbors \in Seq(NbrAddr)
  <1>1. list \in Seq(NbrAddr) /\ IsInjective(list)
    BY DEF Lists
  <1>2. RemoveFirst(list, Eb) \in Seq(NbrAddr) /\ IsInjective(RemoveFirst(list, Eb))
    BY <1>1, RemoveFirstKeeps
  <1>3. RemoveFirst(RemoveFirst(list, Eb), Broadcast) \in Seq(NbrAddr)
    BY <1>2, RemoveFirstKeeps
  <1> QED BY <1>3 DEF Neighbors

\* No packet is freed.
LEMMA FreeNone ==
  ASSUME FreePackets({}), tx \in [Packet -> 0 .. R + 1]
  PROVE  pkts' = pkts /\ tx' = tx
  BY DEF FreePackets

\* tsch_tx_process_pending reports the first dequeued packet, which is the one
\* that left first.
LEMMA ReportStep ==
  ASSUME TschInv, Report
  PROVE  TschInv' /\ FifoStep
  <1>1. /\ Control /\ Schedule /\ Lists /\ main \in Main
        /\ Account(Queues, Leaving, InHand, pkts, tx)
    BY DEF TschInv, Control, Accounted
  <1>2. /\ UNCHANGED <<list, nbr, deq, lock, assoc, armed, sched, link, cur, bak>>
        /\ main.at = "report"
        /\ IF Elements(deq) = 0
           THEN main' = IF main.after = "reset" THEN [main EXCEPT !.at = "reset"] ELSE Idle
           ELSE main' = [main EXCEPT !.at = "scan", !.p = First(deq), !.rest = Neighbors]
        /\ FreePackets(IF Elements(deq) = 0 THEN {} ELSE {First(deq)})
    BY DEF Report, At, schedVars
  <1>3. /\ main.p = NONE /\ lock = "free" /\ main.op = "none"
        /\ main.after = "reset" => ~assoc
    BY <1>1, <1>2 DEF Control, At, Locking
  <1>4. Reported = FALSE /\ InHand = {} /\ Leaving = Contents(deq)
    BY <1>2, <1>3 DEF Reported, InHand, At, Leaving
  <1>5. Schedule'
    BY <1>1, <1>2, ScheduleKept DEF Schedule
  <1>6. Lists' /\ Queues' = Queues
    BY <1>1, <1>2 DEF Lists, OnList, IsEmpty, Queues
  <1>7. CASE Elements(deq) = 0
    <2>1. pkts' = pkts /\ tx' = tx
      <3>1. FreePackets({}) /\ tx \in [Packet -> 0 .. R + 1]
        BY <1>1, <1>2, <1>7 DEF Account
      <3> QED BY <3>1, FreeNone
    <2>2. Control' /\ Reported' = FALSE /\ InHand' = {}
      <3>1. CASE main.after = "reset"
        <4>1. main' = [main EXCEPT !.at = "reset"]
          BY <1>2, <1>7, <3>1
        <4>2. /\ main' \in Main /\ main'.at = "reset" /\ main'.op = "none" /\ main'.p = NONE
              /\ main'.after = "reset"
          BY <1>1, <1>3, <3>1, <4>1 DEF Main
        <4> QED BY <1>2, <1>3, <1>7, <3>1, <4>2 DEF Control, At, Locking, Removing, Reported, InHand
      <3>2. CASE main.after # "reset"
        BY <1>2, <1>3, <1>7, <3>2, ControlIdle
      <3> QED BY <3>1, <3>2
    <2>3. Leaving' = Leaving
      BY <1>2, <1>4, <2>2 DEF Leaving
    <2> QED BY <1>4, <1>5, <1>6, <2>1, <2>2, <2>3, AccountedKept DEF TschInv
  <1>8. CASE Elements(deq) # 0
    <2>1. deq \in Ring(D) /\ D \in Nat \ {0, 1}
      BY <1>1, Constants DEF Lists
    <2>2. Leaving # << >> /\ First(deq) = Head(Leaving)
      BY <1>4, <1>8, <2>1, FirstIs
    <2>3. /\ Account(Queues, Tail(Leaving), InHand, pkts \ {Head(Leaving)},
                     [x \in Packet |-> IF x \in {Head(Leaving)} THEN 0 ELSE tx[x]])
          /\ Head(Leaving) \in Packet
          /\ [x \in Packet |-> IF x \in {Head(Leaving)} THEN 0 ELSE tx[x]] = [tx EXCEPT ![Head(Leaving)] = 0]
      BY <1>1, <2>2, Constants, AccountTell
    <2>4. /\ pkts' = pkts \ {Head(Leaving)}
          /\ tx' = [x \in Packet |-> IF x \in {Head(Leaving)} THEN 0 ELSE tx[x]]
      BY <1>2, <1>8, <2>2 DEF FreePackets
    <2>5. main' = [main EXCEPT !.at = "scan", !.p = First(deq), !.rest = Neighbors]
      BY <1>2, <1>8
    <2>6. First(deq) \in Packet /\ First(deq) \in Nat /\ First(deq) # NONE
      BY <2>2, <2>3, Constants DEF Packet
    <2>7. /\ main' \in Main /\ main'.at = "scan" /\ main'.op = "none" /\ main'.p = First(deq)
          /\ main'.after = main.after
      BY <1>1, <1>3, <2>5, <2>6, NeighborsIs DEF Main
    <2>8. Reported' = TRUE /\ InHand' = {}
      BY <2>6, <2>7 DEF Reported, InHand, At
    <2>9. Leaving' = Tail(Leaving)
      BY <1>2, <1>4, <2>8 DEF Leaving
    <2>10. Control'
      BY <1>2, <1>3, <1>8, <2>6, <2>7 DEF Control, At, Locking, Removing
    <2>11. Accounted'
      BY <1>4, <1>6, <2>3, <2>4, <2>8, <2>9 DEF Accounted
    <2>12. FifoStep
      BY <1>1, <1>6, <2>2, <2>3, <2>4, <2>9, FifoTell
    <2> QED BY <1>5, <1>6, <2>10, <2>11, <2>12 DEF TschInv
  <1> QED BY <1>7, <1>8

\* tsch_queue_remove_nbr flushes a queue that is empty by then.
LEMMA FreeNbrStep ==
  ASSUME TschInv, FreeNbr
  PROVE  TschInv' /\ FifoStep
  <1> DEFINE a == main.a
  <1>1. /\ Control /\ Schedule /\ Lists /\ main \in Main
        /\ Account(Queues, Leaving, InHand, pkts, tx)
    BY DEF TschInv, Control, Accounted
  <1>2. /\ UNCHANGED <<list, deq, lock, assoc, armed, sched, link, cur, bak>>
        /\ main.at = "free_nbr" /\ main' = [main EXCEPT !.at = "scan"]
        /\ FreePackets(ToSet(Contents(nbr[a].ring)))
        /\ nbr' = [nbr EXCEPT ![a] = NewNbr]
    BY DEF FreeNbr, At, Go, schedVars
  <1>3. /\ a \in NbrAddr /\ ~OnList(a) /\ lock = "free" /\ main.op = "none"
        /\ main.after = "reset" => ~assoc
        /\ Reported => main.p \in Packet /\ Elements(deq) # 0 /\ First(deq) = main.p
    BY <1>1, <1>2, Constants DEF Control, At, Locking
  <1>4. /\ main' \in Main /\ main'.at = "scan" /\ main'.op = "none" /\ main'.p = main.p
        /\ main'.after = main.after
    BY <1>1, <1>2, <1>3 DEF Main
  <1>5. Reported' = Reported /\ InHand' = InHand
    BY <1>2, <1>4 DEF Reported, InHand, At
  <1>6. Leaving' = Leaving
    BY <1>2, <1>5 DEF Leaving
  <1>7. Contents(nbr[a].ring) = << >> /\ Elements(nbr[a].ring) = 0
    BY <1>1, <1>3, OffList DEF Lists
  <1>8. pkts' = pkts /\ tx' = tx
    <2>1. ToSet(Contents(nbr[a].ring)) = {}
      BY <1>7 DEF ToSet
    <2>2. FreePackets({}) /\ tx \in [Packet -> 0 .. R + 1]
      BY <1>1, <1>2, <2>1 DEF Account
    <2> QED BY <2>2, FreeNone
  <1>9. /\ nbr' \in [NbrAddr -> Nbr] /\ nbr'[a] = NewNbr
        /\ \A b \in NbrAddr : b # a => nbr'[b] = nbr[b]
    BY <1>1, <1>2, <1>3, NewNbrIs DEF Lists
  <1> HIDE DEF a
  <1>10. Queues' = Queues
    BY <1>7, <1>9, NewNbrIs DEF Queues
  <1>11. Lists'
    BY <1>1, <1>2, <1>9, NewNbrIs DEF Lists, OnList, IsEmpty
  <1>12. Schedule'
    BY <1>1, <1>2, ScheduleKept DEF Schedule
  <1>13. Control'
    BY <1>2, <1>3, <1>4, <1>5 DEF Control, At, Locking, Removing
  <1> QED BY <1>5, <1>6, <1>8, <1>10, <1>11, <1>12, <1>13, AccountedKept DEF TschInv

\* tsch_tx_process_pending removes the index of the packet it has reported.
LEMMA GotStep ==
  ASSUME TschInv, Got
  PROVE  TschInv' /\ FifoStep
  <1>1. Control /\ Schedule /\ Lists /\ main \in Main
    BY DEF TschInv, Control
  <1>2. /\ UNCHANGED <<list, nbr, pkts, tx, lock, assoc, armed, sched, link, cur, bak>>
        /\ main.at = "scan" /\ main.p # NONE /\ deq' = RingGet(deq)
        /\ main' = [main EXCEPT !.at = "report", !.p = NONE, !.a = NONE]
    BY DEF Got, At, schedVars
  <1>3. /\ Reported = TRUE /\ Elements(deq) # 0 /\ lock = "free" /\ main.op = "none"
        /\ main.after = "reset" => ~assoc
    BY <1>1, <1>2 DEF Control, At, Locking, Reported
  <1>4. /\ main' \in Main /\ main'.at = "report" /\ main'.op = "none" /\ main'.p = NONE
        /\ main'.after = main.after
    BY <1>1, <1>2, <1>3 DEF Main
  <1>5. Reported' = FALSE /\ InHand' = InHand
    BY <1>2, <1>4 DEF Reported, InHand, At
  <1>6. deq' \in Ring(D) /\ Contents(deq') = Tail(Contents(deq))
    BY <1>1, <1>2, <1>3, Constants, GetIs DEF Lists
  <1>7. Leaving' = Leaving
    BY <1>3, <1>5, <1>6 DEF Leaving
  <1>8. Queues' = Queues /\ Lists'
    BY <1>1, <1>2, <1>6 DEF Lists, OnList, IsEmpty, Queues
  <1>9. Schedule'
    BY <1>1, <1>2, ScheduleKept DEF Schedule
  <1>10. Control'
    BY <1>2, <1>3, <1>4, <1>5 DEF Control, At, Locking, Removing
  <1> QED BY <1>2, <1>5, <1>7, <1>8, <1>9, <1>10, AccountedKept DEF TschInv

\* A ring is emptied by moving both indexes to one place.
LEMMA RingOverwritten ==
  ASSUME NEW k, NEW r,
         r = [RingInit(TSCH_QUEUE_NUM_PER_NEIGHBOR) EXCEPT !.put = k, !.get = k]
  PROVE  r = [put |-> k, get |-> k, arr |-> [j \in 0 .. N - 1 |-> NONE]]
  BY DEF RingInit, N

\* Fields of a neighbour are overwritten.
LEMMA NbrOverwritten ==
  ASSUME NEW r0, NEW w0, NEW b0, NEW l, NEW s, NEW n,
         n = [ring |-> r0, win |-> w0, be |-> b0, links |-> l, src |-> s],
         NEW r, NEW w, NEW b, NEW m, m = [n EXCEPT !.ring = r, !.win = w, !.be = b]
  PROVE  m = [ring |-> r, win |-> w, be |-> b, links |-> l, src |-> s]
  OBVIOUS

\* tsch_queue_reset empties the queues of the neighbours on the list.
LEMMA FlushedIs ==
  ASSUME NEW n \in Nbr, NEW k, k = n.ring.put,
         NEW r, r = [RingInit(TSCH_QUEUE_NUM_PER_NEIGHBOR) EXCEPT !.put = k, !.get = k],
         NEW m, m = [n EXCEPT !.ring = r, !.win = 0, !.be = TSCH_MAC_MIN_BE]
  PROVE  /\ m \in Nbr /\ Contents(m.ring) = << >> /\ Elements(m.ring) = 0
         /\ m.links = n.links
  <1>1. k \in 0 .. N - 1 /\ N \in Nat \ {0, 1}
    <2>1. n.ring \in Ring(N) /\ N \in Nat \ {0, 1}
      BY Constants DEF Nbr
    <2> QED BY <2>1, RingIs
  <1>4. r = [put |-> k, get |-> k, arr |-> [j \in 0 .. N - 1 |-> NONE]]
    BY RingOverwritten
  <1>5. r \in Ring(N) /\ Contents(r) = << >> /\ Elements(r) = 0
    BY <1>1, <1>4, EmptyIs
  <1>6. /\ n = [ring |-> n.ring, win |-> n.win, be |-> n.be, links |-> n.links, src |-> n.src]
        /\ n.links \in 0 .. 255 /\ n.src \in BOOLEAN
    BY DEF Nbr
  <1>7. m = [ring |-> r, win |-> 0, be |-> TSCH_MAC_MIN_BE, links |-> n.links, src |-> n.src]
    BY <1>6, NbrOverwritten, Zenon
  <1>8. 0 \in 0 .. 2^TSCH_MAC_MAX_BE /\ TSCH_MAC_MIN_BE \in TSCH_MAC_MIN_BE .. TSCH_MAC_MAX_BE
    BY Constants
  <1>9. m \in Nbr
    BY <1>5, <1>6, <1>7, <1>8 DEF Nbr
  <1>10. m.ring = r /\ m.links = n.links
    BY <1>7, Zenon
  <1> QED BY <1>5, <1>9, <1>10

\* tsch_queue_reset finds no packet in hand and none that left its queue, so
\* that it frees every block.
LEMMA QueueResetStep ==
  ASSUME TschInv, QueueReset
  PROVE  TschInv' /\ FifoStep
  <1>1. /\ Control /\ Schedule /\ Lists /\ main \in Main
        /\ Account(Queues, Leaving, InHand, pkts, tx)
    BY DEF TschInv, Control, Accounted
  <1>2. /\ UNCHANGED <<list, deq, lock, assoc, armed, sched, link, cur, bak>>
        /\ main.at = "reset" /\ main' = [main EXCEPT !.at = "scan", !.rest = Neighbors]
        /\ FreePackets(UNION {ToSet(Contents(nbr[a].ring)) : a \in ToSet(list)})
    BY DEF QueueReset, At, schedVars
  <1>3. /\ main.p = NONE /\ main.op = "none" /\ lock = "free" /\ Elements(deq) = 0
        /\ main.after = "reset" /\ ~assoc
    BY <1>1, <1>2 DEF Control, At, Locking
  <1>4. /\ main' \in Main /\ main'.at = "scan" /\ main'.op = "none" /\ main'.p = NONE
        /\ main'.after = "reset"
    BY <1>1, <1>2, <1>3, NeighborsIs DEF Main
  <1>5. Reported = FALSE /\ Reported' = FALSE /\ InHand = {} /\ InHand' = {}
    BY <1>2, <1>3, <1>4 DEF Reported, InHand, At
  <1>6. Contents(deq) = << >>
    BY <1>1, <1>3, Constants, FirstIs DEF Lists
  <1>7. Leaving = << >> /\ Leaving' = << >>
    BY <1>2, <1>5, <1>6 DEF Leaving
  <1>8. nbr' \in [NbrAddr -> Nbr] /\ \A a \in NbrAddr : Contents(nbr'[a].ring) = << >>
                                       /\ Elements(nbr'[a].ring) = 0
    <2>1. nbr \in [NbrAddr -> Nbr] /\ \A a \in NbrAddr : ~OnList(a) => IsEmpty(a)
      BY <1>1 DEF Lists
    <2>2. /\ nbr' \in [NbrAddr -> {nbr'[a] : a \in NbrAddr}]
          /\ \A a \in NbrAddr :
               nbr'[a] = IF OnList(a)
                         THEN [nbr[a] EXCEPT !.ring = [RingInit(TSCH_QUEUE_NUM_PER_NEIGHBOR) EXCEPT
                                                   !.put = nbr[a].ring.put, !.get = nbr[a].ring.put],
                                             !.win = 0, !.be = TSCH_MAC_MIN_BE]
                         ELSE nbr[a]
      BY DEF QueueReset
    <2>3. ASSUME NEW a \in NbrAddr
          PROVE  nbr'[a] \in Nbr /\ Contents(nbr'[a].ring) = << >> /\ Elements(nbr'[a].ring) = 0
      <3>1. CASE OnList(a)
        <4> DEFINE n == nbr[a]
                   m == nbr'[a]
        <4>1. n \in Nbr
          BY <2>1
        <4> DEFINE k == n.ring.put
                   r == [RingInit(TSCH_QUEUE_NUM_PER_NEIGHBOR) EXCEPT !.put = k, !.get = k]
        <4>2. m = [n EXCEPT !.ring = r, !.win = 0, !.be = TSCH_MAC_MIN_BE]
          BY <2>2, <3>1
        <4> HIDE DEF n, m
        <4>3. m \in Nbr /\ Contents(m.ring) = << >> /\ Elements(m.ring) = 0
          <5>1. k = n.ring.put
            OBVIOUS
          <5> HIDE DEF k
          <5>2. r = [RingInit(TSCH_QUEUE_NUM_PER_NEIGHBOR) EXCEPT !.put = k, !.get = k]
            OBVIOUS
          <5> HIDE DEF r
          <5> QED BY <4>1, <4>2, <5>1, <5>2, FlushedIs
        <4> QED BY <4>3 DEF m
      <3>2. CASE ~OnList(a)
        <4>1. nbr'[a] = nbr[a] /\ nbr[a] \in Nbr
          BY <2>1, <2>2, <3>2
        <4> QED BY <1>1, <2>1, <3>2, <4>1, OffList
      <3> QED BY <3>1, <3>2
    <2>4. nbr' \in [NbrAddr -> Nbr]
      BY <2>2, <2>3
    <2> QED BY <2>3, <2>4
  <1> DEFINE e == [a \in NbrAddr |-> << >>]
  <1>9. Queues' = e
    BY <1>8 DEF Queues
  <1>10. Lists'
    BY <1>1, <1>2, <1>8 DEF Lists, OnList, IsEmpty
  <1> DEFINE u == [x \in Packet |-> IF x \in pkts THEN 0 ELSE tx[x]]
  <1>11. /\ Account(e, << >>, {}, {}, u) /\ u = [x \in Packet |-> 0]
         /\ pkts = UNION {ToSet(Queues[a]) : a \in NbrAddr}
    <2>1. Account(Queues, << >>, {}, pkts, tx) /\ R \in Nat
      BY <1>1, <1>5, <1>7, Constants
    <2>2. e = [a \in NbrAddr |-> << >>] /\ u = [x \in Packet |-> IF x \in pkts THEN 0 ELSE tx[x]]
      OBVIOUS
    <2> HIDE DEF e, u
    <2> QED BY <2>1, <2>2, AccountFlush
  <1>12. UNION {ToSet(Contents(nbr[a].ring)) : a \in ToSet(list)} = pkts
    <2>1. \A a \in NbrAddr : a \notin ToSet(list) => ToSet(Queues[a]) = {}
      BY <1>1, OffList DEF Lists, OnList, Queues, ToSet
    <2>2. ToSet(list) \subseteq NbrAddr
      BY <1>1, ToSetIs DEF Lists
    <2>3. \A a \in NbrAddr : Queues[a] = Contents(nbr[a].ring)
      BY DEF Queues
    <2>4. UNION {ToSet(Queues[a]) : a \in NbrAddr} = UNION {ToSet(Contents(nbr[a].ring)) : a \in ToSet(list)}
      BY <2>1, <2>2, <2>3
    <2> QED BY <1>11, <2>4
  <1>13. pkts' = {} /\ tx' = u
    BY <1>2, <1>12 DEF FreePackets
  <1> HIDE DEF u
  <1>14. Accounted'
    BY <1>5, <1>7, <1>9, <1>11, <1>13 DEF Accounted
  <1>15. FifoStep
    BY <1>1, <1>7, <1>9, <1>10, <1>11, <1>13, FifoFlush
  <1>16. Schedule'
    BY <1>1, <1>2, ScheduleKept DEF Schedule
  <1>17. Control'
    BY <1>2, <1>3, <1>4, <1>5 DEF Control, At, Locking, Removing
  <1> QED BY <1>10, <1>14, <1>15, <1>16, <1>17 DEF TschInv

\* The links to a neighbour are finitely many.
LEMMA TxLinksFinite ==
  ASSUME Schedule, NEW a
  PROVE  IsFiniteSet(TxLinks(a)) /\ Cardinality(TxLinks(a)) \in Nat
  <1>1. IsFiniteSet(Block)
    BY TschAssumption, FS_Interval DEF Block
  <1>2. TxLinks(a) \subseteq Block
    BY DEF TxLinks, Schedule
  <1> QED BY <1>1, <1>2, FS_Subset, FS_CardinalityType

\* What is counted, up or down, is a uint8_t.
LEMMA CountedByte ==
  ASSUME NEW i \in Int
  PROVE  i % 256 \in Byte
  <1>1. i % 256 \in 0 .. 255
    OBVIOUS
  <1> QED BY <1>1 DEF Byte

\* The neighbours after the links of the old schedule were removed and that of
\* the minimal schedule added.
Recount(n) ==
  [b \in NbrAddr |->
     [n[b] EXCEPT !.links =
        (@ + (IF b = Broadcast THEN 257 ELSE 256) - Cardinality(TxLinks(b))) % 256]]

\* What the new schedule leaves of a neighbour.
LEMMA RecountIs ==
  ASSUME Schedule, NEW n \in [NbrAddr -> Nbr]
  PROVE  /\ Recount(n) \in [NbrAddr -> Nbr]
         /\ \A b \in NbrAddr : /\ Recount(n)[b].ring = n[b].ring
                               /\ Recount(n)[b].links =
                                    (n[b].links + (IF b = Broadcast THEN 257 ELSE 256)
                                       - Cardinality(TxLinks(b))) % 256
  <1>1. ASSUME NEW b \in NbrAddr
        PROVE  /\ Recount(n)[b] \in Nbr /\ Recount(n)[b].ring = n[b].ring
               /\ Recount(n)[b].links =
                    (n[b].links + (IF b = Broadcast THEN 257 ELSE 256)
                       - Cardinality(TxLinks(b))) % 256
    <2> DEFINE m == n[b]
               c == Cardinality(TxLinks(b))
               y == IF b = Broadcast THEN 257 ELSE 256
    <2>1. m \in Nbr /\ c \in Nat /\ y \in {256, 257}
      BY TxLinksFinite
    <2>2. m.links \in 0 .. 255
      BY <2>1 DEF Nbr
    <2> DEFINE v == (m.links + y - c) % 256
    <2>3. v \in Byte
      <3> HIDE DEF m, c, y
      <3> DEFINE i == m.links + y - c
      <3>1. i \in Int
        BY <2>1, <2>2
      <3> HIDE DEF i
      <3>2. i % 256 \in Byte
        BY <3>1, CountedByte
      <3> QED BY <3>2 DEF i
    <2>4. Recount(n)[b] = [m EXCEPT !.links = v]
      BY DEF Recount
    <2> DEFINE r == Recount(n)[b]
    <2>5. r.links = v /\ r.ring = m.ring /\ r \in Nbr
      <3> HIDE DEF m, v
      <3>1. ASSUME NEW w \in Byte, NEW k \in Nbr
            PROVE  /\ [k EXCEPT !.links = w] \in Nbr /\ [k EXCEPT !.links = w].ring = k.ring
                   /\ [k EXCEPT !.links = w].links = w
        BY DEF Nbr, Byte
      <3>2. r = [m EXCEPT !.links = v]
        BY <2>4
      <3> HIDE DEF r
      <3> QED BY <2>1, <2>3, <3>1, <3>2
    <2> QED BY <2>5
  <1>2. Recount(n) \in [NbrAddr -> Nbr]
    <2>1. Recount(n) = [b \in NbrAddr |-> Recount(n)[b]]
      BY DEF Recount
    <2> QED BY <1>1, <2>1
  <1> QED BY <1>1, <1>2

\* tsch_associate: a new schedule, and a neighbour more on the list at most.
LEMMA AssociateStep ==
  ASSUME TschInv, NEW a \in Addr, Associate(a)
  PROVE  TschInv' /\ FifoStep
  <1>1. Control /\ Schedule /\ Lists
    BY DEF TschInv
  <1> DEFINE fresh == IF OnList(a) THEN nbr ELSE [nbr EXCEPT ![a] = NewNbr]
             count == Recount(fresh)
  <1>2. /\ UNCHANGED <<pkts, tx, deq, lock, armed, bak, main>> /\ main.at = "idle" /\ ~assoc
        /\ sched' = {1} /\ link' = [link EXCEPT ![1] = MinimalLink] /\ cur' = NONE
    BY DEF Associate, At
  <1>3. \/ /\ OnList(a) \/ Len(list) < TSCH_QUEUE_MAX_NEIGHBOR_QUEUES
           /\ list' = IF OnList(a) THEN list ELSE Append(list, a)
           /\ nbr' = TimeSource(count, a) /\ assoc' = TRUE
        \/ /\ ~OnList(a)
           /\ nbr' = [b \in NbrAddr |-> IF OnList(b) THEN count[b] ELSE nbr[b]]
           /\ UNCHANGED <<list, assoc>>
    BY DEF Associate, Recount
  <1>4. a \in NbrAddr /\ nbr \in [NbrAddr -> Nbr]
    BY <1>1, Constants DEF Lists
  <1>5. /\ fresh \in [NbrAddr -> Nbr]
        /\ \A b \in NbrAddr : b # a \/ OnList(a) => fresh[b] = nbr[b]
        /\ ~OnList(a) => fresh[a] = NewNbr
    BY <1>4, NewNbrIs
  <1> HIDE DEF fresh
  <1>6. /\ count \in [NbrAddr -> Nbr]
        /\ \A b \in NbrAddr : count[b].ring = fresh[b].ring
    BY <1>1, <1>5, RecountIs
  <1>7. \A b \in NbrAddr : /\ Contents(fresh[b].ring) = Contents(nbr[b].ring)
                           /\ Elements(fresh[b].ring) = 0 <=> IsEmpty(b)
    BY <1>1, <1>5, OffList, NewNbrIs DEF Lists, IsEmpty
  <1> HIDE DEF count
  <1>8. /\ nbr' \in [NbrAddr -> Nbr]
        /\ \A b \in NbrAddr : nbr'[b].ring = fresh[b].ring \/ nbr'[b].ring = nbr[b].ring
    <2>1. CASE nbr' = TimeSource(count, a)
      BY <1>6, <2>1, TimeSourceIs
    <2>2. CASE nbr' = [b \in NbrAddr |-> IF OnList(b) THEN count[b] ELSE nbr[b]]
      BY <1>4, <1>6, <2>2
    <2> QED BY <1>3, <2>1, <2>2
  <1>9. \A b \in NbrAddr : /\ Contents(nbr'[b].ring) = Contents(nbr[b].ring)
                           /\ Elements(nbr'[b].ring) = 0 <=> IsEmpty(b)
    BY <1>7, <1>8 DEF IsEmpty
  <1>10. Queues' = Queues
    BY <1>9 DEF Queues
  <1>11. /\ list' \in Seq(NbrAddr) /\ IsInjective(list')
         /\ Len(list') <= TSCH_QUEUE_MAX_NEIGHBOR_QUEUES /\ ToSet(list) \subseteq ToSet(list')
    <2>1. CASE list' = list
      BY <1>1, <2>1 DEF Lists
    <2>2. CASE list' = Append(list, a) /\ ~OnList(a) /\ Len(list) < TSCH_QUEUE_MAX_NEIGHBOR_QUEUES
      <3>1. list \in Seq(NbrAddr) /\ IsInjective(list)
        BY <1>1 DEF Lists
      <3>2. /\ list' \in Seq(NbrAddr) /\ IsInjective(list') /\ ToSet(list') = ToSet(list) \cup {a}
        BY <1>4, <2>2, <3>1, AppendKeeps DEF OnList
      <3>3. Len(list') = Len(list) + 1 /\ Len(list) \in Nat
        BY <1>4, <2>2, <3>1
      <3> QED BY <2>2, <3>2, <3>3, TschAssumption
    <2> QED BY <1>3, <2>1, <2>2
  <1>12. Lists'
    BY <1>1, <1>2, <1>8, <1>9, <1>11 DEF Lists, OnList, IsEmpty
  <1>13. Schedule'
    <2>1. 1 \in Block
      BY TschAssumption DEF Block
    <2>2. MinimalLink \in Link
      BY Constants DEF MinimalLink, Link
    <2> QED BY <1>1, <1>2, <1>3, <2>1, <2>2 DEF Schedule, LinkScheduled
  <1>14. main' = Idle /\ lock' = "free" /\ Reported = FALSE /\ InHand = {}
    BY <1>1, <1>2, IdleIs DEF At
  <1>15. Control' /\ InHand' = {} /\ Reported' = FALSE
    BY <1>14, ControlIdle
  <1>16. Leaving' = Leaving
    BY <1>2, <1>14, <1>15 DEF Leaving
  <1> QED BY <1>2, <1>10, <1>12, <1>13, <1>14, <1>15, <1>16, AccountedKept DEF TschInv

-----------------------------------------------------------------------------
(* Every step, and the theorems.                                           *)

\* The initial states.
LEMMA Inits ==
  ASSUME Init
  PROVE  TschInv /\ Fifo!FifoInit
  <1>1. /\ list = <<Eb, Broadcast>> /\ lock = "free" /\ assoc = TRUE /\ armed = TRUE
        /\ nbr = [a \in NbrAddr |-> [NewNbr EXCEPT !.links = IF a = Broadcast THEN 1 ELSE 0]]
        /\ pkts = {} /\ tx = [p \in Packet |-> 0] /\ deq = RingInit(D)
        /\ sched = {1} /\ link = [b \in Block |-> MinimalLink] /\ cur = 1 /\ bak = NONE
        /\ main = Idle
    BY DEF Init, D
  <1>2. /\ nbr \in [NbrAddr -> Nbr]
        /\ \A a \in NbrAddr : Contents(nbr[a].ring) = << >> /\ Elements(nbr[a].ring) = 0
    <2>1. ASSUME NEW v \in Byte
          PROVE  /\ [NewNbr EXCEPT !.links = v] \in Nbr
                 /\ [NewNbr EXCEPT !.links = v].ring = NewNbr.ring
      BY NewNbrIs DEF Nbr, Byte
    <2>2. 0 \in Byte /\ 1 \in Byte
      BY DEF Byte
    <2> QED BY <1>1, <2>1, <2>2, NewNbrIs
  <1>3. deq \in Ring(D) /\ Contents(deq) = << >> /\ Elements(deq) = 0
    <2>1. deq = [put |-> 0, get |-> 0, arr |-> [i \in 0 .. D - 1 |-> NONE]]
      BY <1>1 DEF RingInit
    <2>2. D \in Nat \ {0, 1} /\ 0 \in 0 .. D - 1
      BY Constants
    <2> QED BY <2>1, <2>2, EmptyIs
  <1>4. Lists
    <2>1. list \in Seq(NbrAddr) /\ Len(list) = 2 /\ list[1] = Eb /\ list[2] = Broadcast
      BY <1>1, Constants
    <2>2. IsInjective(list)
      BY <2>1, Constants DEF IsInjective
    <2>3. OnList(Eb) /\ OnList(Broadcast)
      BY <2>1, ToSetIs DEF OnList
    <2>4. 2 <= TSCH_QUEUE_MAX_NEIGHBOR_QUEUES
      BY TschAssumption
    <2> QED BY <1>2, <1>3, <2>1, <2>2, <2>3, <2>4 DEF Lists, IsEmpty
  <1>5. Schedule
    <2>1. 1 \in Block
      BY TschAssumption DEF Block
    <2>2. MinimalLink \in Link
      BY Constants DEF MinimalLink, Link
    <2> QED BY <1>1, <2>1, <2>2 DEF Schedule, LinkScheduled
  <1>6. Control /\ InHand = {} /\ Reported = FALSE
    <2>1. Idle \in Main
      BY DEF Idle, Main
    <2>2. /\ main.at = "idle" /\ main.op = "none" /\ main.p = NONE /\ main.after = "idle"
      BY <1>1 DEF Idle
    <2> QED BY <1>1, <2>1, <2>2 DEF Control, At, Locking, Reported, InHand
  <1>7. Leaving = << >> /\ Queues = [a \in NbrAddr |-> << >>]
    BY <1>2, <1>3, <1>6 DEF Leaving, Queues
  <1>8. Accounted
    <2> DEFINE z == << >>
               t == [p \in Packet |-> 0]
               e == [a \in NbrAddr |-> z]
    <2>1. z \in Seq(Packet) /\ IsInjective(z) /\ ToSet(z) = {}
      BY DEF IsInjective, ToSet
    <2> HIDE DEF z
    <2>2. e \in [NbrAddr -> Seq(Packet)] /\ (\A a \in NbrAddr : e[a] = z)
          /\ t \in [Packet -> 0 .. R + 1] /\ \A p \in Packet : t[p] = 0
      BY <2>1, Constants
    <2> HIDE DEF e, t
    <2>3. Account(e, z, {}, {}, t)
      BY <2>1, <2>2 DEF Account
    <2> QED BY <1>1, <1>6, <1>7, <2>3 DEF Accounted, e, t, z
  <1>9. Fifo!FifoInit
    BY <1>1, <1>4, <1>7, WaitingIs DEF Fifo!FifoInit
  <1> QED BY <1>4, <1>5, <1>6, <1>8, <1>9 DEF TschInv

\* Every step of either context keeps the invariant, and is a step of the
\* service or none that it sees.
LEMMA Step ==
  ASSUME TschInv, [Next]_vars
  PROVE  TschInv' /\ FifoStep
  <1>1. CASE UNCHANGED vars
    <2>1. TschInv' = TschInv /\ Lists' = Lists
      BY <1>1 DEF vars, TschInv, Lists, Schedule, Control, Accounted, Queues, Leaving, InHand,
                  Reported, OnList, IsEmpty, LinkScheduled, At, Locking, Locked, Removing
    <2>2. Queues' = Queues /\ Leaving' = Leaving /\ tx' = tx
      BY <1>1 DEF vars, Queues, Leaving, Reported
    <2> QED BY <2>1, <2>2, FifoStutter DEF TschInv
  <1>2. CASE Interrupt
    BY <1>2, SlotStep
  <1>3. CASE MainStep
    BY <1>3, RequestStep, TakeStep, AddNbrStep, RemoveNbrStep, AddLinkStep, RemoveLinkStep,
       FillStep, FillFailsStep, PutStep, LinkChangedStep, CountStep, SetTimeSourceStep,
       RxPendingStep, ReportStep, ScanStep, FreeNbrStep, GotStep, QueueResetStep, LeaveStep
       DEF MainStep
  <1>4. CASE \E a \in Addr \cup {Broadcast} : Send(a)
    BY <1>4, SendStep
  <1>5. CASE SendEb
    BY <1>5, SendEbStep
  <1>6. CASE \E l \in Kinds : BeginAddLink(l)
    BY <1>6, BeginAddLinkStep
  <1>7. CASE \E b \in Block : BeginRemoveLink(b)
    BY <1>7, BeginRemoveLinkStep
  <1>8. CASE \E a \in Addr \cup {NONE} : NewTimeSource(a)
    BY <1>8, NewTimeSourceStep
  <1>9. CASE PendingEvent \/ ProcessLeave
    BY <1>9, EventStep
  <1>10. CASE \E a \in Addr : Associate(a)
    BY <1>10, AssociateStep
  <1>11. CASE ProcessJoin
    BY <1>11, ProcessJoinStep
  <1> QED BY <1>1, <1>2, <1>3, <1>4, <1>5, <1>6, <1>7, <1>8, <1>9, <1>10, <1>11 DEF Next

\* The inductive invariant: where the packets are, what the main context holds
\* at each of its steps, and who has the lock.
THEOREM TschInvariant == Spec => []TschInv
  <1>1. Init => TschInv
    BY Inits
  <1>2. TschInv /\ [Next]_vars => TschInv'
    BY Step
  <1> QED BY <1>1, <1>2, PTL DEF Spec

\* The variables hold queues, packets, links and steps of the main context.
THEOREM TypeCorrect == Spec => []TypeOK
  <1>1. TschInv => TypeOK
    <2> SUFFICES ASSUME TschInv PROVE TypeOK
      OBVIOUS
    <2>1. Lists /\ Schedule /\ Control /\ Account(Queues, Leaving, InHand, pkts, tx)
      BY DEF TschInv, Accounted
    <2>2. IsInjective(list) /\ ToSet(list) \subseteq NbrAddr /\ Len(list) <= TSCH_QUEUE_MAX_NEIGHBOR_QUEUES
      BY <2>1, ToSetIs DEF Lists
    <2>3. \A a \in NbrAddr : /\ nbr[a].win \in 0 .. 2^TSCH_MAC_MAX_BE
                             /\ nbr[a].be \in TSCH_MAC_MIN_BE .. TSCH_MAC_MAX_BE
                             /\ nbr[a].links \in 0 .. 255 /\ nbr[a].src \in BOOLEAN
      BY <2>1 DEF Lists, Nbr
    <2>4. pkts \subseteq Packet /\ tx \in [Packet -> 0 .. TSCH_MAC_MAX_FRAME_RETRIES + 1]
      BY <2>1 DEF Account, R
    <2>5. lock \in {"free", "requested", "held"}
      BY <2>1 DEF Control
    <2> QED BY <2>1, <2>2, <2>3, <2>4, <2>5 DEF TypeOK, Schedule
  <1> QED BY <1>1, TschInvariant, PTL

\* The slot operation never starts on a link that tsch_schedule_remove_link
\* freed while it was current.
THEOREM NextLinkScheduled == Spec => []LinkScheduled
  <1>1. TschInv => LinkScheduled
    BY DEF TschInv, Schedule
  <1> QED BY <1>1, TschInvariant, PTL

\* Every allocated block of packet_memb is in exactly one place: none is lost,
\* and none is freed while tsch_queue or the slot operation can reach it.
THEOREM PacketsAreAccounted == Spec => []PacketsAccounted
  <1>1. TschInv => PacketsAccounted
    <2> SUFFICES ASSUME TschInv PROVE PacketsAccounted
      OBVIOUS
    <2>1. Lists /\ Control /\ Account(Queues, Leaving, InHand, pkts, tx)
      BY DEF TschInv, Accounted
    <2>2. \A a \in NbrAddr : Queues[a] # << >> => OnList(a)
      BY <2>1, OffList DEF Lists, Queues
    <2>3. Queues = [a \in NbrAddr |-> Contents(nbr[a].ring)]
      BY DEF Queues
    <2>4. InHand = IF At("put") THEN {main.p} ELSE {}
      BY DEF InHand
    <2> QED BY <2>1, <2>2, <2>3, <2>4 DEF PacketsAccounted, Account
  <1> QED BY <1>1, TschInvariant, PTL

\* The queues, ring buffers, interrupts and locks implement the service that
\* tsch_queue promises to its users: one queue per neighbour, in order, tried
\* at most TSCH_MAC_MAX_FRAME_RETRIES + 1 times and reported exactly once.
THEOREM ServiceImplemented == Spec => ImplementsFifo
  <1>1. Init => Fifo!FifoInit
    BY Inits
  <1>2. TschInv /\ [Next]_vars => [Fifo!FifoNext]_(Fifo!fifoVars)
    BY Step DEF FifoStep
  <1>3. Spec => Fifo!FifoSpec
    BY <1>1, <1>2, TschInvariant, PTL DEF Spec, Fifo!FifoSpec
  <1> QED BY <1>3 DEF ImplementsFifo

-----------------------------------------------------------------------------
(* The numbers of links.                                                   *)

\* neighbor_memb has room for every address, and tx_links_count, which is a
\* uint8_t, for every link.
Room ==
  /\ IsFiniteSet(NbrAddr) /\ Cardinality(NbrAddr) <= TSCH_QUEUE_MAX_NEIGHBOR_QUEUES
  /\ TSCH_SCHEDULE_MAX_LINKS <= 255

\* An operation has changed the schedule and not yet tx_links_count.
Counting ==
  \/ main.at \in {"added", "removed", "count", "uncount"}
  \/ Locking /\ main.op = "add_nbr" /\ main.then \in {"count", "uncount"}

\* Outside of these operations no link is uncounted or counted too much.
LEMMA NotCounting ==
  /\ ~Counting => \A a \in NbrAddr : ~Uncounted(a) /\ ~Overcounted(a)
  /\ ~Counting' => \A a \in NbrAddr : ~Uncounted(a)' /\ ~Overcounted(a)'
  BY DEF Counting, Uncounted, Overcounted, At, Locking

\* What is counted is a number.
LEMMA LinkCountNat ==
  ASSUME nbr \in [NbrAddr -> Nbr], NEW a \in NbrAddr
  PROVE  LinkCount(a) \in Nat
  <1>1. nbr[a] \in Nbr
    OBVIOUS
  <1>2. nbr[a].links \in 0 .. 255
    BY <1>1 DEF Nbr
  <1> QED BY <1>2 DEF LinkCount

\* A step outside of these operations.
LEMMA CountKept ==
  ASSUME CountInv, ~Counting, ~Counting', sched' = sched, link' = link,
         \A a \in NbrAddr : LinkCount(a)' = LinkCount(a)
  PROVE  CountInv'
  <1>1. \A a \in NbrAddr : ~Uncounted(a) /\ ~Overcounted(a) /\ ~Uncounted(a)' /\ ~Overcounted(a)'
    BY NotCounting
  <1>2. \A a \in NbrAddr : TxLinks(a)' = TxLinks(a)
    BY DEF TxLinks
  <1>3. ~(main'.at \in {"count", "uncount"})
    BY DEF Counting
  <1> QED BY <1>1, <1>2, <1>3 DEF CountInv

\* A step that goes on counting the same.
LEMMA CountMoves ==
  ASSUME CountInv, sched' = sched, link' = link,
         \A a \in NbrAddr : /\ LinkCount(a)' = LinkCount(a)
                            /\ Uncounted(a)' <=> Uncounted(a)
                            /\ Overcounted(a)' <=> Overcounted(a),
         main'.at \in {"count", "uncount"} => OnList(main.a)'
  PROVE  CountInv'
  <1>1. \A a \in NbrAddr : TxLinks(a)' = TxLinks(a)
    BY DEF TxLinks
  <1>2. \A a \in NbrAddr :
          /\ (IF Uncounted(a)' THEN 1 ELSE 0) = IF Uncounted(a) THEN 1 ELSE 0
          /\ (IF Overcounted(a)' THEN 1 ELSE 0) = IF Overcounted(a) THEN 1 ELSE 0
    OBVIOUS
  <1> QED BY <1>1, <1>2 DEF CountInv, OnList

\* The steps of an operation that has not changed the schedule, or has
\* finished with it.
LEMMA QuietCounts ==
  ASSUME TschInv, CountInv,
         \/ Fill \/ FillFails \/ Put \/ SetTimeSource \/ RxPending \/ Report \/ Scan
         \/ Got \/ Leave \/ SendEb \/ PendingEvent \/ ProcessLeave \/ ProcessJoin
         \/ \E a \in Addr \cup {Broadcast} : Send(a)
         \/ \E a \in Addr \cup {NONE} : NewTimeSource(a)
         \/ \E l \in Kinds : BeginAddLink(l)
         \/ \E b \in Block : BeginRemoveLink(b)
  PROVE  CountInv'
  <1>1. Lists /\ Control /\ main \in Main
    BY DEF TschInv, Control
  <1>2. UNCHANGED <<list, sched, link>>
    BY DEF Fill, FillFails, Put, SetTimeSource, RxPending, Report, Scan, Got, Leave, SendEb,
       PendingEvent, ProcessLeave, ProcessJoin, Send, NewTimeSource, BeginAddLink,
       BeginRemoveLink, schedVars
  <1>3. /\ ~Counting
        /\ main.at \notin {"request", "take", "critical"}
        /\ main.op = "none"
    <2>1. main.at \in {"idle", "fill", "put", "source", "rx", "report", "scan"}
      BY DEF Fill, FillFails, Put, SetTimeSource, RxPending, Report, Scan, Got, Leave, SendEb,
         PendingEvent, ProcessLeave, ProcessJoin, Send, NewTimeSource, BeginAddLink,
         BeginRemoveLink, At
    <2> QED BY <1>1, <2>1 DEF Counting, Control, Locking
  <1>4. ~Counting'
    <2>1. CASE FillFails \/ Put \/ SetTimeSource \/ Leave
      BY <2>1 DEF FillFails, Put, SetTimeSource, Leave, Done, Idle, Counting, Locking
    <2>2. CASE Fill \/ RxPending \/ Got \/ SendEb \/ PendingEvent \/ ProcessLeave
      <3>1. main'.at \in {"put", "report", "fill", "rx"}
        BY <1>1, <2>2 DEF Fill, RxPending, Got, SendEb, PendingEvent, ProcessLeave, Go, Main
      <3> QED BY <3>1 DEF Counting, Locking
    <2>3. CASE Report
      <3>1. main'.at \in {"reset", "idle", "scan"}
        <4>1. \/ main' = [main EXCEPT !.at = "reset"]
              \/ main' = Idle
              \/ main' = [main EXCEPT !.at = "scan", !.p = First(deq), !.rest = Neighbors]
          BY <2>3 DEF Report
        <4>2. Idle.at = "idle"
          BY DEF Idle
        <4>3. [main EXCEPT !.at = "reset"].at = "reset"
          BY <1>1 DEF Main
        <4>4. [main EXCEPT !.at = "scan", !.p = First(deq), !.rest = Neighbors].at = "scan"
          BY <1>1 DEF Main
        <4> QED BY <4>1, <4>2, <4>3, <4>4
      <3> QED BY <3>1 DEF Counting, Locking
    <2>4. CASE ProcessJoin
      <3>1. main' = main
        BY <2>4 DEF ProcessJoin
      <3> QED BY <1>3, <3>1 DEF Counting, Locking
    <2>5. CASE Scan
      <3>1. \/ main'.at = "scan"
            \/ main'.op = "remove_nbr" /\ main'.at = "request"
        BY <1>1, <2>5 DEF Scan, At, LockFor, Main
      <3> QED BY <3>1 DEF Counting, Locking
    <2>6. CASE \E a \in Addr \cup {Broadcast} : Send(a)
      <3>1. main'.at = "fill" \/ (main'.at = "request" /\ main'.then = "fill")
        BY <1>1, <2>6 DEF Send, WithNbr, LockFor, Main
      <3> QED BY <3>1 DEF Counting, Locking
    <2>7. CASE \E a \in Addr \cup {NONE} : NewTimeSource(a)
      <3>1. main'.at = "source" \/ (main'.at = "request" /\ main'.then = "source")
        BY <1>1, <2>7 DEF NewTimeSource, WithNbr, LockFor, Main
      <3> QED BY <3>1 DEF Counting, Locking
    <2>8. CASE (\E l \in Kinds : BeginAddLink(l)) \/ \E b \in Block : BeginRemoveLink(b)
      <3>1. main'.at = "request" /\ main'.then \in {"added", "removed"}
        BY <1>1, <2>8 DEF BeginAddLink, BeginRemoveLink, LockFor, Main
      <3> QED BY <3>1 DEF Counting, Locking
    <2> QED BY <2>1, <2>2, <2>3, <2>4, <2>5, <2>6, <2>7, <2>8
  <1>5. \A a \in NbrAddr : nbr'[a].links = nbr[a].links
    <2>1. CASE nbr' = nbr
      BY <2>1
    <2>2. CASE Fill \/ Put
      <3>1. PICK r : nbr' = [nbr EXCEPT ![main.a].ring = r] \/ nbr' = nbr
        BY <2>2 DEF Fill, Put
      <3>2. nbr \in [NbrAddr -> Nbr]
        BY <1>1 DEF Lists
      <3>3. \A a \in NbrAddr : [nbr[a] EXCEPT !.ring = r].links = nbr[a].links
        BY <3>2 DEF Nbr
      <3> QED BY <3>1, <3>2, <3>3
    <2>3. CASE SetTimeSource \/ Leave
      <3>1. nbr' = nbr \/ \E a : nbr' = TimeSource(nbr, a)
        BY <2>3 DEF SetTimeSource, Leave
      <3> QED BY <1>1, <3>1, TimeSourceIs DEF Lists
    <2> QED BY <2>1, <2>2, <2>3
        DEF FillFails, RxPending, Report, Scan, Got, SendEb,
            PendingEvent, ProcessLeave, ProcessJoin, Send, NewTimeSource, BeginAddLink,
            BeginRemoveLink
  <1>6. \A a \in NbrAddr : LinkCount(a)' = LinkCount(a)
    BY <1>2, <1>5 DEF LinkCount, OnList
  <1> QED BY <1>2, <1>3, <1>4, <1>6, CountKept

\* tsch_get_lock, and its release by tsch_queue_add_nbr and
\* tsch_queue_remove_nbr: room is found for a neighbour that is to be counted,
\* and one that goes has no link.
LEMMA LockCounts ==
  ASSUME TschInv, CountInv, Room, Request \/ Take \/ AddNbr \/ RemoveNbr
  PROVE  CountInv'
  <1>1. Lists /\ Control /\ main \in Main
    BY DEF TschInv, Control
  <1>2. UNCHANGED <<sched, link>>
    BY DEF Request, Take, AddNbr, RemoveNbr, schedVars
  <1>3. CASE Request \/ Take
    <2>1. /\ main'.at \in {"take", "critical"} /\ main.at \in {"request", "take"}
          /\ main'.op = main.op /\ main'.then = main.then /\ main'.a = main.a
          /\ UNCHANGED <<list, nbr>>
      BY <1>1, <1>3 DEF Request, Take, Go, At, Main
    <2>2. \A a \in NbrAddr : LinkCount(a)' = LinkCount(a)
      BY <2>1 DEF LinkCount, OnList
    <2>3. ASSUME NEW a \in NbrAddr
          PROVE  (Uncounted(a)' <=> Uncounted(a)) /\ (Overcounted(a)' <=> Overcounted(a))
      BY <2>1 DEF Uncounted, Overcounted, Locking, At
    <2> QED BY <1>2, <2>1, <2>2, <2>3, CountMoves
  <1>4. CASE AddNbr
    <2>1. /\ main.at = "critical" /\ main.op = "add_nbr" /\ Release(main.then)
          /\ IF Len(list) < TSCH_QUEUE_MAX_NEIGHBOR_QUEUES
             THEN list' = Append(list, main.a) /\ nbr' = [nbr EXCEPT ![main.a] = NewNbr]
             ELSE UNCHANGED <<list, nbr>>
      BY <1>4 DEF AddNbr, At
    <2>2. /\ main.a \in NbrAddr /\ ~OnList(main.a)
          /\ main.then \in {"fill", "count", "uncount", "source"}
      BY <1>1, <2>1 DEF Control, At, Locking, Locked
    <2>3. list \in Seq(NbrAddr) /\ IsInjective(list) /\ nbr \in [NbrAddr -> Nbr]
      BY <1>1 DEF Lists
    <2>4. Len(list) < TSCH_QUEUE_MAX_NEIGHBOR_QUEUES
      <3>1. Len(list) = Cardinality(ToSet(list)) /\ ToSet(list) \subseteq NbrAddr
        BY <2>3, InjectiveLen, ToSetIs
      <3>2. ToSet(list) # NbrAddr
        BY <2>2 DEF OnList
      <3>3. /\ Cardinality(ToSet(list)) <= Cardinality(NbrAddr)
            /\ Cardinality(NbrAddr) # Cardinality(ToSet(list))
        BY <3>1, <3>2, FS_Subset DEF Room
      <3>4. Cardinality(NbrAddr) \in Nat /\ Cardinality(ToSet(list)) \in Nat
        BY <2>3, FS_CardinalityType, InjectiveLen DEF Room
      <3> QED BY <3>1, <3>3, <3>4, TschAssumption DEF Room
    <2>5. /\ list' = Append(list, main.a) /\ nbr' = [nbr EXCEPT ![main.a] = NewNbr]
          /\ ToSet(list') = ToSet(list) \cup {main.a}
      <3>1. list' = Append(list, main.a) /\ nbr' = [nbr EXCEPT ![main.a] = NewNbr]
        BY <2>1, <2>4
      <3>2. ToSet(Append(list, main.a)) = ToSet(list) \cup {main.a}
        BY <2>2, <2>3, AppendKeeps DEF OnList
      <3> QED BY <3>1, <3>2
    <2>6. main'.at = main.then /\ main'.a = main.a
      <3> DEFINE th == main.then
      <3>1. th \in {"fill", "count", "uncount", "source", "free_nbr"} /\ Release(th)
        BY <2>1, <2>2
      <3> HIDE DEF th
      <3>2. main'.at = th /\ main'.a = main.a
        BY <1>1, <3>1, Released
      <3> QED BY <3>2 DEF th
    <2>7. \A a \in NbrAddr : LinkCount(a)' = LinkCount(a)
      BY <2>2, <2>3, <2>5, NewNbrIs DEF LinkCount, OnList
    <2>8. ASSUME NEW a \in NbrAddr
          PROVE  (Uncounted(a)' <=> Uncounted(a)) /\ (Overcounted(a)' <=> Overcounted(a))
      BY <2>1, <2>2, <2>6 DEF Uncounted, Overcounted, Locking, At
    <2>9. OnList(main.a)'
      BY <2>5, <2>6 DEF OnList
    <2> QED BY <1>2, <2>7, <2>8, <2>9, CountMoves
  <1>5. CASE RemoveNbr
    <2>1. /\ main.at = "critical" /\ main.op = "remove_nbr" /\ Release(main.then)
          /\ list' = RemoveFirst(list, main.a) /\ nbr' = nbr
      BY <1>5 DEF RemoveNbr, At
    <2>2. main.a \in Addr /\ main.then = "free_nbr" /\ nbr[main.a].links = 0
      BY <1>1, <2>1 DEF Control, At, Locking, Locked
    <2>3. ToSet(list') = ToSet(list) \ {main.a}
      BY <1>1, <2>1, RemoveFirstKeeps DEF Lists
    <2>4. Release("free_nbr")
      BY <2>1, <2>2
    <2>5. main'.at = "free_nbr"
      BY <1>1, <2>4, Released
    <2>6. \A a \in NbrAddr : LinkCount(a)' = LinkCount(a)
      BY <2>1, <2>2, <2>3 DEF LinkCount, OnList
    <2>7. ~Counting /\ ~Counting'
      BY <2>1, <2>5 DEF Counting, Locking
    <2> QED BY <1>2, <2>6, <2>7, CountKept
  <1> QED BY <1>3, <1>4, <1>5

\* Freeing and flushing neighbours: their links are counted as before.
LEMMA FreeCounts ==
  ASSUME TschInv, CountInv, FreeNbr \/ QueueReset
  PROVE  CountInv'
  <1>1. Lists /\ Control /\ main \in Main /\ nbr \in [NbrAddr -> Nbr]
    BY DEF TschInv, Control, Lists
  <1>2. /\ UNCHANGED <<list, sched, link>> /\ main'.at = "scan"
        /\ main.at \in {"free_nbr", "reset"}
    BY <1>1 DEF FreeNbr, QueueReset, schedVars, At, Go, Main
  <1>3. ~Counting /\ ~Counting'
    BY <1>2 DEF Counting, Locking
  <1>4. \A a \in NbrAddr : LinkCount(a)' = LinkCount(a)
    <2>1. CASE FreeNbr
      <3>1. nbr' = [nbr EXCEPT ![main.a] = NewNbr] /\ ~OnList(main.a)
        BY <1>1, <2>1 DEF FreeNbr, Control, At
      <3>2. \A a \in NbrAddr : a # main.a => nbr'[a] = nbr[a]
        BY <1>1, <3>1
      <3> QED BY <1>2, <3>1, <3>2 DEF LinkCount, OnList
    <2>2. CASE QueueReset
      <3> DEFINE flushed(n) == [n EXCEPT !.ring = [RingInit(TSCH_QUEUE_NUM_PER_NEIGHBOR) EXCEPT
                                                     !.put = n.ring.put, !.get = n.ring.put],
                                         !.win = 0, !.be = TSCH_MAC_MIN_BE]
      <3>1. \A a \in NbrAddr : nbr'[a] = IF OnList(a) THEN flushed(nbr[a]) ELSE nbr[a]
        BY <2>2 DEF QueueReset
      <3>2. ASSUME NEW n \in Nbr
            PROVE  flushed(n).links = n.links
        <4> DEFINE k == n.ring.put
                   r == [RingInit(TSCH_QUEUE_NUM_PER_NEIGHBOR) EXCEPT !.put = k, !.get = k]
                   m == flushed(n)
        <4>1. k = n.ring.put /\ m = [n EXCEPT !.ring = r, !.win = 0, !.be = TSCH_MAC_MIN_BE]
          OBVIOUS
        <4> HIDE DEF k, m
        <4>2. r = [RingInit(TSCH_QUEUE_NUM_PER_NEIGHBOR) EXCEPT !.put = k, !.get = k]
          OBVIOUS
        <4> HIDE DEF r
        <4>3. m.links = n.links
          BY <4>1, <4>2, FlushedIs
        <4> QED BY <4>3 DEF m
      <3> HIDE DEF flushed
      <3>3. \A a \in NbrAddr : nbr'[a].links = nbr[a].links
        BY <1>1, <3>1, <3>2
      <3> QED BY <1>2, <3>3 DEF LinkCount, OnList
    <2> QED BY <2>1, <2>2
  <1> QED BY <1>2, <1>3, <1>4, CountKept

\* A slot operation changes neither the links nor their numbers.
LEMMA SlotCounts ==
  ASSUME TschInv, CountInv, Interrupt
  PROVE  CountInv'
  <1>1. UNCHANGED <<list, sched, link, main>> /\ \A a \in NbrAddr : nbr'[a].links = nbr[a].links
    BY SlotStep DEF SlotKeeps
  <1>2. \A a \in NbrAddr : LinkCount(a)' = LinkCount(a)
    BY <1>1 DEF LinkCount, OnList
  <1>3. \A a \in NbrAddr : (Uncounted(a)' <=> Uncounted(a)) /\ (Overcounted(a)' <=> Overcounted(a))
    BY <1>1 DEF Uncounted, Overcounted, Locking, At
  <1>4. main'.at \in {"count", "uncount"} => OnList(main.a)'
    BY <1>1 DEF CountInv, OnList
  <1> QED BY <1>1, <1>2, <1>3, <1>4, CountMoves

\* After the lock was released, an operation goes on to the neighbour if the
\* link is one to send over.
LEMMA LinkChangedCounts ==
  ASSUME TschInv, CountInv, LinkChanged
  PROVE  CountInv'
  <1>1. Control /\ main \in Main
    BY DEF TschInv, Control
  <1>2. /\ UNCHANGED <<list, nbr, sched, link>>
        /\ \/ main.at = "added" /\ main' = IF main.l.tx THEN WithNbr(main, "count") ELSE Idle
           \/ main.at = "removed" /\ main' = IF main.l.tx THEN WithNbr(main, "uncount") ELSE Idle
    BY DEF LinkChanged, At, schedVars
  <1>3. \A a \in NbrAddr : LinkCount(a)' = LinkCount(a)
    BY <1>2 DEF LinkCount, OnList
  <1>4. main.op = "none" /\ main.at # "request"
    BY <1>1, <1>2 DEF Control, Locking
  <1>5. CASE ~main.l.tx
    <2>1. main' = Idle
      BY <1>2, <1>5
    <2>2. \A a \in NbrAddr : ~Uncounted(a)' /\ ~Overcounted(a)' /\ ~Uncounted(a) /\ ~Overcounted(a)
      BY <1>2, <1>5, <2>1 DEF Uncounted, Overcounted, Locking, At, Idle
    <2>3. main'.at \notin {"count", "uncount"}
      BY <2>1 DEF Idle
    <2> QED BY <1>2, <1>3, <2>2, <2>3, CountMoves
  <1>6. CASE main.l.tx
    <2>1. PICK then \in {"count", "uncount"} :
            /\ main' = WithNbr(main, then)
            /\ main.at = IF then = "count" THEN "added" ELSE "removed"
      BY <1>2, <1>6
    <2>2. /\ main'.a = main.a
          /\ \/ OnList(main.a) /\ main'.at = then /\ main'.op = "none"
             \/ ~OnList(main.a) /\ main'.at = "request" /\ main'.op = "add_nbr" /\ main'.then = then
      BY <1>1, <1>4, <2>1, WithNbrIs
    <2>3. ASSUME NEW a \in NbrAddr
          PROVE  (Uncounted(a)' <=> Uncounted(a)) /\ (Overcounted(a)' <=> Overcounted(a))
      BY <1>6, <2>1, <2>2 DEF Uncounted, Overcounted, Locking, At
    <2>4. main'.at \in {"count", "uncount"} => OnList(main.a)'
      BY <1>2, <2>2 DEF OnList
    <2> QED BY <1>2, <1>3, <2>3, <2>4, CountMoves
  <1> QED BY <1>5, <1>6

\* Adding and removing a link: it is not counted yet, or still.
LEMMA AddLinkCounts ==
  ASSUME TschInv, CountInv, AddLink
  PROVE  CountInv'
  <1>1. Control /\ Schedule /\ main \in Main
    BY DEF TschInv, Control
  <1>2. UNCHANGED <<list, nbr>> /\ main.at = "critical" /\ main.op = "add_link"
    BY DEF AddLink, At
  <1>3. main.then = "added" /\ main.l \in Link /\ main.a = main.l.addr
    BY <1>1, <1>2 DEF Control, At, Locking, Locked
  <1>4. ~Counting /\ \A a \in NbrAddr : LinkCount(a)' = LinkCount(a)
    BY <1>2 DEF Counting, Locking, LinkCount, OnList
  <1>5. CASE sched = Block
    <2>1. main' = Idle /\ UNCHANGED <<sched, link>>
      BY <1>5 DEF AddLink, Release
    <2>2. ~Counting'
      BY <2>1 DEF Idle, Counting, Locking
    <2> QED BY <1>4, <2>1, <2>2, CountKept
  <1>6. CASE sched # Block
    <2> DEFINE b == Min(Block \ sched)
    <2>1. b \in Block /\ b \notin sched
      <3>1. b \in Block \ sched
        BY <1>1, <1>6, TschAssumption, FreeBlock DEF Schedule, Block
      <3> QED BY <3>1
    <2>2. /\ sched' = sched \cup {b} /\ link' = [link EXCEPT ![b] = main.l]
          /\ main' = [main EXCEPT !.at = "added", !.op = "none", !.then = "idle"]
      BY <1>3, <1>6 DEF AddLink, Release
    <2> HIDE DEF b
    <2>3. main'.at = "added" /\ main'.a = main.a /\ main'.l = main.l
      BY <1>1, <2>2 DEF Main
    <2>4. /\ link'[b] = main.l /\ \A c \in sched : link'[c] = link[c]
      BY <1>1, <2>1, <2>2 DEF Schedule
    <2>5. ASSUME NEW a \in NbrAddr
          PROVE  LinkCount(a)' + (IF Uncounted(a)' THEN 1 ELSE 0)
                   = Cardinality(TxLinks(a)') + (IF Overcounted(a)' THEN 1 ELSE 0)
      <3>1. ~Overcounted(a)' /\ (Uncounted(a)' <=> main.l.tx /\ main.l.addr = a)
        BY <1>3, <2>3 DEF Overcounted, Uncounted, At, Locking
      <3>2. LinkCount(a)' = Cardinality(TxLinks(a)) /\ Cardinality(TxLinks(a)) \in Nat
        <4>1. ~Uncounted(a) /\ ~Overcounted(a)
          BY <1>4, NotCounting
        <4>2. LinkCount(a) \in Nat
          BY LinkCountNat DEF TschInv, Lists
        <4> QED BY <1>1, <1>4, <4>1, <4>2, TxLinksFinite DEF CountInv
      <3>3. CASE main.l.tx /\ main.l.addr = a
        <4>1. TxLinks(a)' = TxLinks(a) \cup {b} /\ b \notin TxLinks(a)
          BY <2>1, <2>2, <2>4, <3>3 DEF TxLinks
        <4>2. Cardinality(TxLinks(a)') = Cardinality(TxLinks(a)) + 1
          BY <1>1, <4>1, TxLinksFinite, FS_AddElement
        <4> QED BY <3>1, <3>2, <3>3, <4>2
      <3>4. CASE ~(main.l.tx /\ main.l.addr = a)
        <4>1. TxLinks(a)' = TxLinks(a)
          BY <2>1, <2>2, <2>4, <3>4 DEF TxLinks
        <4> QED BY <3>1, <3>2, <3>4, <4>1
      <3> QED BY <3>3, <3>4
    <2> QED BY <2>3, <2>5 DEF CountInv
  <1> QED BY <1>5, <1>6

\* A link that was removed is still counted.
LEMMA RemoveLinkCounts ==
  ASSUME TschInv, CountInv, RemoveLink
  PROVE  CountInv'
  <1>1. Control /\ Schedule /\ main \in Main
    BY DEF TschInv, Control
  <1>2. /\ UNCHANGED <<list, nbr, link>> /\ main.at = "critical" /\ main.op = "remove_link"
        /\ sched' = sched \ {main.p}
    BY DEF RemoveLink, At
  <1>3. main.then = "removed" /\ main.p \in sched /\ main.l = link[main.p] /\ main.a = main.l.addr
    BY <1>1, <1>2 DEF Control, At, Locking, Locked
  <1>4. ~Counting /\ \A a \in NbrAddr : LinkCount(a)' = LinkCount(a)
    BY <1>2 DEF Counting, Locking, LinkCount, OnList
  <1>5. main' = [main EXCEPT !.at = "removed", !.op = "none", !.then = "idle"]
    BY <1>3 DEF RemoveLink, Release
  <1>6. main'.at = "removed" /\ main'.a = main.a /\ main'.l = main.l
    BY <1>1, <1>5 DEF Main
  <1>7. ASSUME NEW a \in NbrAddr
        PROVE  LinkCount(a)' + (IF Uncounted(a)' THEN 1 ELSE 0)
                 = Cardinality(TxLinks(a)') + (IF Overcounted(a)' THEN 1 ELSE 0)
    <2>1. ~Uncounted(a)' /\ (Overcounted(a)' <=> main.l.tx /\ main.l.addr = a)
      BY <1>3, <1>6 DEF Overcounted, Uncounted, At, Locking
    <2>2. LinkCount(a)' = Cardinality(TxLinks(a)) /\ Cardinality(TxLinks(a)) \in Nat
      <3>1. ~Uncounted(a) /\ ~Overcounted(a)
        BY <1>4, NotCounting
      <3>2. LinkCount(a) \in Nat
        BY LinkCountNat DEF TschInv, Lists
      <3> QED BY <1>1, <1>4, <3>1, <3>2, TxLinksFinite DEF CountInv
    <2>3. CASE main.l.tx /\ main.l.addr = a
      <3>1. TxLinks(a)' = TxLinks(a) \ {main.p} /\ main.p \in TxLinks(a)
        BY <1>2, <1>3, <2>3 DEF TxLinks
      <3>2. Cardinality(TxLinks(a)') = Cardinality(TxLinks(a)) - 1
        BY <1>1, <3>1, TxLinksFinite, FS_RemoveElement
      <3> QED BY <2>1, <2>2, <2>3, <3>2
    <2>4. CASE ~(main.l.tx /\ main.l.addr = a)
      <3>1. TxLinks(a)' = TxLinks(a)
        BY <1>2, <1>3, <2>4 DEF TxLinks
      <3> QED BY <2>1, <2>2, <2>4, <3>1
    <2> QED BY <2>3, <2>4
  <1> QED BY <1>6, <1>7 DEF CountInv

\* A link more or less fits into tx_links_count.
LEMMA CountFits ==
  ASSUME NEW x \in 0 .. 255, NEW c \in Nat, c <= 255
  PROVE  /\ x + 1 = c => (x + 1) % 256 = c /\ c \in Byte
         /\ x = c + 1 => (x + 255) % 256 = c /\ c \in Byte
  <1>1. x + 1 = c => (x + 1) % 256 = c
    <2> DEFINE y == x + 1
    <2>1. y \in Int /\ (y = c => 0 <= y /\ y < 256)
      OBVIOUS
    <2> HIDE DEF y
    <2>2. y = c => y % 256 = c
      BY <2>1, Wrap
    <2> QED BY <2>2 DEF y
  <1>2. x = c + 1 => (x + 255) % 256 = c
    <2> DEFINE y == x + 255
    <2>1. y \in Int /\ (x = c + 1 => 256 <= y /\ y < 2 * 256 /\ y - 256 = c)
      OBVIOUS
    <2> HIDE DEF y
    <2>2. x = c + 1 => y % 256 = c
      BY <2>1, Wrap
    <2> QED BY <2>2 DEF y
  <1>3. c \in Byte
    BY DEF Byte
  <1> QED BY <1>1, <1>2, <1>3

\* tsch_schedule_add_link and tsch_schedule_remove_link end with the number of
\* links of the neighbour.
LEMMA CountCounts ==
  ASSUME TschInv, CountInv, Room, Count
  PROVE  CountInv'
  <1>1. Control /\ Schedule /\ Lists /\ nbr \in [NbrAddr -> Nbr]
    BY DEF TschInv, Lists
  <1>2. /\ UNCHANGED <<list, sched, link>> /\ main' = Idle
        /\ main.at \in {"count", "uncount"} /\ main.a \in NbrAddr
    BY <1>1 DEF Count, schedVars, At, Done, Control, Link
  <1>3. OnList(main.a)
    BY <1>2 DEF CountInv
  <1> DEFINE k == main.a
             x == nbr[k].links
             c == Cardinality(TxLinks(k))
  <1>4. x \in 0 .. 255
    <2>1. nbr[k] \in Nbr
      BY <1>1, <1>2
    <2> HIDE DEF k
    <2> QED BY <2>1 DEF Nbr
  <1>5. c \in Nat /\ c <= 255
    <2>1. IsFiniteSet(Block) /\ Cardinality(Block) <= 255
      <3>1. TSCH_SCHEDULE_MAX_LINKS \in Nat /\ TSCH_SCHEDULE_MAX_LINKS <= 255
        BY TschAssumption DEF Room
      <3>2. \A n \in Nat : IsFiniteSet(1 .. n) /\ Cardinality(1 .. n) = n
        BY FS_Interval
      <3> QED BY <3>1, <3>2 DEF Block
    <2>2. TxLinks(k) \subseteq Block
      BY <1>1 DEF TxLinks, Schedule
    <2>3. c <= Cardinality(Block) /\ c \in Nat /\ Cardinality(Block) \in Nat
      BY <2>1, <2>2, FS_Subset, FS_CardinalityType
    <2> QED BY <2>1, <2>3
  <1>6. \A a \in NbrAddr : /\ Uncounted(a) <=> main.at = "count" /\ a = k
                           /\ Overcounted(a) <=> main.at = "uncount" /\ a = k
    BY <1>2 DEF Uncounted, Overcounted, At, Locking
  <1>7. /\ main.at = "count" => x + 1 = c
        /\ main.at = "uncount" => x = c + 1
    <2>1. LinkCount(k) = x
      BY <1>3 DEF LinkCount
    <2>2. x + (IF Uncounted(k) THEN 1 ELSE 0) = c + (IF Overcounted(k) THEN 1 ELSE 0)
      BY <1>2, <2>1 DEF CountInv
    <2> HIDE DEF k, x, c
    <2>3. CASE main.at = "count"
      <3>1. Uncounted(k) /\ ~Overcounted(k)
        BY <1>2, <1>6, <2>3 DEF k
      <3> QED BY <1>4, <1>5, <2>2, <2>3, <3>1
    <2>4. CASE main.at = "uncount"
      <3>1. ~Uncounted(k) /\ Overcounted(k)
        BY <1>2, <1>6, <2>4 DEF k
      <3> QED BY <1>4, <1>5, <2>2, <2>4, <3>1
    <2> QED BY <1>2, <2>3, <2>4
  <1>8. nbr' = [nbr EXCEPT ![k].links = c] /\ c \in Byte
    <2>1. \/ main.at = "count" /\ nbr' = [nbr EXCEPT ![k].links = (x + 1) % 256]
          \/ main.at = "uncount" /\ nbr' = [nbr EXCEPT ![k].links = (x + 255) % 256]
      BY <1>3 DEF Count, At
    <2> HIDE DEF k, x, c
    <2>2. /\ main.at = "count" => (x + 1) % 256 = c /\ c \in Byte
          /\ main.at = "uncount" => (x + 255) % 256 = c /\ c \in Byte
      BY <1>4, <1>5, <1>7, CountFits
    <2> QED BY <2>1, <2>2
  <1>9. \A b \in NbrAddr : nbr'[b].links = IF b = k THEN c ELSE nbr[b].links
    <2> DEFINE m == nbr'
               n == nbr
    <2>1. m = [n EXCEPT ![k].links = c] /\ n \in [NbrAddr -> Nbr] /\ k \in NbrAddr /\ c \in Byte
      BY <1>1, <1>2, <1>8
    <2> HIDE DEF m, n, k, c
    <2>2. \A b \in NbrAddr : m[b].links = IF b = k THEN c ELSE n[b].links
      BY <2>1, LinksSet
    <2> QED BY <2>2 DEF m, n
  <1>10. ASSUME NEW a \in NbrAddr
         PROVE  LinkCount(a)' = Cardinality(TxLinks(a)')
    <2>1. TxLinks(a)' = TxLinks(a)
      BY <1>2 DEF TxLinks
    <2>2. CASE a = k
      BY <1>2, <1>3, <1>9, <2>1, <2>2 DEF LinkCount, OnList
    <2>3. CASE a # k
      <3>1. LinkCount(a)' = LinkCount(a)
        BY <1>2, <1>9, <2>3 DEF LinkCount, OnList
      <3>2. ~Uncounted(a) /\ ~Overcounted(a)
        BY <1>6, <2>3
      <3>3. LinkCount(a) + 0 = Cardinality(TxLinks(a)) + 0
        BY <3>2 DEF CountInv
      <3>4. LinkCount(a) \in Nat /\ Cardinality(TxLinks(a)) \in Nat
        BY <1>1, TxLinksFinite DEF LinkCount, Nbr
      <3> QED BY <2>1, <3>1, <3>3, <3>4
    <2> QED BY <2>2, <2>3
  <1>11. ~Counting' /\ main'.at = "idle"
    BY <1>2 DEF Idle, Counting, Locking
  <1>12. \A a \in NbrAddr : ~Uncounted(a)' /\ ~Overcounted(a)'
    BY <1>11, NotCounting
  <1> QED BY <1>10, <1>11, <1>12 DEF CountInv

\* tsch_associate counts the links of the schedule that it removes and adds.
LEMMA RecountFits ==
  ASSUME NEW x \in 0 .. 255, NEW y \in {0, 1}
  PROVE  (x + (256 + y) - x) % 256 = y
  <1>1. x + (256 + y) - x = 256 + y
    OBVIOUS
  <1>2. (256 + y) % 256 = y
    BY Wrap
  <1> QED BY <1>1, <1>2

\* After tsch_associate the broadcast neighbour has one link and the others none.
LEMMA AssociateCounts ==
  ASSUME TschInv, CountInv, NEW a \in Addr, Associate(a)
  PROVE  CountInv'
  <1>1. Control /\ Schedule /\ Lists /\ nbr \in [NbrAddr -> Nbr] /\ a \in NbrAddr /\ a # Broadcast
    BY Constants DEF TschInv, Lists
  <1> DEFINE fresh == IF OnList(a) THEN nbr ELSE [nbr EXCEPT ![a] = NewNbr]
             count == Recount(fresh)
             one(b) == IF b = Broadcast THEN 1 ELSE 0
  <1>2. /\ main' = main /\ main.at = "idle"
        /\ sched' = {1} /\ link' = [link EXCEPT ![1] = MinimalLink]
    BY DEF Associate, At
  <1>3. \/ /\ list' = IF OnList(a) THEN list ELSE Append(list, a)
           /\ nbr' = TimeSource(count, a)
        \/ /\ ~OnList(a)
           /\ nbr' = [b \in NbrAddr |-> IF OnList(b) THEN count[b] ELSE nbr[b]]
           /\ list' = list
    BY DEF Associate, Recount
  <1>4. ~Counting /\ ~Counting' /\ main'.at = "idle"
    BY <1>2 DEF Counting, Locking
  <1>5. ASSUME NEW b \in NbrAddr
        PROVE  LinkCount(b) = Cardinality(TxLinks(b)) /\ Cardinality(TxLinks(b)) \in Nat
    <2>1. ~Uncounted(b) /\ ~Overcounted(b)
      BY <1>4, NotCounting
    <2>2. LinkCount(b) \in Nat /\ Cardinality(TxLinks(b)) \in Nat
      BY <1>1, LinkCountNat, TxLinksFinite
    <2>3. LinkCount(b) + 0 = Cardinality(TxLinks(b)) + 0
      BY <2>1 DEF CountInv
    <2> QED BY <2>2, <2>3
  <1>6. /\ fresh \in [NbrAddr -> Nbr]
        /\ \A b \in NbrAddr : b # a \/ OnList(a) => fresh[b] = nbr[b]
        /\ ~OnList(a) => fresh[a] = NewNbr
    BY <1>1, NewNbrIs
  <1>7. \A b \in NbrAddr : OnList(b) \/ b = a => fresh[b].links = Cardinality(TxLinks(b))
    BY <1>5, <1>6, NewNbrIs DEF LinkCount
  <1> HIDE DEF fresh
  <1>8. /\ count \in [NbrAddr -> Nbr]
        /\ \A b \in NbrAddr : OnList(b) \/ b = a => count[b].links = one(b)
    <2>1. count \in [NbrAddr -> Nbr]
      BY <1>1, <1>6, RecountIs
    <2>2. ASSUME NEW b \in NbrAddr, OnList(b) \/ b = a
          PROVE  count[b].links = one(b)
      <3> DEFINE x == fresh[b].links
                 y == one(b)
      <3>1. count[b].links = (x + (IF b = Broadcast THEN 257 ELSE 256) - Cardinality(TxLinks(b))) % 256
        BY <1>1, <1>6, RecountIs
      <3>2. Cardinality(TxLinks(b)) = x
        BY <1>7, <2>2
      <3>3. x \in 0 .. 255 /\ y \in {0, 1}
        BY <1>6 DEF Nbr
      <3>4. (IF b = Broadcast THEN 257 ELSE 256) = 256 + y
        OBVIOUS
      <3> HIDE DEF x, y
      <3>5. (x + (256 + y) - x) % 256 = y
        BY <3>3, RecountFits
      <3>6. count[b].links = (x + (256 + y) - x) % 256
        BY <3>1, <3>2, <3>4
      <3>7. count[b].links = y
        BY <3>5, <3>6
      <3> QED BY <3>7 DEF y
    <2> QED BY <2>1, <2>2
  <1> HIDE DEF count
  <1>9. ASSUME NEW b \in NbrAddr
        PROVE  Cardinality(TxLinks(b)') = one(b)
    <2>1. link'[1] = MinimalLink
      <3>1. 1 \in Block
        BY TschAssumption DEF Block
      <3> QED BY <1>1, <1>2, <3>1 DEF Schedule
    <2>2. MinimalLink.tx = TRUE /\ MinimalLink.addr = Broadcast
      BY DEF MinimalLink
    <2>3. TxLinks(b)' = IF b = Broadcast THEN {1} ELSE {}
      BY <1>2, <2>1, <2>2 DEF TxLinks
    <2> QED BY <2>3, FS_EmptySet, FS_Singleton
  <1>10. ASSUME NEW b \in NbrAddr
         PROVE  LinkCount(b)' = one(b)
    <2>1. list \in Seq(NbrAddr) /\ IsInjective(list) /\ OnList(Broadcast)
      BY <1>1 DEF Lists
    <2>2. CASE /\ list' = IF OnList(a) THEN list ELSE Append(list, a)
               /\ nbr' = TimeSource(count, a)
      <3>1. ToSet(list') = ToSet(list) \cup {a}
        <4>1. CASE OnList(a)
          BY <2>2, <4>1 DEF OnList
        <4>2. CASE ~OnList(a)
          <5>1. ToSet(Append(list, a)) = ToSet(list) \cup {a}
            BY <1>1, <2>1, <4>2, AppendKeeps DEF OnList
          <5> QED BY <2>2, <4>2, <5>1
        <4> QED BY <4>1, <4>2
      <3>2. nbr'[b].links = count[b].links
        BY <1>8, <2>2, TimeSourceIs
      <3>3. CASE b \in ToSet(list')
        BY <1>8, <3>1, <3>2, <3>3 DEF LinkCount, OnList
      <3>4. CASE b \notin ToSet(list')
        BY <2>1, <3>1, <3>4 DEF LinkCount, OnList
      <3> QED BY <3>3, <3>4
    <2>3. CASE /\ nbr' = [c \in NbrAddr |-> IF OnList(c) THEN count[c] ELSE nbr[c]]
               /\ list' = list
      <3>1. CASE OnList(b)
        <4>1. nbr'[b] = count[b]
          BY <2>3, <3>1
        <4> QED BY <1>8, <2>3, <3>1, <4>1 DEF LinkCount, OnList
      <3>2. CASE ~OnList(b)
        BY <2>1, <2>3, <3>2 DEF LinkCount, OnList
      <3> QED BY <3>1, <3>2
    <2> QED BY <1>3, <2>2, <2>3
  <1>11. \A b \in NbrAddr : ~Uncounted(b)' /\ ~Overcounted(b)'
    BY <1>4, NotCounting
  <1> QED BY <1>4, <1>9, <1>10, <1>11 DEF CountInv

\* Every step keeps the numbers of links.
LEMMA StepCounts ==
  ASSUME TschInv, CountInv, Room, [Next]_vars
  PROVE  CountInv'
  <1>1. CASE UNCHANGED vars
    <2>1. UNCHANGED <<list, nbr, sched, link, main>>
      BY <1>1 DEF vars
    <2>2. \A a \in NbrAddr : /\ LinkCount(a)' = LinkCount(a)
                             /\ Uncounted(a)' <=> Uncounted(a)
                             /\ Overcounted(a)' <=> Overcounted(a)
      BY <2>1 DEF LinkCount, Uncounted, Overcounted, OnList, At, Locking
    <2>3. main'.at \in {"count", "uncount"} => OnList(main.a)'
      BY <2>1 DEF CountInv, OnList
    <2> QED BY <2>1, <2>2, <2>3, CountMoves
  <1>2. CASE Interrupt
    BY <1>2, SlotCounts
  <1>3. CASE Request \/ Take \/ AddNbr \/ RemoveNbr
    BY <1>3, LockCounts
  <1>4. CASE AddLink
    BY <1>4, AddLinkCounts
  <1>5. CASE RemoveLink
    BY <1>5, RemoveLinkCounts
  <1>6. CASE LinkChanged
    BY <1>6, LinkChangedCounts
  <1>7. CASE Count
    BY <1>7, CountCounts
  <1>8. CASE FreeNbr \/ QueueReset
    BY <1>8, FreeCounts
  <1>9. CASE \E a \in Addr : Associate(a)
    BY <1>9, AssociateCounts
  <1>10. CASE \/ Fill \/ FillFails \/ Put \/ SetTimeSource \/ RxPending \/ Report \/ Scan
              \/ Got \/ Leave \/ SendEb \/ PendingEvent \/ ProcessLeave \/ ProcessJoin
              \/ \E a \in Addr \cup {Broadcast} : Send(a)
              \/ \E a \in Addr \cup {NONE} : NewTimeSource(a)
              \/ \E l \in Kinds : BeginAddLink(l)
              \/ \E b \in Block : BeginRemoveLink(b)
    BY <1>10, QuietCounts
  <1> QED BY <1>1, <1>2, <1>3, <1>4, <1>5, <1>6, <1>7, <1>8, <1>9, <1>10 DEF Next, MainStep

\* Between operations tx_links_count is the number of links over which packets
\* are sent to a neighbour, however often the neighbour, its links and the
\* whole schedule went and came back, when there is room for every address.
THEOREM LinksAreCounted ==
  ASSUME Room
  PROVE  Spec => []LinksCounted
  <1>1. Init => CountInv
    <2> SUFFICES ASSUME Init PROVE CountInv
      OBVIOUS
    <2>1. /\ nbr = [a \in NbrAddr |-> [NewNbr EXCEPT !.links = IF a = Broadcast THEN 1 ELSE 0]]
          /\ sched = {1} /\ link = [b \in Block |-> MinimalLink] /\ main = Idle
          /\ list = <<Eb, Broadcast>>
      BY DEF Init
    <2>2. TschInv
      BY Inits
    <2>3. ASSUME NEW a \in NbrAddr
          PROVE  LinkCount(a) = Cardinality(TxLinks(a))
      <3>1. link[1] = MinimalLink /\ MinimalLink.tx = TRUE /\ MinimalLink.addr = Broadcast
        <4>1. 1 \in Block
          BY TschAssumption DEF Block
        <4> QED BY <2>1, <4>1 DEF MinimalLink
      <3>2. TxLinks(a) = IF a = Broadcast THEN {1} ELSE {}
        BY <2>1, <3>1 DEF TxLinks
      <3>3. Cardinality(TxLinks(a)) = IF a = Broadcast THEN 1 ELSE 0
        BY <3>2, FS_EmptySet, FS_Singleton
      <3>4. nbr[a].links = IF a = Broadcast THEN 1 ELSE 0
        <4>1. ASSUME NEW v
              PROVE  [NewNbr EXCEPT !.links = v].links = v
          BY NewNbrIs DEF Nbr
        <4> QED BY <2>1, <4>1
      <3> QED BY <2>2, <3>3, <3>4 DEF LinkCount, TschInv, Lists
    <2>4. ~Counting /\ main.at = "idle"
      BY <2>1 DEF Idle, Counting, Locking
    <2>5. \A a \in NbrAddr : ~Uncounted(a) /\ ~Overcounted(a)
      BY <2>4, NotCounting
    <2> QED BY <2>3, <2>4, <2>5 DEF CountInv
  <1>2. TschInv /\ CountInv /\ [Next]_vars => CountInv'
    BY StepCounts
  <1>3. TschInv /\ CountInv => LinksCounted
    <2> SUFFICES ASSUME TschInv, CountInv, At("idle"), NEW a \in NbrAddr
                 PROVE  IF OnList(a) THEN nbr[a].links = Cardinality(TxLinks(a)) ELSE TxLinks(a) = {}
      BY DEF LinksCounted
    <2>1. ~Counting /\ Schedule /\ nbr \in [NbrAddr -> Nbr]
      BY DEF Counting, At, Locking, TschInv, Lists
    <2>2. ~Uncounted(a) /\ ~Overcounted(a)
      BY <2>1, NotCounting
    <2>3. LinkCount(a) + 0 = Cardinality(TxLinks(a)) + 0
      BY <2>2 DEF CountInv
    <2>4. /\ LinkCount(a) \in Nat /\ Cardinality(TxLinks(a)) \in Nat
          /\ IsFiniteSet(TxLinks(a))
      BY <2>1, LinkCountNat, TxLinksFinite
    <2>5. LinkCount(a) = Cardinality(TxLinks(a))
      BY <2>3, <2>4
    <2> QED BY <2>4, <2>5, FS_EmptySet DEF LinkCount
  <1> QED BY <1>1, <1>2, <1>3, TschInvariant, PTL DEF Spec
=============================================================================
