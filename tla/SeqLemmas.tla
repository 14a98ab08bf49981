----------------------------- MODULE SeqLemmas ------------------------------
(***************************************************************************)
(* Facts about the lists and queues of the code, as sequences that hold    *)
(* each element once: what removing, appending and taking do to the        *)
(* elements of such a sequence; and about sums over finite sets, such as   *)
(* the length of the fragments that a context has collected.               *)
(***************************************************************************)
EXTENDS Integers, FiniteSets, SequencesExt, SequenceTheorems, FiniteSetTheorems,
        WellFoundedInduction, TLAPS

\* A nonempty set of naturals has a least element.
LEMMA NatLeast ==
  ASSUME NEW T \in SUBSET Nat, T # {}
  PROVE  \E m \in T : \A k \in T : m <= k
  <1> DEFINE R == OpToRel(<, Nat)
  <1>1. IsWellFoundedOn(R, Nat)
    BY NatLessThanWellFounded
  <1>2. \A k, m \in Nat : k < m => <<k, m>> \in R
    BY DEF OpToRel
  <1> HIDE DEF R
  <1>3. \E m \in T : \A k \in T : ~(<<k, m>> \in R)
    BY <1>1, WFMin
  <1>4. PICK m \in T : \A k \in T : ~(<<k, m>> \in R)
    BY <1>3
  <1>5. \A k \in T : ~(k < m)
    BY <1>2, <1>4
  <1>6. \A k \in T : m <= k
    BY <1>5
  <1> QED BY <1>6

\* Min of such a set is its least element.
LEMMA MinIs ==
  ASSUME NEW T \in SUBSET Nat, T # {}
  PROVE  Min(T) \in T /\ \A k \in T : Min(T) <= k
  <1>1. \E m \in T : \A k \in T : m <= k
    BY NatLeast
  <1> QED BY <1>1 DEF Min

\* Max takes the greatest element of a nonempty set of naturals up to n.
LEMMA MaxIs ==
  ASSUME NEW n \in Nat, NEW T \in SUBSET (1 .. n), T # {}
  PROVE  Max(T) \in T /\ \A k \in T : k <= Max(T)
  <1> DEFINE U == {u \in 1 .. n : \A k \in T : k <= u}
  <1>1. U \in SUBSET Nat /\ U # {}
    <2>1. n \in U
      <3>1. T \in SUBSET (1 .. n) /\ \A k \in T : k <= n
        OBVIOUS
      <3>2. n \in 1 .. n
        <4>1. PICK x \in T : TRUE
          OBVIOUS
        <4>2. x \in 1 .. n
          BY <4>1
        <4> QED BY <4>2
      <3> QED BY <3>1, <3>2
    <2> QED BY <2>1
  <1>2. PICK u \in U : \A k \in U : u <= k
    <2> HIDE DEF U
    <2> QED BY <1>1, NatLeast
  <1>3. u \in 1 .. n /\ \A k \in T : k <= u
    OBVIOUS
  <1>4. u \in T
    <2>1. SUFFICES ASSUME u \notin T PROVE FALSE
      OBVIOUS
    <2>2. \A k \in T : k \in 1 .. n /\ k <= u - 1
      BY <1>3, <2>1
    <2>3. u - 1 \in 1 .. n
      <3>1. PICK x \in T : TRUE
        OBVIOUS
      <3>2. x \in 1 .. n /\ x <= u - 1
        BY <2>2, <3>1
      <3> QED BY <1>3, <3>2
    <2>4. u - 1 \in U
      BY <2>2, <2>3
    <2>5. u <= u - 1
      BY <1>2, <2>4
    <2> QED BY <1>3, <2>5
  <1>5. \E x \in T : \A y \in T : x >= y
    BY <1>3, <1>4
  <1> QED BY <1>5 DEF Max

\* The elements of a sequence.
LEMMA ToSetIs ==
  ASSUME NEW S, NEW l \in Seq(S)
  PROVE  /\ ToSet(l) \subseteq S
         /\ \A y : y \in ToSet(l) <=> \E i \in 1 .. Len(l) : l[i] = y
         /\ ToSet(l) = {} <=> l = <<>>
  BY DEF ToSet

\* The elements behind and before position k move together.
LEMMA RemoveAtIs ==
  ASSUME NEW S, NEW l \in Seq(S), NEW k \in 1 .. Len(l)
  PROVE  /\ RemoveAt(l, k) \in Seq(S) /\ Len(RemoveAt(l, k)) = Len(l) - 1
         /\ \A i \in 1 .. Len(l) - 1 :
               RemoveAt(l, k)[i] = IF i < k THEN l[i] ELSE l[i + 1]
  <1> DEFINE a == SubSeq(l, 1, k - 1)
             b == SubSeq(l, k + 1, Len(l))
  <1>1. /\ a \in Seq(S) /\ Len(a) = k - 1
        /\ \A i \in 1 .. k - 1 : a[i] = l[i]
    <2>1. \A i \in 1 .. k - 1 : l[i] \in S
      OBVIOUS
    <2>2. /\ SubSeq(l, 1, k - 1) \in Seq(S)
          /\ Len(SubSeq(l, 1, k - 1)) = IF 1 <= k - 1 THEN (k - 1) - 1 + 1 ELSE 0
          /\ \A i \in 1 .. (k - 1) - 1 + 1 : SubSeq(l, 1, k - 1)[i] = l[1 + i - 1]
      BY <2>1, SubSeqProperties, k - 1 \in Int
    <2> QED BY <2>2
  <1>2. /\ b \in Seq(S) /\ Len(b) = Len(l) - k
        /\ \A i \in 1 .. Len(l) - k : b[i] = l[k + i]
    <2>1. \A i \in k + 1 .. Len(l) : l[i] \in S
      OBVIOUS
    <2>2. /\ SubSeq(l, k + 1, Len(l)) \in Seq(S)
          /\ Len(SubSeq(l, k + 1, Len(l))) = IF k + 1 <= Len(l) THEN Len(l) - (k + 1) + 1 ELSE 0
          /\ \A i \in 1 .. Len(l) - (k + 1) + 1 : SubSeq(l, k + 1, Len(l))[i] = l[(k + 1) + i - 1]
      BY <2>1, SubSeqProperties, k + 1 \in Int, Len(l) \in Int
    <2> QED BY <2>2
  <1>3. RemoveAt(l, k) = a \o b
    BY DEF RemoveAt
  <1> HIDE DEF a, b
  <1>4. /\ a \o b \in Seq(S) /\ Len(a \o b) = Len(a) + Len(b)
        /\ \A i \in 1 .. Len(a) + Len(b) : (a \o b)[i] = IF i <= Len(a) THEN a[i] ELSE b[i - Len(a)]
    BY <1>1, <1>2, ConcatProperties
  <1> DEFINE c == a \o b
  <1>5. ASSUME NEW i \in 1 .. Len(l) - 1
        PROVE  c[i] = IF i < k THEN l[i] ELSE l[i + 1]
    <2>1. CASE i < k
      BY <1>1, <1>2, <1>4, <2>1
    <2>2. CASE ~(i < k)
      <3> DEFINE j == i - Len(a)
      <3>1. j \in 1 .. Len(l) - k /\ i \in 1 .. Len(a) + Len(b) /\ ~(i <= Len(a)) /\ k + j = i + 1
        BY <1>1, <1>2, <2>2
      <3>2. c[i] = b[j]
        BY <1>4, <3>1
      <3> HIDE DEF j, c
      <3>3. b[j] = l[k + j]
        BY <1>2, <3>1
      <3>4. b[j] = l[i + 1]
        BY <3>1, <3>3
      <3> QED BY <2>2, <3>2, <3>4
    <2> QED BY <2>1, <2>2
  <1> QED BY <1>1, <1>2, <1>3, <1>4, <1>5

\* A list that loses the element at position k loses that element alone.
LEMMA RemoveAtKeeps ==
  ASSUME NEW S, NEW l \in Seq(S), IsInjective(l), NEW k \in 1 .. Len(l)
  PROVE  /\ RemoveAt(l, k) \in Seq(S) /\ IsInjective(RemoveAt(l, k))
         /\ ToSet(RemoveAt(l, k)) = ToSet(l) \ {l[k]}
  <1> DEFINE r == RemoveAt(l, k)
  <1>1. /\ r \in Seq(S) /\ Len(r) = Len(l) - 1
        /\ \A i \in 1 .. Len(l) - 1 : r[i] = IF i < k THEN l[i] ELSE l[i + 1]
    BY RemoveAtIs
  <1> HIDE DEF r
  <1>2. \A i, j \in 1 .. Len(l) : l[i] = l[j] => i = j
    BY DEF IsInjective
  <1>3. IsInjective(r)
    <2>1. SUFFICES ASSUME NEW i \in 1 .. Len(r), NEW j \in 1 .. Len(r), r[i] = r[j] PROVE i = j
      BY <1>1 DEF IsInjective
    <2> DEFINE ii == IF i < k THEN i ELSE i + 1
               jj == IF j < k THEN j ELSE j + 1
    <2>2. ii \in 1 .. Len(l) /\ jj \in 1 .. Len(l) /\ l[ii] = l[jj]
      BY <1>1, <2>1
    <2>3. ii = jj
      BY <1>2, <2>2
    <2> QED BY <2>3
  <1>4. ASSUME NEW y PROVE y \in ToSet(r) <=> y \in ToSet(l) \ {l[k]}
    <2>1. ASSUME NEW i \in 1 .. Len(r), r[i] = y PROVE y \in ToSet(l) \ {l[k]}
      <3> DEFINE j == IF i < k THEN i ELSE i + 1
      <3>1. j \in 1 .. Len(l) /\ l[j] = y /\ j # k
        BY <1>1, <2>1
      <3> HIDE DEF j
      <3> QED BY <1>2, <3>1, ToSetIs
    <2>2. ASSUME NEW j \in 1 .. Len(l), l[j] = y, y # l[k] PROVE y \in ToSet(r)
      <3> DEFINE i == IF j < k THEN j ELSE j - 1
      <3>1. j # k
        BY <2>2
      <3>2. i \in 1 .. Len(r) /\ r[i] = y
        BY <1>1, <2>2, <3>1
      <3> HIDE DEF i
      <3> QED BY <1>1, <3>2, ToSetIs
    <2> QED BY <1>1, <2>1, <2>2, ToSetIs
  <1> QED BY <1>1, <1>3, <1>4 DEF r

\* list_remove takes x out of a list, and nothing else.
LEMMA RemoveFirstKeeps ==
  ASSUME NEW S, NEW l \in Seq(S), IsInjective(l), NEW x
  PROVE  /\ RemoveFirst(l, x) \in Seq(S) /\ IsInjective(RemoveFirst(l, x))
         /\ ToSet(RemoveFirst(l, x)) = ToSet(l) \ {x}
  <1>1. CASE x \notin ToSet(l)
    BY <1>1, ToSetIs DEF RemoveFirst
  <1>2. CASE x \in ToSet(l)
    <2> DEFINE I == {i \in 1 .. Len(l) : l[i] = x}
               k == SelectInSeq(l, LAMBDA v : v = x)
    <2>1. I # {} /\ I \in SUBSET Nat
      BY <1>2, ToSetIs
    <2>2. k = Min(I)
      BY <2>1 DEF SelectInSeq
    <2>3. Min(I) \in I
      <3> HIDE DEF I
      <3> QED BY <2>1, MinIs
    <2>4. k \in 1 .. Len(l) /\ l[k] = x
      BY <2>2, <2>3
    <2>5. RemoveFirst(l, x) = RemoveAt(l, k)
      BY <1>2, ToSetIs DEF RemoveFirst
    <2> HIDE DEF k, I
    <2> QED BY <2>4, <2>5, RemoveAtKeeps
  <1> QED BY <1>1, <1>2

\* An element that is not in the list goes to its end.
LEMMA AppendKeeps ==
  ASSUME NEW S, NEW l \in Seq(S), IsInjective(l), NEW x \in S, x \notin ToSet(l)
  PROVE  /\ Append(l, x) \in Seq(S) /\ IsInjective(Append(l, x))
         /\ ToSet(Append(l, x)) = ToSet(l) \cup {x}
  <1> DEFINE a == Append(l, x)
  <1>1. /\ a \in Seq(S) /\ Len(a) = Len(l) + 1 /\ a[Len(l) + 1] = x
        /\ \A i \in 1 .. Len(l) : a[i] = l[i]
    BY AppendProperties
  <1> HIDE DEF a
  <1>2. \A i \in 1 .. Len(l) : l[i] # x
    BY ToSetIs
  <1>3. \A i, j \in 1 .. Len(l) : l[i] = l[j] => i = j
    BY DEF IsInjective
  <1>4. IsInjective(a)
    <2>1. SUFFICES ASSUME NEW i \in 1 .. Len(a), NEW j \in 1 .. Len(a), a[i] = a[j] PROVE i = j
      BY <1>1 DEF IsInjective
    <2>2. CASE i = Len(l) + 1
      BY <1>1, <1>2, <2>1, <2>2
    <2>3. CASE j = Len(l) + 1
      BY <1>1, <1>2, <2>1, <2>3
    <2>4. CASE i # Len(l) + 1 /\ j # Len(l) + 1
      <3>1. i \in 1 .. Len(l) /\ j \in 1 .. Len(l)
        BY <1>1, <2>4
      <3> QED BY <1>1, <1>3, <2>1, <3>1
    <2> QED BY <2>2, <2>3, <2>4
  <1>5. ASSUME NEW y PROVE y \in ToSet(a) <=> y \in ToSet(l) \cup {x}
    <2>1. y \in ToSet(a) <=> \E i \in 1 .. Len(a) : a[i] = y
      BY <1>1, ToSetIs
    <2>2. y \in ToSet(l) <=> \E i \in 1 .. Len(l) : l[i] = y
      BY ToSetIs
    <2> QED BY <1>1, <2>1, <2>2
  <1> QED BY <1>1, <1>4, <1>5 DEF a

\* An element that is not in the queue goes to its low end.
LEMMA ConsKeeps ==
  ASSUME NEW S, NEW l \in Seq(S), IsInjective(l), NEW x \in S, x \notin ToSet(l)
  PROVE  /\ <<x>> \o l \in Seq(S) /\ IsInjective(<<x>> \o l)
         /\ Len(<<x>> \o l) = Len(l) + 1
         /\ ToSet(<<x>> \o l) = ToSet(l) \cup {x}
  <1> DEFINE a == <<x>> \o l
  <1>1. /\ a \in Seq(S) /\ Len(a) = Len(l) + 1 /\ a[1] = x
        /\ \A i \in 1 .. Len(l) : a[i + 1] = l[i]
    OBVIOUS
  <1> HIDE DEF a
  <1>2. \A i \in 1 .. Len(l) : l[i] # x
    BY ToSetIs
  <1>3. \A i, j \in 1 .. Len(l) : l[i] = l[j] => i = j
    BY DEF IsInjective
  <1>4. \A i \in 1 .. Len(a) : i # 1 => i - 1 \in 1 .. Len(l) /\ a[i] = l[i - 1]
    <2>1. SUFFICES ASSUME NEW i \in 1 .. Len(a), i # 1 PROVE i - 1 \in 1 .. Len(l) /\ a[i] = l[i - 1]
      OBVIOUS
    <2>2. i - 1 \in 1 .. Len(l) /\ (i - 1) + 1 = i
      BY <1>1, <2>1
    <2> QED BY <1>1, <2>2
  <1>5. IsInjective(a)
    <2>1. SUFFICES ASSUME NEW i \in 1 .. Len(a), NEW j \in 1 .. Len(a), a[i] = a[j] PROVE i = j
      BY <1>1 DEF IsInjective
    <2>2. CASE i = 1 \/ j = 1
      BY <1>1, <1>2, <1>4, <2>1, <2>2
    <2>3. CASE i # 1 /\ j # 1
      BY <1>3, <1>4, <2>1, <2>3
    <2> QED BY <2>2, <2>3
  <1>6. ASSUME NEW y PROVE y \in ToSet(a) <=> y \in ToSet(l) \cup {x}
    <2>1. y \in ToSet(a) <=> \E i \in 1 .. Len(a) : a[i] = y
      BY <1>1, ToSetIs
    <2>2. y \in ToSet(l) <=> \E i \in 1 .. Len(l) : l[i] = y
      BY ToSetIs
    <2>3. 1 \in 1 .. Len(a) /\ \A i \in 1 .. Len(l) : i + 1 \in 1 .. Len(a)
      BY <1>1
    <2> QED BY <1>1, <1>4, <2>1, <2>2, <2>3
  <1> QED BY <1>1, <1>5, <1>6 DEF a

\* Taking the element at the high end takes that element alone.
LEMMA FrontKeeps ==
  ASSUME NEW S, NEW l \in Seq(S), l # <<>>, IsInjective(l)
  PROVE  /\ Front(l) \in Seq(S) /\ IsInjective(Front(l)) /\ Len(Front(l)) = Len(l) - 1
         /\ Last(l) \in S /\ Last(l) \in ToSet(l)
         /\ ToSet(Front(l)) = ToSet(l) \ {Last(l)}
  <1>1. Len(l) \in 1 .. Len(l) /\ l[Len(l)] \in S /\ Last(l) = l[Len(l)]
    BY DEF Last
  <1>2. \A i \in 1 .. Len(l) - 1 : l[i] \in S
    OBVIOUS
  <1> DEFINE n == Len(l) - 1
             f == SubSeq(l, 1, n)
  <1>3. n \in Nat /\ Front(l) = f /\ \A i \in 1 .. n : l[i] \in S
    BY DEF Front
  <1>4. /\ Front(l) \in Seq(S) /\ Len(Front(l)) = Len(l) - 1
        /\ \A i \in 1 .. Len(l) - 1 : Front(l)[i] = l[i]
    <2> HIDE DEF n
    <2>1. /\ SubSeq(l, 1, n) \in Seq(S)
          /\ Len(SubSeq(l, 1, n)) = IF 1 <= n THEN n - 1 + 1 ELSE 0
          /\ \A i \in 1 .. n - 1 + 1 : SubSeq(l, 1, n)[i] = l[1 + i - 1]
      BY <1>3, SubSeqProperties, n \in Int
    <2>2. /\ f \in Seq(S) /\ Len(f) = IF 1 <= n THEN n - 1 + 1 ELSE 0
          /\ \A i \in 1 .. n - 1 + 1 : f[i] = l[1 + i - 1]
      BY <2>1
    <2> HIDE DEF f
    <2>3. Len(f) = n /\ \A i \in 1 .. n : f[i] = l[i]
      BY <1>3, <2>2
    <2> QED BY <1>3, <2>2, <2>3 DEF n
  <1>5. \A i, j \in 1 .. Len(l) : l[i] = l[j] => i = j
    BY DEF IsInjective
  <1>6. IsInjective(Front(l))
    BY <1>4, <1>5 DEF IsInjective
  <1>7. ASSUME NEW y PROVE y \in ToSet(Front(l)) <=> y \in ToSet(l) \ {Last(l)}
    <2>1. y \in ToSet(Front(l)) <=> \E i \in 1 .. Len(Front(l)) : Front(l)[i] = y
      BY <1>4, ToSetIs
    <2>2. y \in ToSet(l) <=> \E i \in 1 .. Len(l) : l[i] = y
      BY ToSetIs
    <2>3. \A i \in 1 .. Len(l) : i = Len(l) \/ i \in 1 .. Len(l) - 1
      OBVIOUS
    <2> QED BY <1>1, <1>4, <1>5, <2>1, <2>2, <2>3
  <1>8. Last(l) \in ToSet(l)
    BY <1>1, ToSetIs
  <1> QED BY <1>1, <1>4, <1>6, <1>7, <1>8

\* Going on to the next element leaves the first one behind, and no other.
LEMMA TailKeeps ==
  ASSUME NEW S, NEW l \in Seq(S), l # <<>>, IsInjective(l)
  PROVE  /\ Tail(l) \in Seq(S) /\ IsInjective(Tail(l)) /\ Len(Tail(l)) = Len(l) - 1
         /\ Head(l) \in S /\ Head(l) \in ToSet(l)
         /\ ToSet(Tail(l)) = ToSet(l) \ {Head(l)}
  <1>1. 1 \in 1 .. Len(l) /\ l[1] \in S /\ Head(l) = l[1]
    OBVIOUS
  <1>2. /\ Tail(l) \in Seq(S) /\ Len(Tail(l)) = Len(l) - 1
        /\ \A i \in 1 .. Len(l) - 1 : Tail(l)[i] = l[i + 1]
    BY HeadTailProperties
  <1>3. \A i, j \in 1 .. Len(l) : l[i] = l[j] => i = j
    BY DEF IsInjective
  <1>4. \A i \in 1 .. Len(l) - 1 : i + 1 \in 1 .. Len(l) /\ i + 1 # 1
    OBVIOUS
  <1>5. IsInjective(Tail(l))
    BY <1>2, <1>3, <1>4 DEF IsInjective
  <1>6. ASSUME NEW y PROVE y \in ToSet(Tail(l)) <=> y \in ToSet(l) \ {Head(l)}
    <2>1. y \in ToSet(Tail(l)) <=> \E i \in 1 .. Len(Tail(l)) : Tail(l)[i] = y
      BY <1>2, ToSetIs
    <2>2. y \in ToSet(l) <=> \E i \in 1 .. Len(l) : l[i] = y
      BY ToSetIs
    <2>3. \A i \in 1 .. Len(l) : i = 1 \/ (i - 1 \in 1 .. Len(l) - 1 /\ (i - 1) + 1 = i)
      OBVIOUS
    <2> QED BY <1>1, <1>2, <1>3, <1>4, <2>1, <2>2, <2>3
  <1>7. Head(l) \in ToSet(l)
    BY <1>1, ToSetIs
  <1> QED BY <1>1, <1>2, <1>5, <1>6, <1>7

\* A list that holds each element once is as long as the set of its elements.
LEMMA InjectiveLen ==
  ASSUME NEW S, NEW l \in Seq(S)
  PROVE  /\ IsFiniteSet(ToSet(l))
         /\ IsInjective(l) <=> Len(l) = Cardinality(ToSet(l))
  <1>1. l \in Surjection(1 .. Len(l), ToSet(l))
    <2>1. \A i \in 1 .. Len(l) : l[i] \in ToSet(l)
      BY ToSetIs
    <2>2. l \in [1 .. Len(l) -> ToSet(l)]
      BY <2>1
    <2> QED BY <2>2, ToSetIs DEF Surjection
  <1>2. IsFiniteSet(1 .. Len(l)) /\ Cardinality(1 .. Len(l)) = Len(l)
    <2>1. Len(l) \in Int /\ 1 \in Int
      OBVIOUS
    <2>2. /\ IsFiniteSet(1 .. Len(l))
          /\ Cardinality(1 .. Len(l)) = IF 1 > Len(l) THEN 0 ELSE Len(l) - 1 + 1
      BY <2>1, FS_Interval
    <2> QED BY <2>2
  <1>3. /\ IsFiniteSet(ToSet(l))
        /\ Cardinality(ToSet(l)) = Cardinality(1 .. Len(l)) <=> l \in Injection(1 .. Len(l), ToSet(l))
    BY <1>1, <1>2, FS_Surjection
  <1>4. l \in Injection(1 .. Len(l), ToSet(l)) <=> IsInjective(l)
    BY <1>1 DEF Injection, Surjection
  <1> QED BY <1>2, <1>3, <1>4

\* A prefix holds the first m elements, each once.
LEMMA PrefixKeeps ==
  ASSUME NEW S, NEW l \in Seq(S), IsInjective(l), NEW m \in 0 .. Len(l)
  PROVE  /\ SubSeq(l, 1, m) \in Seq(S) /\ IsInjective(SubSeq(l, 1, m))
         /\ Len(SubSeq(l, 1, m)) = m
         /\ \A i \in 1 .. m : SubSeq(l, 1, m)[i] = l[i]
         /\ ToSet(SubSeq(l, 1, m)) \subseteq ToSet(l)
  <1> DEFINE a == SubSeq(l, 1, m)
  <1>1. /\ a \in Seq(S) /\ Len(a) = IF 1 <= m THEN m - 1 + 1 ELSE 0
        /\ \A i \in 1 .. m - 1 + 1 : a[i] = l[1 + i - 1]
    <2>1. \A i \in 1 .. m : l[i] \in S
      OBVIOUS
    <2>2. m \in Int /\ 1 \in Int
      OBVIOUS
    <2> QED BY <2>1, <2>2, SubSeqProperties
  <1> HIDE DEF a
  <1>2. Len(a) = m
    BY <1>1
  <1>3. \A i \in 1 .. m : a[i] = l[i] /\ i \in 1 .. Len(l)
    BY <1>1
  <1>4. DOMAIN a = 1 .. m /\ DOMAIN l = 1 .. Len(l)
    BY <1>1, <1>2
  <1>5. IsInjective(a)
    BY <1>3, <1>4 DEF IsInjective
  <1>6. ToSet(a) \subseteq ToSet(l)
    BY <1>3, <1>4 DEF ToSet
  <1> QED BY <1>1, <1>2, <1>3, <1>5, <1>6 DEF a

\* Two lists without a common element make one list of both.
LEMMA ConcatKeeps ==
  ASSUME NEW S, NEW l \in Seq(S), IsInjective(l), NEW m \in Seq(S), IsInjective(m),
         ToSet(l) \cap ToSet(m) = {}
  PROVE  /\ l \o m \in Seq(S) /\ IsInjective(l \o m)
         /\ ToSet(l \o m) = ToSet(l) \cup ToSet(m)
  <1> DEFINE a == l \o m
             p == Len(l)
             q == Len(m)
  <1>1. /\ a \in Seq(S) /\ Len(a) = p + q
        /\ \A i \in 1 .. p + q : a[i] = IF i <= p THEN l[i] ELSE m[i - p]
    BY ConcatProperties
  <1>2. p \in Nat /\ q \in Nat /\ DOMAIN l = 1 .. p /\ DOMAIN m = 1 .. q
    OBVIOUS
  <1> HIDE DEF a, p, q
  <1>3. DOMAIN a = 1 .. p + q
    BY <1>1
  <1>4. \A i \in 1 .. p : i \in 1 .. p + q /\ a[i] = l[i]
    BY <1>1, <1>2
  <1>5. \A i \in 1 .. q : p + i \in 1 .. p + q /\ a[p + i] = m[i]
    <2>1. TAKE i \in 1 .. q
    <2> DEFINE j == p + i
    <2>2. j \in 1 .. p + q /\ ~(j <= p) /\ j - p = i
      BY <1>2
    <2> HIDE DEF j
    <2>3. a[j] = m[j - p]
      BY <1>1, <2>2
    <2> QED BY <2>2, <2>3 DEF j
  <1>6. \A i \in 1 .. p + q : \/ i \in 1 .. p /\ a[i] = l[i] /\ a[i] \in ToSet(l)
                              \/ i - p \in 1 .. q /\ a[i] = m[i - p] /\ a[i] \in ToSet(m)
    <2>1. TAKE i \in 1 .. p + q
    <2>2. CASE i <= p
      BY <1>1, <1>2, <2>2 DEF ToSet
    <2>3. CASE ~(i <= p)
      <3>1. i - p \in 1 .. q
        BY <1>2, <2>3
      <3> QED BY <1>1, <1>2, <2>3, <3>1 DEF ToSet
    <2> QED BY <2>2, <2>3
  <1>7. ASSUME NEW i \in 1 .. p + q, NEW j \in 1 .. p + q, a[i] = a[j] PROVE i = j
    <2>1. CASE a[i] \in ToSet(l)
      <3>1. i \in 1 .. p /\ j \in 1 .. p /\ l[i] = l[j]
        BY <1>6, <1>7, <2>1
      <3> QED BY <1>2, <3>1 DEF IsInjective
    <2>2. CASE a[i] \notin ToSet(l)
      <3>1. i - p \in 1 .. q /\ j - p \in 1 .. q /\ m[i - p] = m[j - p]
        BY <1>6, <1>7, <2>2
      <3>2. i - p = j - p
        BY <1>2, <3>1 DEF IsInjective
      <3> QED BY <1>2, <3>2
    <2> QED BY <2>1, <2>2
  <1>8. IsInjective(a)
    BY <1>3, <1>7 DEF IsInjective
  <1>9. ToSet(a) = ToSet(l) \cup ToSet(m)
    <2>1. \A y \in ToSet(a) : y \in ToSet(l) \cup ToSet(m)
      BY <1>3, <1>6 DEF ToSet
    <2>2. \A y \in ToSet(l) : y \in ToSet(a)
      BY <1>2, <1>3, <1>4 DEF ToSet
    <2>3. \A y \in ToSet(m) : y \in ToSet(a)
      BY <1>2, <1>3, <1>5 DEF ToSet
    <2> QED BY <2>1, <2>2, <2>3
  <1> QED BY <1>1, <1>8, <1>9 DEF a

-----------------------------------------------------------------------------
(* Sums over finite sets.                                                  *)

SumOver(w, S) == MapThenSumSet(LAMBDA x : w[x], S)

Choice(s) == CHOOSE x \in s : TRUE

\* The equation of the recursive function in MapThenSumSet, on the sets in C.
SumEq(h, w, C) == h = [s \in C |-> IF s = {} THEN 0 ELSE w[Choice(s)] + h[s \ {Choice(s)}]]

\* A set of subsets that holds with a set all that is left when elements are taken.
Closed(C) == \A s \in C : IsFiniteSet(s) /\ (s # {} => s \ {Choice(s)} \in C)

\* A set of finite sets has, if any, one of least cardinality.
LEMMA LeastSet ==
  ASSUME NEW C, \A s \in C : IsFiniteSet(s), C # {}
  PROVE  \E s \in C : \A t \in C : Cardinality(s) <= Cardinality(t)
  <1> DEFINE N == {Cardinality(s) : s \in C}
  <1>1. N \in SUBSET Nat /\ N # {}
    BY FS_CardinalityType
  <1>2. PICK m \in N : \A k \in N : m <= k
    <2> HIDE DEF N
    <2> QED BY <1>1, NatLeast
  <1> QED BY <1>2

\* Choosing takes an element out, so that one fewer is left.
LEMMA ChoiceLess ==
  ASSUME NEW s, IsFiniteSet(s), s # {}
  PROVE  /\ Choice(s) \in s /\ IsFiniteSet(s \ {Choice(s)})
         /\ Cardinality(s) \in Nat /\ Cardinality(s \ {Choice(s)}) \in Nat
         /\ Cardinality(s \ {Choice(s)}) < Cardinality(s)
  <1>1. Choice(s) \in s
    BY DEF Choice
  <1>2. IsFiniteSet(s \ {Choice(s)}) /\ Cardinality(s \ {Choice(s)}) = Cardinality(s) - 1
    BY <1>1, FS_RemoveElement
  <1>3. Cardinality(s) \in Nat /\ Cardinality(s \ {Choice(s)}) \in Nat
    BY <1>2, FS_CardinalityType
  <1> QED BY <1>1, <1>2, <1>3

\* Solutions agree where both are defined.
LEMMA SumUnique ==
  ASSUME NEW C, NEW D, Closed(C), Closed(D), NEW w, NEW v, NEW h, NEW k,
         SumEq(h, w, C), SumEq(k, v, D), \A s \in C \cap D : s # {} => w[Choice(s)] = v[Choice(s)]
  PROVE  \A s \in C \cap D : h[s] = k[s]
  <1> DEFINE B == {s \in C \cap D : h[s] # k[s]}
  <1>1. SUFFICES ASSUME B # {} PROVE FALSE
    OBVIOUS
  <1>2. \A s \in B : IsFiniteSet(s)
    BY DEF Closed
  <1>3. PICK s \in B : \A t \in B : Cardinality(s) <= Cardinality(t)
    <2> HIDE DEF B
    <2> QED BY <1>1, <1>2, LeastSet
  <1>4. s \in C /\ s \in D /\ h[s] # k[s] /\ IsFiniteSet(s)
    BY <1>2, <1>3
  <1>5. h[s] = IF s = {} THEN 0 ELSE w[Choice(s)] + h[s \ {Choice(s)}]
    BY <1>4 DEF SumEq
  <1>6. k[s] = IF s = {} THEN 0 ELSE v[Choice(s)] + k[s \ {Choice(s)}]
    BY <1>4 DEF SumEq
  <1>7. s # {}
    BY <1>4, <1>5, <1>6
  <1>8. s \ {Choice(s)} \in C \cap D
    BY <1>4, <1>7 DEF Closed
  <1>9. s \ {Choice(s)} \notin B
    <2>1. /\ Cardinality(s) \in Nat /\ Cardinality(s \ {Choice(s)}) \in Nat
          /\ Cardinality(s \ {Choice(s)}) < Cardinality(s)
      BY <1>4, <1>7, ChoiceLess
    <2> HIDE DEF B
    <2> QED BY <1>3, <2>1
  <1>10. h[s \ {Choice(s)}] = k[s \ {Choice(s)}]
    BY <1>8, <1>9
  <1>11. w[Choice(s)] = v[Choice(s)]
    BY <1>4, <1>7
  <1> QED BY <1>4, <1>5, <1>6, <1>7, <1>10, <1>11

\* There is a solution for the subsets of a finite set.
LEMMA SumExists ==
  ASSUME NEW S, IsFiniteSet(S), NEW w
  PROVE  \E h : SumEq(h, w, SUBSET S)
  <1> DEFINE Up(n) == {s \in SUBSET S : Cardinality(s) <= n}
             T == {n \in Nat : ~\E h : SumEq(h, w, Up(n))}
  <1>1. \A s \in SUBSET S : IsFiniteSet(s) /\ Cardinality(s) \in Nat /\ Cardinality(s) <= Cardinality(S)
    BY FS_Subset, FS_CardinalityType
  <1>2. Cardinality(S) \in Nat /\ Up(Cardinality(S)) = SUBSET S
    BY <1>1, FS_CardinalityType
  <1>3. SUFFICES T = {}
    BY <1>2, <1>3
  <1>4. SUFFICES ASSUME T # {} PROVE FALSE
    OBVIOUS
  <1>5. PICK n \in T : \A k \in T : n <= k
    <2>1. T \in SUBSET Nat
      OBVIOUS
    <2> HIDE DEF T
    <2> QED BY <1>4, <2>1, NatLeast
  <1>6. n # 0
    <2>1. SUFFICES ASSUME n = 0 PROVE FALSE
      OBVIOUS
    <2>2. \A s \in Up(0) : s = {}
      <3>1. TAKE s \in Up(0)
      <3>2. Cardinality(s) = 0 /\ IsFiniteSet(s)
        BY <1>1
      <3> QED BY <3>2, FS_EmptySet
    <2>3. SumEq([s \in Up(0) |-> 0], w, Up(0))
      <3> HIDE DEF Up
      <3> QED BY <2>2 DEF SumEq
    <2> QED BY <1>5, <2>1, <2>3
  <1>7. n - 1 \in Nat /\ n - 1 \notin T /\ n \in Nat
    <2>1. n \in Nat
      BY <1>5
    <2> HIDE DEF T
    <2> QED BY <1>5, <1>6, <2>1
  <1>8. PICK g : SumEq(g, w, Up(n - 1))
    BY <1>7
  <1> DEFINE f == [s \in Up(n) |-> IF s = {} THEN 0 ELSE w[Choice(s)] + g[s \ {Choice(s)}]]
  <1>9. ASSUME NEW s \in Up(n), s # {}
        PROVE  s \ {Choice(s)} \in Up(n - 1) /\ s \ {Choice(s)} \in Up(n)
    <2>1. s \in SUBSET S /\ IsFiniteSet(s) /\ Cardinality(s) <= n
      BY <1>1
    <2>2. /\ Cardinality(s) \in Nat /\ Cardinality(s \ {Choice(s)}) \in Nat
          /\ Cardinality(s \ {Choice(s)}) < Cardinality(s)
      BY <1>9, <2>1, ChoiceLess
    <2> QED BY <1>7, <2>1, <2>2
  <1>10. \A s \in Up(n - 1) : s \in Up(n) /\ g[s] = f[s]
    <2>1. TAKE s \in Up(n - 1)
    <2>2. s \in Up(n)
      BY <1>1, <1>7
    <2>3. g[s] = IF s = {} THEN 0 ELSE w[Choice(s)] + g[s \ {Choice(s)}]
      BY <1>8 DEF SumEq
    <2> HIDE DEF Up
    <2> QED BY <2>2, <2>3
  <1>11. f = [s \in Up(n) |-> IF s = {} THEN 0 ELSE w[Choice(s)] + f[s \ {Choice(s)}]]
    <2>1. \A s \in Up(n) : s # {} => g[s \ {Choice(s)}] = f[s \ {Choice(s)}]
      BY <1>9, <1>10
    <2> DEFINE e == [s \in Up(n) |-> IF s = {} THEN 0 ELSE w[Choice(s)] + f[s \ {Choice(s)}]]
    <2>2. \A s \in Up(n) : f[s] = e[s]
      <3>1. TAKE s \in Up(n)
      <3>2. f[s] = IF s = {} THEN 0 ELSE w[Choice(s)] + g[s \ {Choice(s)}]
        <4> HIDE DEF Up
        <4> QED OBVIOUS
      <3>3. e[s] = IF s = {} THEN 0 ELSE w[Choice(s)] + f[s \ {Choice(s)}]
        <4> HIDE DEF Up, f
        <4> QED OBVIOUS
      <3> HIDE DEF Up, f, e
      <3> QED BY <2>1, <3>2, <3>3
    <2>3. f = [s \in Up(n) |-> f[s]] /\ e = [s \in Up(n) |-> e[s]]
      <3> HIDE DEF Up
      <3> QED OBVIOUS
    <2> HIDE DEF Up
    <2>4. f = e
      <3> HIDE DEF f, e
      <3> QED BY <2>2, <2>3
    <2> QED BY <2>4
  <1> HIDE DEF f, Up
  <1>12. SumEq(f, w, Up(n))
    BY <1>11 DEF SumEq
  <1> QED BY <1>5, <1>12

\* MapThenSumSet is the solution.
LEMMA SumIs ==
  ASSUME NEW S, IsFiniteSet(S), NEW w
  PROVE  \E h : SumEq(h, w, SUBSET S) /\ SumOver(w, S) = h[S]
  <1> DEFINE h == CHOOSE f : SumEq(f, w, SUBSET S)
  <1>1. SumOver(w, S) = h[S]
    BY DEF SumOver, MapThenSumSet, MapThenFoldSet, SumEq, Choice
  <1>2. SumEq(h, w, SUBSET S)
    BY SumExists
  <1> QED BY <1>1, <1>2

\* The subsets of a finite set are closed.
LEMMA SubsetsClosed ==
  ASSUME NEW S, IsFiniteSet(S)
  PROVE  Closed(SUBSET S)
  BY FS_Subset DEF Closed

\* Equal summands make equal sums.
LEMMA SumSame ==
  ASSUME NEW S, IsFiniteSet(S), NEW w, NEW v, \A x \in S : w[x] = v[x]
  PROVE  SumOver(w, S) = SumOver(v, S)
  <1>1. PICK h : SumEq(h, w, SUBSET S) /\ SumOver(w, S) = h[S]
    BY SumIs
  <1>2. PICK k : SumEq(k, v, SUBSET S) /\ SumOver(v, S) = k[S]
    BY SumIs
  <1>3. \A s \in SUBSET S : s # {} => w[Choice(s)] = v[Choice(s)]
    BY DEF Choice
  <1> DEFINE C == SUBSET S
  <1>4. /\ Closed(C) /\ SumEq(h, w, C) /\ SumEq(k, v, C) /\ S \in C
        /\ \A s \in C \cap C : s # {} => w[Choice(s)] = v[Choice(s)]
    BY <1>1, <1>2, <1>3, SubsetsClosed
  <1> HIDE DEF C
  <1>5. \A s \in C \cap C : h[s] = k[s]
    BY <1>4, SumUnique
  <1> QED BY <1>1, <1>2, <1>4, <1>5

\* An empty sum is zero, and one of a nonempty set starts with the chosen element.
LEMMA SumFirst ==
  ASSUME NEW S, IsFiniteSet(S), NEW w
  PROVE  /\ S = {} => SumOver(w, S) = 0
         /\ S # {} => SumOver(w, S) = w[Choice(S)] + SumOver(w, S \ {Choice(S)})
  <1>1. PICK h : SumEq(h, w, SUBSET S) /\ SumOver(w, S) = h[S]
    BY SumIs
  <1>2. h[S] = IF S = {} THEN 0 ELSE w[Choice(S)] + h[S \ {Choice(S)}]
    BY <1>1 DEF SumEq
  <1>3. CASE S = {}
    BY <1>1, <1>2, <1>3
  <1>4. CASE S # {}
    <2> DEFINE R == S \ {Choice(S)}
    <2>1. IsFiniteSet(R) /\ R \in SUBSET S
      BY <1>4, ChoiceLess
    <2> HIDE DEF R
    <2>2. PICK k : SumEq(k, w, SUBSET R) /\ SumOver(w, R) = k[R]
      BY <2>1, SumIs
    <2> DEFINE C == SUBSET S
               D == SUBSET R
    <2>3. Closed(C) /\ Closed(D) /\ SumEq(h, w, C) /\ SumEq(k, w, D) /\ R \in C \cap D
      BY <1>1, <2>1, <2>2, SubsetsClosed
    <2> HIDE DEF C, D
    <2>4. h[R] = k[R]
      BY <2>3, SumUnique
    <2> QED BY <1>1, <1>2, <1>4, <2>2, <2>4 DEF R
  <1> QED BY <1>3, <1>4

\* A sum may be taken apart at any of its elements.
LEMMA SumSplit ==
  ASSUME NEW S, IsFiniteSet(S), NEW w, \A y \in S : w[y] \in Nat
  PROVE  /\ SumOver(w, S) \in Nat
         /\ \A x \in S : SumOver(w, S) = w[x] + SumOver(w, S \ {x})
  <1> DEFINE Good(U) == /\ SumOver(w, U) \in Nat
                        /\ \A x \in U : SumOver(w, U) = w[x] + SumOver(w, U \ {x})
             B == {U \in SUBSET S : ~Good(U)}
  <1>1. SUFFICES B = {}
    BY <1>1
  <1>2. SUFFICES ASSUME B # {} PROVE FALSE
    OBVIOUS
  <1>3. \A U \in SUBSET S : IsFiniteSet(U) /\ Cardinality(U) \in Nat
    BY FS_Subset, FS_CardinalityType
  <1>4. PICK U \in B : \A V \in B : Cardinality(U) <= Cardinality(V)
    <2>1. \A V \in B : IsFiniteSet(V)
      BY <1>3
    <2> HIDE DEF B
    <2> QED BY <1>2, <2>1, LeastSet
  <1>5. U \in SUBSET S /\ ~Good(U) /\ IsFiniteSet(U)
    BY <1>3, <1>4
  <1>6. ASSUME NEW x \in U PROVE IsFiniteSet(U \ {x}) /\ Good(U \ {x})
    <2>1. IsFiniteSet(U \ {x}) /\ Cardinality(U \ {x}) = Cardinality(U) - 1
      BY <1>5, FS_RemoveElement
    <2>2. U \ {x} \in SUBSET S
      BY <1>5
    <2>3. Cardinality(U) \in Nat /\ Cardinality(U \ {x}) \in Nat
      BY <1>3, <1>5, <2>2
    <2>4. U \ {x} \notin B
      <3> HIDE DEF B
      <3> QED BY <1>4, <2>1, <2>3
    <2> HIDE DEF Good
    <2> QED BY <2>1, <2>2, <2>4
  <1>7. U # {}
    <2>1. SUFFICES ASSUME U = {} PROVE FALSE
      OBVIOUS
    <2>2. SumOver(w, U) = 0
      BY <1>5, <2>1, SumFirst
    <2> QED BY <1>5, <2>1, <2>2
  <1> DEFINE c == Choice(U)
  <1>8. c \in U /\ SumOver(w, U) = w[c] + SumOver(w, U \ {c})
    BY <1>5, <1>7, SumFirst, ChoiceLess
  <1> HIDE DEF c
  <1>9. w[c] \in Nat /\ SumOver(w, U \ {c}) \in Nat
    BY <1>5, <1>6, <1>8
  <1>10. SumOver(w, U) \in Nat
    BY <1>8, <1>9
  <1>11. ASSUME NEW x \in U PROVE SumOver(w, U) = w[x] + SumOver(w, U \ {x})
    <2>1. CASE x = c
      BY <1>8, <2>1
    <2>2. CASE x # c
      <3> DEFINE R == (U \ {c}) \ {x}
      <3>1. SumOver(w, U \ {c}) = w[x] + SumOver(w, R)
        BY <1>6, <1>8, <2>2
      <3>2. SumOver(w, U \ {x}) = w[c] + SumOver(w, (U \ {x}) \ {c})
        BY <1>6, <1>8, <2>2
      <3>3. (U \ {x}) \ {c} = R
        OBVIOUS
      <3>4. IsFiniteSet(R) /\ R \in SUBSET S /\ c \in U \ {x} /\ w[x] \in Nat
        BY <1>3, <1>5, <1>8, <2>2
      <3>5. SumOver(w, R) \in Nat
        <4>1. Good(U \ {c}) /\ x \in U \ {c} /\ Cardinality(R) \in Nat /\ Cardinality(U) \in Nat
          BY <1>3, <1>5, <1>6, <1>8, <2>2, <3>4
        <4>2. Cardinality(R) = Cardinality(U) - 2
          <5>1. Cardinality(U \ {c}) = Cardinality(U) - 1 /\ IsFiniteSet(U \ {c})
            BY <1>5, <1>8, FS_RemoveElement
          <5>2. Cardinality(R) = Cardinality(U \ {c}) - 1
            BY <4>1, <5>1, FS_RemoveElement
          <5> QED BY <4>1, <5>1, <5>2
        <4>3. R \notin B
          <5> HIDE DEF B, R
          <5> QED BY <1>4, <4>1, <4>2
        <4> HIDE DEF R
        <4> QED BY <3>4, <4>3
      <3> HIDE DEF R
      <3> QED BY <1>8, <1>9, <3>1, <3>2, <3>3, <3>4, <3>5
    <2> QED BY <2>1, <2>2
  <1> QED BY <1>5, <1>10, <1>11

=============================================================================
