---------------------------- MODULE RtTmrProofs -----------------------------
(***************************************************************************)
(* Proofs about the real-time timers, for every set of timers and every    *)
(* width of the tick counter: the pointers of rt_tmr_link and              *)
(* rt_tmr_unlink always form one doubly linked list, ordered by expiry,    *)
(* and the list implements the service of RtTmrAbs.                        *)
(***************************************************************************)
EXTENDS RtTmr, SeqLemmas

(***************************************************************************)
(* Walk is the function that its recursive equation determines: any g that *)
(* satisfies the equation equals it.                                       *)
(***************************************************************************)
WalkEquation(f, nxt, p, n) ==
  f = [i \in 0 .. n |-> IF i = 0 THEN p
                        ELSE IF f[i - 1] = NULL THEN NULL ELSE nxt[f[i - 1]]]

LEMMA WalkIs ==
  ASSUME NEW n \in Nat, NEW nxt, NEW p, NEW g, WalkEquation(g, nxt, p, n)
  PROVE  Walk(nxt, p, n) = g
<1> DEFINE Rec(f) == WalkEquation(f, nxt, p, n)
<1> USE DEF WalkEquation
<1>1. ASSUME NEW f, Rec(f)
      PROVE  f = g
  <2> DEFINE T == {i \in 0 .. n : f[i] # g[i]}
  <2>1. T = {}
    <3>1. SUFFICES ASSUME T # {} PROVE FALSE
      OBVIOUS
    <3>2. PICK m \in T : \A k \in T : m <= k
      <4>1. T \in SUBSET Nat
        OBVIOUS
      <4> HIDE DEF T
      <4>2. QED
        BY <3>1, <4>1, NatLeast
    <3>3. m # 0
      BY <1>1
    <3>4. m - 1 \in 0 .. n /\ m - 1 \notin T
      BY <3>2, <3>3
    <3>5. QED
      BY <1>1, <3>2, <3>3, <3>4
  <2>2. \A i \in 0 .. n : f[i] = g[i]
    BY <2>1
  <2>3. f = [i \in 0 .. n |-> f[i]] /\ g = [i \in 0 .. n |-> g[i]]
    BY <1>1
  <2> HIDE DEF Rec
  <2>4. QED
    BY <2>2, <2>3
<1>2. Walk(nxt, p, n) = CHOOSE at : Rec(at)
  BY DEF Walk
<1>3. Rec(g)
  OBVIOUS
<1> HIDE DEF Rec
<1>4. Rec(CHOOSE at : Rec(at))
  BY <1>3
<1>5. QED
  BY <1>1, <1>2, <1>4

-----------------------------------------------------------------------------
(* Lists.                                                                  *)

ListType(l) ==
  l \in [head : Ptr, tail : Ptr, qty : Nat, next : [Tmr -> Ptr], prev : [Tmr -> Ptr]]

\* s[1], .., s[n] are the nodes of the list l, in order
IsList(l, n, s) ==
  /\ n \in Nat /\ s \in [1 .. n -> Tmr]
  /\ \A i, j \in 1 .. n : s[i] = s[j] => i = j
  /\ l.qty = n
  /\ l.head = IF n = 0 THEN NULL ELSE s[1]
  /\ l.tail = IF n = 0 THEN NULL ELSE s[n]
  /\ \A i \in 1 .. n : l.next[s[i]] = IF i = n THEN NULL ELSE s[i + 1]
  /\ \A i \in 1 .. n : l.prev[s[i]] = IF i = 1 THEN NULL ELSE s[i - 1]
  /\ \A t \in Tmr : (\A i \in 1 .. n : s[i] # t) => l.next[t] = NULL /\ l.prev[t] = NULL

Sorted(ctr, n, s) == \A i, j \in 1 .. n : i <= j => ctr[s[i]] <= ctr[s[j]]

Insert(s, n, k, x) ==
  [i \in 1 .. n + 1 |-> IF i < k THEN s[i] ELSE IF i = k THEN x ELSE s[i - 1]]

Delete(s, n, k) == [i \in 1 .. n - 1 |-> IF i < k THEN s[i] ELSE s[i + 1]]

(***************************************************************************)
(* Walking n steps from the head of a list of n nodes visits its nodes in  *)
(* order and ends at NULL; walking back from the tail visits them in       *)
(* reverse.                                                                *)
(***************************************************************************)
Forward(n, s) == [i \in 0 .. n |-> IF i = n THEN NULL ELSE s[i + 1]]
Backward(n, s) == [i \in 0 .. n |-> IF i = n THEN NULL ELSE s[n - i]]

LEMMA WalkList ==
  ASSUME NEW l, NEW n, NEW s, IsList(l, n, s)
  PROVE  /\ Walk(l.next, l.head, n) = Forward(n, s)
         /\ Walk(l.prev, l.tail, n) = Backward(n, s)
<1>0. n \in Nat /\ s \in [1 .. n -> Tmr] /\ \A i \in 1 .. n : s[i] # NULL
  BY RtTmrAssumption DEF IsList
<1> DEFINE f == Forward(n, s)
           g == Backward(n, s)
<1> USE DEF Forward, Backward
<1>1. WalkEquation(f, l.next, l.head, n)
  <2>1. f[0] = l.head
    BY <1>0 DEF IsList
  <2>2. ASSUME NEW i \in 0 .. n, i # 0
        PROVE  f[i - 1] # NULL /\ f[i] = l.next[f[i - 1]]
    <3>1. i \in 1 .. n /\ f[i - 1] = s[i]
      BY <1>0, <2>2
    <3>2. l.next[s[i]] = IF i = n THEN NULL ELSE s[i + 1]
      BY <3>1 DEF IsList
    <3>3. QED
      BY <1>0, <3>1, <3>2
  <2>3. QED
    BY <2>1, <2>2 DEF WalkEquation
<1>2. WalkEquation(g, l.prev, l.tail, n)
  <2>1. g[0] = l.tail
    BY <1>0 DEF IsList
  <2>2. ASSUME NEW i \in 0 .. n, i # 0
        PROVE  g[i - 1] # NULL /\ g[i] = l.prev[g[i - 1]]
    <3>1. n - (i - 1) \in 1 .. n /\ g[i - 1] = s[n - (i - 1)]
      BY <1>0, <2>2
    <3>2. g[i - 1] # NULL
      BY <1>0, <3>1
    <3>3. l.prev[s[n - (i - 1)]] = IF n - (i - 1) = 1 THEN NULL ELSE s[n - i]
      BY <1>0, <3>1 DEF IsList
    <3>4. QED
      BY <1>0, <3>1, <3>2, <3>3
  <2>3. QED
    BY <2>1, <2>2 DEF WalkEquation
<1> HIDE DEF f, g
<1>3. Walk(l.next, l.head, n) = f
  BY <1>0, <1>1, WalkIs
<1>4. Walk(l.prev, l.tail, n) = g
  BY <1>0, <1>2, WalkIs
<1>5. QED
  BY <1>3, <1>4 DEF f, g

(***************************************************************************)
(* The search loop of rt_tmr_link finds the place k: everything before is  *)
(* earlier than c, everything from it on is not.                           *)
(***************************************************************************)
LEMMA PlaceFound ==
  ASSUME NEW l, NEW n, NEW s, IsList(l, n, s),
         NEW ctr \in [Tmr -> Nat], Sorted(ctr, n, s), NEW c \in Nat
  PROVE  \E k \in 1 .. n + 1 :
           /\ InsertionPlace(l, ctr, c) = IF k = n + 1 THEN NULL ELSE s[k]
           /\ \A i \in 1 .. n : i < k => ctr[s[i]] <= c
           /\ \A i \in 1 .. n : i >= k => c <= ctr[s[i]]
<1> DEFINE at == Forward(n, s)
           ends == {i \in 0 .. n : i = n \/ ctr[at[i]] >= c}
           m == CHOOSE i \in ends : \A k \in ends : i <= k
<1>0. n \in Nat /\ s \in [1 .. n -> Tmr] /\ l.qty = n
  BY DEF IsList
<1>1. InsertionPlace(l, ctr, c) = at[m]
  <2> DEFINE P(a, q) == a[CHOOSE i \in {j \in 0 .. q : j = q \/ ctr[a[j]] >= c} :
                            \A k \in {j \in 0 .. q : j = q \/ ctr[a[j]] >= c} : i <= k]
  <2>1. InsertionPlace(l, ctr, c) = P(Walk(l.next, l.head, l.qty), l.qty)
    BY DEF InsertionPlace
  <2>2. at[m] = P(at, n)
    OBVIOUS
  <2>3. Walk(l.next, l.head, n) = at
    BY WalkList
  <2> HIDE DEF P, at, m
  <2>4. QED
    BY <1>0, <2>1, <2>2, <2>3
<1> USE DEF Forward
<1>2. m \in ends /\ \A k \in ends : m <= k
  <2>1. n \in ends /\ ends \in SUBSET Nat
    BY <1>0
  <2> HIDE DEF ends
  <2>2. \E i \in ends : \A k \in ends : i <= k
    BY <2>1, NatLeast
  <2>3. QED
    BY <2>2
<1> HIDE DEF m
<1>3. m \in 0 .. n /\ m + 1 \in 1 .. n + 1
  BY <1>0, <1>2
<1>4. at[m] = IF m + 1 = n + 1 THEN NULL ELSE s[m + 1]
  BY <1>0, <1>3
<1>5. \A i \in 1 .. n : i < m + 1 => ctr[s[i]] <= c
  <2> SUFFICES ASSUME NEW i \in 1 .. n, i < m + 1
               PROVE  ctr[s[i]] <= c
    OBVIOUS
  <2>0. i - 1 \in 0 .. n /\ i - 1 # n /\ i - 1 < m
    BY <1>0, <1>3
  <2>1. i - 1 \notin ends
    <3> HIDE DEF ends
    <3>1. QED
      BY <1>2, <1>3, <2>0
  <2>2. ~(ctr[at[i - 1]] >= c) /\ at[i - 1] = s[i]
    BY <1>0, <2>0, <2>1
  <2>3. QED
    BY <1>0, <2>2
<1>6. \A i \in 1 .. n : i >= m + 1 => c <= ctr[s[i]]
  <2> SUFFICES ASSUME NEW i \in 1 .. n, i >= m + 1
               PROVE  c <= ctr[s[i]]
    OBVIOUS
  <2>1. m # n /\ ctr[at[m]] >= c /\ at[m] = s[m + 1] /\ m + 1 \in 1 .. n
    BY <1>0, <1>2, <1>3
  <2>2. ctr[s[m + 1]] <= ctr[s[i]]
    BY <1>3, <2>1 DEF Sorted
  <2>3. s[i] \in Tmr /\ s[m + 1] \in Tmr
    BY <1>0, <2>1
  <2>4. QED
    BY <2>1, <2>2, <2>3
<1>7. QED
  BY <1>1, <1>3, <1>4, <1>5, <1>6

(***************************************************************************)
(* rt_tmr_link inserts the new node, in order, and leaves a list.          *)
(***************************************************************************)
LEMMA LinkInserts ==
  ASSUME NEW l, ListType(l), NEW n, NEW s, IsList(l, n, s),
         NEW ctr \in [Tmr -> Nat], Sorted(ctr, n, s),
         NEW new \in Tmr, \A i \in 1 .. n : s[i] # new
  PROVE  /\ ListType(Link(l, ctr, new))
         /\ \E k \in 1 .. n + 1 : /\ IsList(Link(l, ctr, new), n + 1, Insert(s, n, k, new))
                                  /\ Sorted(ctr, n + 1, Insert(s, n, k, new))
<1> DEFINE found == InsertionPlace(l, ctr, ctr[new])
           L == Link(l, ctr, new)
<1>0. /\ n \in Nat /\ s \in [1 .. n -> Tmr] /\ NULL \notin Tmr
      /\ \A i \in 1 .. n : s[i] \in Tmr /\ s[i] # NULL
  BY RtTmrAssumption DEF IsList
<1>1. PICK k \in 1 .. n + 1 :
        /\ found = IF k = n + 1 THEN NULL ELSE s[k]
        /\ \A i \in 1 .. n : i < k => ctr[s[i]] <= ctr[new]
        /\ \A i \in 1 .. n : i >= k => ctr[new] <= ctr[s[i]]
  BY PlaceFound
<1> HIDE DEF found
<1> DEFINE S == Insert(s, n, k, new)
<1>2. /\ S \in [1 .. n + 1 -> Tmr]
      /\ \A i \in 1 .. n : i < k => S[i] = s[i]
      /\ S[k] = new
      /\ \A i \in 1 .. n : i >= k => S[i + 1] = s[i]
      /\ \A i \in 1 .. n + 1 : i > k => S[i] = s[i - 1] /\ i - 1 \in 1 .. n
  BY <1>0 DEF Insert
<1> HIDE DEF S
<1>3. \A i, j \in 1 .. n + 1 : S[i] = S[j] => i = j
  <2>1. \A i, j \in 1 .. n : s[i] = s[j] => i = j
    BY DEF IsList
  <2>2. \A i \in 1 .. n + 1 : i < k => S[i] = s[i] /\ i \in 1 .. n
    BY <1>0, <1>2
  <2> SUFFICES ASSUME NEW i \in 1 .. n + 1, NEW j \in 1 .. n + 1, S[i] = S[j]
               PROVE  i = j
    OBVIOUS
  <2>3. CASE i = k \/ j = k
    BY <1>0, <1>2, <2>2, <2>3
  <2>4. CASE i < k /\ j < k
    BY <2>1, <2>2, <2>4
  <2>5. CASE i < k /\ j > k
    BY <1>2, <2>1, <2>2, <2>5
  <2>6. CASE i > k /\ j < k
    BY <1>2, <2>1, <2>2, <2>6
  <2>7. CASE i > k /\ j > k
    BY <1>2, <2>1, <2>7
  <2>8. QED
    BY <2>3, <2>4, <2>5, <2>6, <2>7
<1>4. Sorted(ctr, n + 1, S)
  <2>1. \A i \in 1 .. n + 1 : i < k => S[i] = s[i] /\ i \in 1 .. n
    BY <1>0, <1>2
  <2> SUFFICES ASSUME NEW i \in 1 .. n + 1, NEW j \in 1 .. n + 1, i <= j
               PROVE  ctr[S[i]] <= ctr[S[j]]
    BY DEF Sorted
  <2>2. CASE i < k /\ j < k
    BY <2>1, <2>2 DEF Sorted
  <2>3. CASE i < k /\ j = k
    BY <1>1, <1>2, <2>1, <2>3
  <2>4. CASE i < k /\ j > k
    BY <1>2, <2>1, <2>4 DEF Sorted
  <2>5. CASE i = k /\ j = k
    BY <1>2, <2>5
  <2>6. CASE i = k /\ j > k
    BY <1>1, <1>2, <2>6
  <2>7. CASE i > k /\ j > k
    BY <1>2, <2>7 DEF Sorted
  <2>8. QED
    BY <2>2, <2>3, <2>4, <2>5, <2>6, <2>7
<1>5. /\ l.head \in Ptr /\ l.tail \in Ptr /\ l.qty = n
      /\ l.next \in [Tmr -> Ptr] /\ l.prev \in [Tmr -> Ptr]
      /\ l.next[new] = NULL /\ l.prev[new] = NULL
      /\ l.head = IF n = 0 THEN NULL ELSE s[1]
      /\ l.tail = IF n = 0 THEN NULL ELSE s[n]
  BY DEF ListType, IsList
<1>6. /\ \A i, j \in 1 .. n : s[i] = s[j] => i = j
      /\ \A i \in 1 .. n : l.next[s[i]] = IF i = n THEN NULL ELSE s[i + 1]
      /\ \A i \in 1 .. n : l.prev[s[i]] = IF i = 1 THEN NULL ELSE s[i - 1]
      /\ \A t \in Tmr : (\A i \in 1 .. n : s[i] # t) => l.next[t] = NULL /\ l.prev[t] = NULL
  BY DEF IsList
<1> DEFINE head == IF k = 1 THEN new ELSE l.head
           tail == IF k = n + 1 THEN new ELSE l.tail
           next == [x \in Tmr |-> IF x = new THEN (IF k = n + 1 THEN NULL ELSE s[k])
                                  ELSE IF k # 1 /\ x = s[k - 1] THEN new ELSE l.next[x]]
           prev == [x \in Tmr |-> IF x = new THEN (IF k = 1 THEN NULL ELSE s[k - 1])
                                  ELSE IF k # n + 1 /\ x = s[k] THEN new ELSE l.prev[x]]
<1>7. L = [head |-> head, tail |-> tail, qty |-> n + 1, next |-> next, prev |-> prev]
  <2>1. CASE n = 0
    <3>1. k = 1 /\ l.head = NULL
      BY <1>5, <2>1
    <3>2. L = [l EXCEPT !.head = new, !.tail = new, !.qty = @ + 1]
      BY <1>5, <2>1 DEF Link
    <3>3. head = new /\ tail = new /\ next = l.next /\ prev = l.prev
      BY <1>5, <2>1, <3>1
    <3>4. L = [head |-> new, tail |-> new, qty |-> n + 1, next |-> l.next, prev |-> l.prev]
      BY <1>5, <3>2 DEF ListType
    <3> HIDE DEF L, head, tail, next, prev
    <3>5. QED
      BY <3>3, <3>4
  <2>2. CASE n # 0 /\ k = n + 1
    <3>1. l.head # NULL /\ l.head \in Tmr /\ l.tail = s[n] /\ s[n] \in Tmr /\ s[n] # new /\ k # 1
      BY <1>0, <1>5, <2>2
    <3>2. L = [l EXCEPT !.next[l.tail] = new, !.prev[new] = l.tail, !.tail = new, !.qty = @ + 1]
      BY <1>0, <1>1, <1>5, <2>2, <3>1 DEF Link, found
    <3>3. /\ head = l.head /\ tail = new /\ k - 1 = n
          /\ next = [l.next EXCEPT ![l.tail] = new]
          /\ prev = [l.prev EXCEPT ![new] = l.tail]
      <4>1. k - 1 = n
        BY <1>0, <2>2
      <4>2. QED
        BY <1>0, <1>5, <2>2, <3>1, <4>1
    <3>4. L = [head |-> l.head, tail |-> new, qty |-> n + 1,
               next |-> [l.next EXCEPT ![l.tail] = new],
               prev |-> [l.prev EXCEPT ![new] = l.tail]]
      BY <1>5, <3>2 DEF ListType
    <3> HIDE DEF L, head, tail, next, prev
    <3>5. QED
      BY <3>3, <3>4
  <2>3. CASE n # 0 /\ k = 1
    <3>1. l.head # NULL /\ l.head = s[1] /\ s[1] \in Tmr /\ s[1] # new /\ k # n + 1
      BY <1>0, <1>5, <2>3
    <3>2. L = [l EXCEPT !.next[new] = l.head, !.prev[l.head] = new, !.head = new, !.qty = @ + 1]
      BY <1>0, <1>1, <1>5, <2>3, <3>1 DEF Link, found
    <3>3. /\ head = new /\ tail = l.tail
          /\ next = [l.next EXCEPT ![new] = l.head]
          /\ prev = [l.prev EXCEPT ![l.head] = new]
      BY <1>0, <1>5, <2>3, <3>1
    <3>4. L = [head |-> new, tail |-> l.tail, qty |-> n + 1,
               next |-> [l.next EXCEPT ![new] = l.head],
               prev |-> [l.prev EXCEPT ![l.head] = new]]
      BY <1>5, <3>2 DEF ListType
    <3> HIDE DEF L, head, tail, next, prev
    <3>5. QED
      BY <3>3, <3>4
  <2>4. CASE n # 0 /\ k # 1 /\ k # n + 1
    <3>1. /\ k \in 1 .. n /\ k - 1 \in 1 .. n
          /\ s[k] \in Tmr /\ s[k - 1] \in Tmr /\ s[k] # new /\ s[k - 1] # new
      BY <1>0, <2>4
    <3>2. l.head # NULL /\ s[k] # l.head /\ l.prev[s[k]] = s[k - 1] /\ s[k] # NULL
      BY <1>0, <1>5, <1>6, <2>4, <3>1
    <3>3. L = [l EXCEPT !.next = [@ EXCEPT ![s[k - 1]] = new, ![new] = s[k]],
                        !.prev = [@ EXCEPT ![new] = s[k - 1], ![s[k]] = new],
                        !.qty = @ + 1]
      BY <1>1, <2>4, <3>2 DEF Link, found
    <3>4. /\ head = l.head /\ tail = l.tail
          /\ next = [l.next EXCEPT ![s[k - 1]] = new, ![new] = s[k]]
          /\ prev = [l.prev EXCEPT ![new] = s[k - 1], ![s[k]] = new]
      BY <1>0, <1>5, <2>4, <3>1
    <3>5. L = [head |-> l.head, tail |-> l.tail, qty |-> n + 1,
               next |-> [l.next EXCEPT ![s[k - 1]] = new, ![new] = s[k]],
               prev |-> [l.prev EXCEPT ![new] = s[k - 1], ![s[k]] = new]]
      BY <1>5, <3>3 DEF ListType
    <3> HIDE DEF L, head, tail, next, prev
    <3>6. QED
      BY <3>4, <3>5
  <2>5. QED
    BY <2>1, <2>2, <2>3, <2>4
<1>8. ListType(L)
  <2>1. next \in [Tmr -> Ptr] /\ prev \in [Tmr -> Ptr]
    BY <1>0, <1>5 DEF Ptr
  <2>2. n + 1 \in Nat /\ new \in Ptr
    BY <1>0 DEF Ptr
  <2>3. head \in Ptr /\ tail \in Ptr
    BY <1>5, <2>2
  <2> HIDE DEF L, head, tail, next, prev
  <2>4. QED
    BY <1>7, <2>1, <2>2, <2>3 DEF ListType
<1>9. IsList(L, n + 1, S)
  <2>1. /\ L.head = S[1] /\ L.tail = S[n + 1] /\ L.qty = n + 1
        /\ L.next = next /\ L.prev = prev
    <3> HIDE DEF L, next, prev
    <3>1. S[1] = head
      BY <1>0, <1>2, <1>5
    <3>2. S[n + 1] = tail
      BY <1>0, <1>2, <1>5
    <3> HIDE DEF head, tail
    <3>3. QED
      BY <1>7, <3>1, <3>2
  <2> HIDE DEF L
  <2>2. ASSUME NEW i \in 1 .. n + 1
        PROVE  /\ next[S[i]] = IF i = n + 1 THEN NULL ELSE S[i + 1]
               /\ prev[S[i]] = IF i = 1 THEN NULL ELSE S[i - 1]
    <3>1. CASE i < k
      <4>1. i \in 1 .. n /\ S[i] = s[i] /\ s[i] # new /\ s[i] \in Tmr /\ i # n + 1
        BY <1>0, <1>2, <3>1
      <4>2. next[S[i]] = S[i + 1]
        <5>1. CASE i = k - 1
          BY <1>0, <1>2, <3>1, <4>1, <5>1
        <5>2. CASE i # k - 1
          <6>0. k - 1 \in 1 .. n /\ k # 1 /\ i # n
            BY <1>0, <3>1, <4>1, <5>2
          <6>1. s[i] # s[k - 1]
            BY <1>6, <4>1, <5>2, <6>0
          <6>2. i + 1 \in 1 .. n /\ i + 1 < k /\ S[i + 1] = s[i + 1]
            BY <1>0, <1>2, <3>1, <4>1, <5>2
          <6>3. QED
            BY <1>6, <4>1, <6>0, <6>1, <6>2
        <5>3. QED
          BY <5>1, <5>2
      <4>3. prev[S[i]] = IF i = 1 THEN NULL ELSE S[i - 1]
        <5>0. k # n + 1 => k \in 1 .. n /\ i # k
          BY <1>0, <3>1
        <5>1. k # n + 1 => s[i] # s[k]
          BY <1>6, <4>1, <5>0
        <5>2. prev[S[i]] = l.prev[s[i]]
          BY <4>1, <5>1
        <5>3. i # 1 => i - 1 \in 1 .. n /\ S[i - 1] = s[i - 1]
          BY <1>0, <1>2, <3>1, <4>1
        <5>4. QED
          BY <1>6, <4>1, <5>2, <5>3
      <4>4. QED
        BY <4>1, <4>2, <4>3
    <3>2. CASE i = k
      BY <1>0, <1>2, <3>2
    <3>3. CASE i > k
      <4>1. i - 1 \in 1 .. n /\ S[i] = s[i - 1] /\ s[i - 1] # new /\ s[i - 1] \in Tmr /\ i # 1
        BY <1>0, <1>2, <3>3
      <4>2. next[S[i]] = IF i = n + 1 THEN NULL ELSE S[i + 1]
        <5>0. k # 1 => k - 1 \in 1 .. n /\ i - 1 # k - 1
          BY <1>0, <3>3
        <5>1. k # 1 => s[i - 1] # s[k - 1]
          BY <1>6, <4>1, <5>0
        <5>2. next[S[i]] = l.next[s[i - 1]]
          BY <4>1, <5>1
        <5>3. i # n + 1 => i \in 1 .. n /\ S[i + 1] = s[i]
          BY <1>0, <1>2, <3>3, <4>1
        <5>4. (i - 1) + 1 = i /\ (i - 1 = n <=> i = n + 1)
          BY <1>0
        <5>5. QED
          BY <1>6, <4>1, <5>2, <5>3, <5>4
      <4>3. prev[S[i]] = S[i - 1]
        <5>0. k \in 1 .. n /\ k # n + 1
          BY <1>0, <3>3
        <5>1. CASE i = k + 1
          <6>1. S[i] = s[k] /\ S[i - 1] = new
            BY <1>0, <1>2, <4>1, <5>1
          <6>2. QED
            BY <4>1, <5>0, <5>1, <6>1
        <5>2. CASE i # k + 1
          <6>1. i - 1 # k /\ i - 1 # 1 /\ i - 2 \in 1 .. n /\ S[i - 1] = s[i - 2]
            BY <1>0, <1>2, <3>3, <4>1, <5>0, <5>2
          <6>2. s[i - 1] # s[k]
            BY <1>6, <4>1, <5>0, <6>1
          <6>3. prev[S[i]] = l.prev[s[i - 1]]
            BY <4>1, <6>2
          <6>4. (i - 1) - 1 = i - 2
            BY <1>0
          <6>5. QED
            BY <1>6, <4>1, <6>1, <6>3, <6>4
        <5>3. QED
          BY <5>1, <5>2
      <4>4. QED
        BY <4>1, <4>2, <4>3
    <3>4. QED
      BY <1>0, <3>1, <3>2, <3>3
  <2>3. ASSUME NEW t \in Tmr, \A i \in 1 .. n + 1 : S[i] # t
        PROVE  next[t] = NULL /\ prev[t] = NULL
    <3>1. t # new
      BY <1>2, <2>3
    <3>2. ASSUME NEW i \in 1 .. n PROVE s[i] # t
      <4>1. i \in 1 .. n + 1 /\ i + 1 \in 1 .. n + 1
        BY <1>0
      <4>2. S[i] = s[i] \/ S[i + 1] = s[i]
        BY <1>0, <1>2
      <4>3. QED
        BY <2>3, <4>1, <4>2
    <3>3. (k # 1 => t # s[k - 1]) /\ (k # n + 1 => t # s[k])
      BY <1>0, <3>2
    <3>4. QED
      BY <1>6, <3>1, <3>2, <3>3
  <2>4. n + 1 \in Nat /\ n + 1 # 0
    BY <1>0
  <2> HIDE DEF next, prev
  <2>5. QED
    BY <1>2, <1>3, <2>1, <2>2, <2>3, <2>4 DEF IsList
<1>10. QED
  BY <1>4, <1>8, <1>9 DEF S

(***************************************************************************)
(* rt_tmr_unlink deletes its node and leaves the others in their order.    *)
(***************************************************************************)
LEMMA UnlinkDeletes ==
  ASSUME NEW l, ListType(l), NEW n, NEW s, IsList(l, n, s), NEW k \in 1 .. n
  PROVE  /\ ListType(Unlink(l, s[k]))
         /\ IsList(Unlink(l, s[k]), n - 1, Delete(s, n, k))
<1> DEFINE rem == s[k]
           L == Unlink(l, rem)
           S == Delete(s, n, k)
<1>0. /\ n \in Nat /\ s \in [1 .. n -> Tmr] /\ NULL \notin Tmr
      /\ \A i \in 1 .. n : s[i] \in Tmr /\ s[i] # NULL
  BY RtTmrAssumption DEF IsList
<1>1. n - 1 \in Nat /\ n # 0 /\ rem \in Tmr
  BY <1>0
<1>2. /\ S \in [1 .. n - 1 -> Tmr]
      /\ \A i \in 1 .. n - 1 : i < k => S[i] = s[i] /\ i \in 1 .. n
      /\ \A i \in 1 .. n - 1 : i >= k => S[i] = s[i + 1] /\ i + 1 \in 1 .. n
  BY <1>0 DEF Delete
<1> HIDE DEF S
<1>3. /\ \A i, j \in 1 .. n : s[i] = s[j] => i = j
      /\ \A i \in 1 .. n : l.next[s[i]] = IF i = n THEN NULL ELSE s[i + 1]
      /\ \A i \in 1 .. n : l.prev[s[i]] = IF i = 1 THEN NULL ELSE s[i - 1]
      /\ \A t \in Tmr : (\A i \in 1 .. n : s[i] # t) => l.next[t] = NULL /\ l.prev[t] = NULL
  BY DEF IsList
<1>4. \A i, j \in 1 .. n - 1 : S[i] = S[j] => i = j
  <2> SUFFICES ASSUME NEW i \in 1 .. n - 1, NEW j \in 1 .. n - 1, S[i] = S[j]
               PROVE  i = j
    OBVIOUS
  <2>1. CASE i < k /\ j < k
    BY <1>2, <1>3, <2>1
  <2>2. CASE i < k /\ j >= k
    BY <1>2, <1>3, <2>2
  <2>3. CASE i >= k /\ j < k
    BY <1>2, <1>3, <2>3
  <2>4. CASE i >= k /\ j >= k
    BY <1>2, <1>3, <2>4
  <2>5. QED
    BY <2>1, <2>2, <2>3, <2>4
<1>5. /\ l.head \in Ptr /\ l.tail \in Ptr /\ l.qty = n
      /\ l.next \in [Tmr -> Ptr] /\ l.prev \in [Tmr -> Ptr]
      /\ l.head = s[1] /\ l.tail = s[n]
  BY <1>1 DEF ListType, IsList
<1>6. /\ k # n => k + 1 \in 1 .. n /\ s[k + 1] \in Tmr /\ s[k + 1] # rem /\ l.next[rem] = s[k + 1]
      /\ k = n => l.next[rem] = NULL
      /\ k # 1 => k - 1 \in 1 .. n /\ s[k - 1] \in Tmr /\ s[k - 1] # rem /\ l.prev[rem] = s[k - 1]
      /\ k = 1 => l.prev[rem] = NULL
  <2>1. k # n => k + 1 \in 1 .. n /\ k + 1 # k
    BY <1>0
  <2>2. k # 1 => k - 1 \in 1 .. n /\ k - 1 # k
    BY <1>0
  <2>3. QED
    BY <1>0, <1>3, <2>1, <2>2
<1>7. (rem = l.head <=> k = 1) /\ (rem = l.tail <=> k = n)
  <2>1. 1 \in 1 .. n /\ n \in 1 .. n
    BY <1>0, <1>1
  <2>2. QED
    BY <1>3, <1>5, <2>1
<1> DEFINE head == IF k = 1 THEN l.next[rem] ELSE l.head
           tail == IF k = n THEN l.prev[rem] ELSE l.tail
           next == [x \in Tmr |-> IF x = rem THEN NULL
                                  ELSE IF k # 1 /\ x = s[k - 1] THEN l.next[rem] ELSE l.next[x]]
           prev == [x \in Tmr |-> IF x = rem THEN NULL
                                  ELSE IF k # n /\ x = s[k + 1] THEN l.prev[rem] ELSE l.prev[x]]
<1>8. L = [head |-> head, tail |-> tail, qty |-> n - 1, next |-> next, prev |-> prev]
  <2>0. s[k] = rem
    OBVIOUS
  <2> HIDE DEF rem
  <2>1. CASE k = 1 /\ k = n
    <3>1. L = Detach([l EXCEPT !.head = NULL, !.tail = NULL], rem)
      BY <1>6, <1>7, <2>1 DEF Unlink
    <3>2. L = [head |-> NULL, tail |-> NULL, qty |-> n - 1,
               next |-> [l.next EXCEPT ![rem] = NULL], prev |-> [l.prev EXCEPT ![rem] = NULL]]
      BY <1>5, <3>1 DEF ListType, Detach
    <3>3. /\ head = NULL /\ tail = NULL
          /\ next = [l.next EXCEPT ![rem] = NULL] /\ prev = [l.prev EXCEPT ![rem] = NULL]
      BY <1>5, <1>6, <2>1
    <3> HIDE DEF L, head, tail, next, prev
    <3>4. QED
      BY <3>2, <3>3
  <2>2. CASE k = 1 /\ k # n
    <3>0. l.next[rem] # NULL
      BY <1>0, <1>6, <2>2
    <3>1. L = Detach([l EXCEPT !.head = l.next[rem], !.prev[l.next[rem]] = NULL], rem)
      BY <1>7, <2>2, <3>0 DEF Unlink
    <3>2. L = [head |-> l.next[rem], tail |-> l.tail, qty |-> n - 1,
               next |-> [l.next EXCEPT ![rem] = NULL],
               prev |-> [l.prev EXCEPT ![l.next[rem]] = NULL, ![rem] = NULL]]
      BY <1>5, <3>1 DEF ListType, Detach
    <3>3. /\ head = l.next[rem] /\ tail = l.tail
          /\ next = [l.next EXCEPT ![rem] = NULL]
          /\ prev = [l.prev EXCEPT ![l.next[rem]] = NULL, ![rem] = NULL]
      BY <1>5, <1>6, <2>2
    <3> HIDE DEF L, head, tail, next, prev
    <3>4. QED
      BY <3>2, <3>3
  <2>3. CASE k # 1 /\ k = n
    <3>1. L = Detach([l EXCEPT !.tail = l.prev[rem], !.next[l.prev[rem]] = NULL], rem)
      BY <1>7, <2>3 DEF Unlink
    <3>2. L = [head |-> l.head, tail |-> l.prev[rem], qty |-> n - 1,
               next |-> [l.next EXCEPT ![l.prev[rem]] = NULL, ![rem] = NULL],
               prev |-> [l.prev EXCEPT ![rem] = NULL]]
      BY <1>5, <3>1 DEF ListType, Detach
    <3>3. /\ head = l.head /\ tail = l.prev[rem]
          /\ next = [l.next EXCEPT ![l.prev[rem]] = NULL, ![rem] = NULL]
          /\ prev = [l.prev EXCEPT ![rem] = NULL]
      BY <1>5, <1>6, <2>3
    <3> HIDE DEF L, head, tail, next, prev
    <3>4. QED
      BY <3>2, <3>3
  <2>4. CASE k # 1 /\ k # n
    <3>1. L = Detach([l EXCEPT !.next[l.prev[rem]] = l.next[rem],
                               !.prev[l.next[rem]] = l.prev[rem]], rem)
      BY <1>7, <2>4 DEF Unlink
    <3>2. L = [head |-> l.head, tail |-> l.tail, qty |-> n - 1,
               next |-> [l.next EXCEPT ![l.prev[rem]] = l.next[rem], ![rem] = NULL],
               prev |-> [l.prev EXCEPT ![l.next[rem]] = l.prev[rem], ![rem] = NULL]]
      BY <1>5, <3>1 DEF ListType, Detach
    <3>3. /\ head = l.head /\ tail = l.tail
          /\ next = [l.next EXCEPT ![l.prev[rem]] = l.next[rem], ![rem] = NULL]
          /\ prev = [l.prev EXCEPT ![l.next[rem]] = l.prev[rem], ![rem] = NULL]
      BY <1>5, <1>6, <2>4
    <3> HIDE DEF L, head, tail, next, prev
    <3>4. QED
      BY <3>2, <3>3
  <2>5. QED
    BY <2>1, <2>2, <2>3, <2>4
<1>9. ListType(L)
  <2>1. head \in Ptr /\ tail \in Ptr /\ next \in [Tmr -> Ptr] /\ prev \in [Tmr -> Ptr]
    BY <1>1, <1>5 DEF Ptr
  <2> HIDE DEF L, head, tail, next, prev
  <2>2. QED
    BY <1>1, <1>8, <2>1 DEF ListType
<1>10. IsList(L, n - 1, S)
  <2>1. /\ L.head = head /\ L.tail = tail /\ L.qty = n - 1 /\ L.next = next /\ L.prev = prev
    <3> HIDE DEF L, head, tail, next, prev
    <3>1. QED
      BY <1>8
  <2> HIDE DEF L
  <2>2. head = IF n - 1 = 0 THEN NULL ELSE S[1]
    BY <1>0, <1>1, <1>2, <1>5, <1>6
  <2>3. tail = IF n - 1 = 0 THEN NULL ELSE S[n - 1]
    BY <1>0, <1>1, <1>2, <1>5, <1>6
  <2>4. ASSUME NEW i \in 1 .. n - 1
        PROVE  /\ next[S[i]] = IF i = n - 1 THEN NULL ELSE S[i + 1]
               /\ prev[S[i]] = IF i = 1 THEN NULL ELSE S[i - 1]
    <3>1. CASE i < k
      <4>1. i \in 1 .. n /\ S[i] = s[i] /\ s[i] \in Tmr /\ i # n /\ s[i] # rem
        BY <1>0, <1>2, <1>3, <3>1
      <4>2. next[S[i]] = IF i = n - 1 THEN NULL ELSE S[i + 1]
        <5>1. CASE i = k - 1
          <6>1. next[S[i]] = l.next[rem]
            BY <1>0, <3>1, <4>1, <5>1
          <6>2. i = n - 1 <=> k = n
            BY <1>0, <5>1
          <6>3. i # n - 1 => i + 1 \in 1 .. n - 1 /\ i + 1 >= k /\ i + 1 + 1 = k + 1
            BY <1>0, <5>1
          <6>4. i # n - 1 => S[i + 1] = s[k + 1]
            BY <1>2, <6>3
          <6>5. QED
            BY <1>6, <6>1, <6>2, <6>4
        <5>2. CASE i # k - 1
          <6>1. k # 1 => k - 1 \in 1 .. n
            BY <1>0
          <6>2. k # 1 => s[i] # s[k - 1]
            BY <1>3, <4>1, <5>2, <6>1
          <6>3. i + 1 \in 1 .. n - 1 /\ i + 1 < k /\ i # n - 1
            BY <1>0, <3>1, <5>2
          <6>4. next[S[i]] = l.next[s[i]] /\ S[i + 1] = s[i + 1]
            BY <1>2, <4>1, <6>2, <6>3
          <6>5. QED
            BY <1>3, <4>1, <6>3, <6>4
        <5>3. QED
          BY <5>1, <5>2
      <4>3. prev[S[i]] = IF i = 1 THEN NULL ELSE S[i - 1]
        <5>0. k # n => k + 1 \in 1 .. n /\ i # k + 1
          BY <1>0, <3>1
        <5>1. k # n => s[i] # s[k + 1]
          BY <1>3, <4>1, <5>0
        <5>2. prev[S[i]] = l.prev[s[i]]
          BY <4>1, <5>1
        <5>3. i # 1 => i - 1 \in 1 .. n - 1 /\ i - 1 < k
          BY <1>0, <3>1
        <5>4. i # 1 => S[i - 1] = s[i - 1]
          BY <1>2, <5>3
        <5>5. QED
          BY <1>3, <4>1, <5>2, <5>4
      <4>4. QED
        BY <4>2, <4>3
    <3>2. CASE i >= k
      <4>0. i + 1 \in 1 .. n /\ i + 1 # k
        BY <1>0, <3>2
      <4>1. S[i] = s[i + 1] /\ s[i + 1] \in Tmr /\ s[i + 1] # rem
        BY <1>0, <1>2, <1>3, <3>2, <4>0
      <4>2. next[S[i]] = IF i = n - 1 THEN NULL ELSE S[i + 1]
        <5>0. k # 1 => k - 1 \in 1 .. n /\ i + 1 # k - 1
          BY <1>0, <3>2
        <5>1. k # 1 => s[i + 1] # s[k - 1]
          BY <1>3, <4>0, <5>0
        <5>2. next[S[i]] = l.next[s[i + 1]]
          BY <4>1, <5>1
        <5>3. i # n - 1 => i + 1 \in 1 .. n - 1 /\ i + 1 >= k
          BY <1>0, <3>2
        <5>4. i # n - 1 => S[i + 1] = s[i + 1 + 1]
          BY <1>2, <5>3
        <5>5. i + 1 = n <=> i = n - 1
          BY <1>0
        <5>6. QED
          BY <1>3, <4>0, <5>2, <5>4, <5>5
      <4>3. prev[S[i]] = IF i = 1 THEN NULL ELSE S[i - 1]
        <5>1. CASE i = k
          <6>1. prev[S[i]] = l.prev[rem]
            BY <1>0, <4>0, <4>1, <5>1
          <6>2. i # 1 => i - 1 \in 1 .. n - 1 /\ i - 1 < k
            BY <1>0, <5>1
          <6>3. i # 1 => S[i - 1] = s[k - 1]
            BY <1>2, <5>1, <6>2
          <6>4. QED
            BY <1>6, <5>1, <6>1, <6>3
        <5>2. CASE i # k
          <6>1. k # n => k + 1 \in 1 .. n /\ i + 1 # k + 1
            BY <1>0, <5>2
          <6>2. k # n => s[i + 1] # s[k + 1]
            BY <1>3, <4>0, <6>1
          <6>3. prev[S[i]] = l.prev[s[i + 1]]
            BY <4>1, <6>2
          <6>4. i # 1 /\ i - 1 \in 1 .. n - 1 /\ i - 1 >= k /\ (i - 1) + 1 = i /\ i + 1 # 1 /\ (i + 1) - 1 = i
            BY <1>0, <3>2, <5>2
          <6>5. S[i - 1] = s[i]
            BY <1>2, <6>4
          <6>6. QED
            BY <1>3, <4>0, <6>3, <6>4, <6>5
        <5>3. QED
          BY <5>1, <5>2
      <4>4. QED
        BY <4>2, <4>3
    <3>3. QED
      BY <1>0, <3>1, <3>2
  <2>5. ASSUME NEW t \in Tmr, \A i \in 1 .. n - 1 : S[i] # t
        PROVE  next[t] = NULL /\ prev[t] = NULL
    <3>1. CASE t = rem
      BY <3>1
    <3>2. CASE t # rem
      <4>1. ASSUME NEW i \in 1 .. n PROVE s[i] # t
        <5>1. CASE i < k
          <6>1. i \in 1 .. n - 1
            BY <1>0, <5>1
          <6>2. QED
            BY <1>2, <2>5, <5>1, <6>1
        <5>2. CASE i = k
          BY <3>2, <5>2
        <5>3. CASE i > k
          <6>1. i - 1 \in 1 .. n - 1 /\ i - 1 >= k /\ (i - 1) + 1 = i
            BY <1>0, <5>3
          <6>2. QED
            BY <1>2, <2>5, <6>1
        <5>4. QED
          BY <1>0, <5>1, <5>2, <5>3
      <4>2. (k # 1 => t # s[k - 1]) /\ (k # n => t # s[k + 1])
        BY <1>6, <4>1
      <4>3. QED
        BY <1>3, <3>2, <4>1, <4>2
    <3>3. QED
      BY <3>1, <3>2
  <2> HIDE DEF head, tail, next, prev
  <2>6. QED
    BY <1>1, <1>2, <1>4, <2>1, <2>2, <2>3, <2>4, <2>5 DEF IsList
<1>11. QED
  BY <1>9, <1>10 DEF S

-----------------------------------------------------------------------------
(* The list l holds exactly the timers in R, ordered by their counters.    *)

HasList(l, ctr, R) ==
  /\ ListType(l)
  /\ \E n \in Nat : \E s \in [1 .. n -> Tmr] :
       /\ IsList(l, n, s)
       /\ Sorted(ctr, n, s)
       /\ R = {s[i] : i \in 1 .. n}

(***************************************************************************)
(* rt_tmr_link adds a timer that is not in the list.                       *)
(***************************************************************************)
LEMMA LinkHas ==
  ASSUME NEW l, NEW ctr \in [Tmr -> Nat], NEW R, HasList(l, ctr, R),
         NEW new \in Tmr, new \notin R
  PROVE  HasList(Link(l, ctr, new), ctr, R \cup {new})
<1>0. PICK n \in Nat : \E s \in [1 .. n -> Tmr] :
        IsList(l, n, s) /\ Sorted(ctr, n, s) /\ R = {s[i] : i \in 1 .. n}
  BY DEF HasList
<1>1. PICK s \in [1 .. n -> Tmr] :
        IsList(l, n, s) /\ Sorted(ctr, n, s) /\ R = {s[i] : i \in 1 .. n}
  BY <1>0
<1>2. ListType(l) /\ \A i \in 1 .. n : s[i] # new
  BY <1>1 DEF HasList
<1>3. /\ ListType(Link(l, ctr, new))
      /\ \E k \in 1 .. n + 1 : /\ IsList(Link(l, ctr, new), n + 1, Insert(s, n, k, new))
                               /\ Sorted(ctr, n + 1, Insert(s, n, k, new))
  BY <1>1, <1>2, LinkInserts
<1>4. PICK k \in 1 .. n + 1 : /\ IsList(Link(l, ctr, new), n + 1, Insert(s, n, k, new))
                              /\ Sorted(ctr, n + 1, Insert(s, n, k, new))
  BY <1>3
<1> DEFINE S == Insert(s, n, k, new)
<1>5. n + 1 \in Nat /\ S \in [1 .. n + 1 -> Tmr]
  BY DEF Insert
<1>6. R \cup {new} = {S[i] : i \in 1 .. n + 1}
  <2>1. ASSUME NEW i \in 1 .. n + 1 PROVE S[i] \in R \cup {new}
    BY <1>1 DEF Insert
  <2>2. ASSUME NEW i \in 1 .. n PROVE \E j \in 1 .. n + 1 : S[j] = s[i]
    <3>1. CASE i < k
      BY <3>1 DEF Insert
    <3>2. CASE i >= k
      <4>1. i + 1 \in 1 .. n + 1 /\ ~(i + 1 < k) /\ i + 1 # k /\ (i + 1) - 1 = i
        BY <3>2
      <4>2. S[i + 1] = s[i]
        BY <4>1 DEF Insert
      <4>3. QED
        BY <4>1, <4>2
    <3>3. QED
      BY <3>1, <3>2
  <2>3. S[k] = new
    BY DEF Insert
  <2> HIDE DEF S
  <2>4. QED
    BY <1>1, <2>1, <2>2, <2>3
<1> HIDE DEF S
<1>7. QED
  BY <1>3, <1>4, <1>5, <1>6 DEF HasList, S

(***************************************************************************)
(* rt_tmr_unlink takes a timer out of the list.                            *)
(***************************************************************************)
LEMMA UnlinkHas ==
  ASSUME NEW l, NEW ctr, NEW R, HasList(l, ctr, R), NEW t \in R
  PROVE  HasList(Unlink(l, t), ctr, R \ {t})
<1>0. PICK n \in Nat : \E s \in [1 .. n -> Tmr] :
        IsList(l, n, s) /\ Sorted(ctr, n, s) /\ R = {s[i] : i \in 1 .. n}
  BY DEF HasList
<1>1. PICK s \in [1 .. n -> Tmr] :
        IsList(l, n, s) /\ Sorted(ctr, n, s) /\ R = {s[i] : i \in 1 .. n}
  BY <1>0
<1>2. PICK k \in 1 .. n : s[k] = t
  BY <1>1
<1>3. ListType(Unlink(l, t)) /\ IsList(Unlink(l, t), n - 1, Delete(s, n, k))
  BY <1>1, <1>2, UnlinkDeletes DEF HasList
<1> DEFINE S == Delete(s, n, k)
<1>4. n - 1 \in Nat /\ S \in [1 .. n - 1 -> Tmr]
  BY DEF Delete
<1>5. /\ \A i \in 1 .. n - 1 : i < k => i \in 1 .. n /\ S[i] = s[i]
      /\ \A i \in 1 .. n - 1 : i >= k => i + 1 \in 1 .. n /\ S[i] = s[i + 1]
  BY DEF Delete
<1> HIDE DEF S
<1>6. Sorted(ctr, n - 1, S)
  <2> SUFFICES ASSUME NEW i \in 1 .. n - 1, NEW j \in 1 .. n - 1, i <= j
               PROVE  ctr[S[i]] <= ctr[S[j]]
    BY DEF Sorted
  <2>1. CASE j < k
    BY <1>1, <1>5, <2>1 DEF Sorted
  <2>2. CASE i < k /\ j >= k
    BY <1>1, <1>5, <2>2 DEF Sorted
  <2>3. CASE i >= k
    BY <1>1, <1>5, <2>3 DEF Sorted
  <2>4. QED
    BY <2>1, <2>2, <2>3
<1>7. R \ {t} = {S[i] : i \in 1 .. n - 1}
  <2>0. \A i, j \in 1 .. n : s[i] = s[j] => i = j
    BY <1>1 DEF IsList
  <2>1. ASSUME NEW i \in 1 .. n - 1 PROVE S[i] \in R \ {t}
    <3>1. CASE i < k
      BY <1>1, <1>2, <1>5, <2>0, <3>1
    <3>2. CASE i >= k
      BY <1>1, <1>2, <1>5, <2>0, <3>2
    <3>3. QED
      BY <3>1, <3>2
  <2>2. ASSUME NEW i \in 1 .. n, s[i] # t PROVE \E j \in 1 .. n - 1 : S[j] = s[i]
    <3>1. CASE i < k
      <4>1. i \in 1 .. n - 1
        BY <3>1
      <4>2. QED
        BY <1>5, <3>1, <4>1
    <3>2. CASE i > k
      <4>1. i - 1 \in 1 .. n - 1 /\ i - 1 >= k /\ (i - 1) + 1 = i
        BY <3>2
      <4>2. QED
        BY <1>5, <4>1
    <3>3. QED
      BY <1>2, <2>2, <3>1, <3>2
  <2>3. QED
    BY <1>1, <2>1, <2>2
<1>8. QED
  BY <1>3, <1>4, <1>6, <1>7 DEF HasList, S

(***************************************************************************)
(* The list does not depend on the counters of the timers outside it.      *)
(***************************************************************************)
LEMMA CountersOutside ==
  ASSUME NEW l, NEW ctr, NEW ctr2, NEW R, HasList(l, ctr, R),
         \A t \in R : ctr2[t] = ctr[t]
  PROVE  HasList(l, ctr2, R)
<1>0. PICK n \in Nat : \E s \in [1 .. n -> Tmr] :
        IsList(l, n, s) /\ Sorted(ctr, n, s) /\ R = {s[i] : i \in 1 .. n}
  BY DEF HasList
<1>1. PICK s \in [1 .. n -> Tmr] :
        IsList(l, n, s) /\ Sorted(ctr, n, s) /\ R = {s[i] : i \in 1 .. n}
  BY <1>0
<1>2. \A i \in 1 .. n : ctr2[s[i]] = ctr[s[i]]
  BY <1>1
<1>3. Sorted(ctr2, n, s)
  BY <1>1, <1>2 DEF Sorted
<1>4. QED
  BY <1>1, <1>3 DEF HasList

(***************************************************************************)
(* The head is the member that expires first; a timer outside the list has *)
(* null links.                                                             *)
(***************************************************************************)
LEMMA HeadFirst ==
  ASSUME NEW l, NEW ctr, NEW R, HasList(l, ctr, R)
  PROVE  /\ R \subseteq Tmr
         /\ l.head = NULL <=> R = {}
         /\ l.head # NULL => l.head \in R /\ \A t \in R : ctr[l.head] <= ctr[t]
         /\ \A t \in Tmr \ R : l.next[t] = NULL /\ l.prev[t] = NULL
<1>0. PICK n \in Nat : \E s \in [1 .. n -> Tmr] :
        IsList(l, n, s) /\ Sorted(ctr, n, s) /\ R = {s[i] : i \in 1 .. n}
  BY DEF HasList
<1>1. PICK s \in [1 .. n -> Tmr] :
        IsList(l, n, s) /\ Sorted(ctr, n, s) /\ R = {s[i] : i \in 1 .. n}
  BY <1>0
<1>2. R \subseteq Tmr
  BY <1>1
<1>3. CASE n = 0
  <2>1. R = {} /\ l.head = NULL
    BY <1>1, <1>3 DEF IsList
  <2>2. \A t \in Tmr \ R : l.next[t] = NULL /\ l.prev[t] = NULL
    BY <1>1, <1>3 DEF IsList
  <2>3. QED
    BY <1>2, <2>1, <2>2
<1>4. CASE n # 0
  <2>1. 1 \in 1 .. n /\ l.head = s[1] /\ s[1] \in Tmr
    BY <1>1, <1>4 DEF IsList
  <2>2. l.head # NULL /\ l.head \in R
    BY <1>1, <2>1, RtTmrAssumption
  <2>3. \A t \in R : ctr[l.head] <= ctr[t]
    BY <1>1, <2>1 DEF Sorted
  <2>4. \A t \in Tmr \ R : l.next[t] = NULL /\ l.prev[t] = NULL
    BY <1>1 DEF IsList
  <2>5. QED
    BY <1>2, <2>2, <2>3, <2>4
<1>5. QED
  BY <1>3, <1>4

-----------------------------------------------------------------------------
(* The inductive invariant.                                                *)

StateType ==
  /\ TmrCurTick \in 0 .. MaxTick
  /\ periodic \in [Tmr -> BOOLEAN] /\ period \in [Tmr -> Period \cup {0}]
  /\ counter \in [Tmr -> 0 .. 2^W - 1]
  /\ state \in [Tmr -> {"INIT", "CREATED", "RUNNING", "STOPPED"}]
  /\ updating \in BOOLEAN /\ callback \in Ptr

RunningListed == HasList(TheList, counter, Linked)

RtInv == StateType /\ RunningListed

(***************************************************************************)
(* It implies what the runs check.                                         *)
(***************************************************************************)
LEMMA InvImplies == RtInv => TypeOK /\ DoublyLinked /\ Ordered
<1> SUFFICES ASSUME RtInv PROVE TypeOK /\ DoublyLinked /\ Ordered
  OBVIOUS
<1>0. PICK n \in Nat : \E s \in [1 .. n -> Tmr] :
        IsList(TheList, n, s) /\ Sorted(counter, n, s) /\ Linked = {s[i] : i \in 1 .. n}
  BY DEF RtInv, RunningListed, HasList
<1>1. PICK s \in [1 .. n -> Tmr] :
        IsList(TheList, n, s) /\ Sorted(counter, n, s) /\ Linked = {s[i] : i \in 1 .. n}
  BY <1>0
<1>2. /\ pTmrListHead \in Ptr /\ pTmrListTail \in Ptr
      /\ pnext \in [Tmr -> Ptr] /\ pprev \in [Tmr -> Ptr] /\ TmrListQty = n
  BY <1>1 DEF RtInv, RunningListed, HasList, ListType, TheList, IsList
<1>3. \A i, j \in 1 .. n : s[i] = s[j] => i = j
  BY <1>1 DEF IsList
<1>4. n = Cardinality(Linked) /\ n <= Cardinality(Tmr)
  <2>1. s \in Bijection(1 .. n, Linked)
    BY <1>1, <1>3 DEF Bijection, Injection, Surjection, IsInjective
  <2>2. ExistsBijection(1 .. n, Linked)
    BY <2>1 DEF ExistsBijection
  <2>3. IsFiniteSet(1 .. n) /\ Cardinality(1 .. n) = n
    BY FS_Interval
  <2>4. Cardinality(Linked) = n
    BY <2>2, <2>3, FS_Bijection
  <2>5. Linked \in SUBSET Tmr /\ IsFiniteSet(Tmr)
    BY RtTmrAssumption DEF Linked
  <2>6. Cardinality(Linked) <= Cardinality(Tmr)
    BY <2>5, FS_Subset
  <2>7. QED
    BY <2>4, <2>6
<1>5. TypeOK
  <2>1. Cardinality(Tmr) \in Nat
    BY RtTmrAssumption, FS_CardinalityType
  <2>2. TmrListQty \in 0 .. Cardinality(Tmr)
    BY <1>2, <1>4, <2>1
  <2>3. TmrCurTick \in 0 .. 2^W - 1
    BY RtTmrAssumption DEF RtInv, StateType
  <2>4. QED
    BY <1>2, <2>2, <2>3 DEF RtInv, StateType, TypeOK
<1>6. /\ Walk(pnext, pTmrListHead, TmrListQty) = Forward(n, s)
      /\ Walk(pprev, pTmrListTail, TmrListQty) = Backward(n, s)
  <2>1. /\ Walk(TheList.next, TheList.head, n) = Forward(n, s)
        /\ Walk(TheList.prev, TheList.tail, n) = Backward(n, s)
    BY <1>1, WalkList
  <2>2. /\ TheList.next = pnext /\ TheList.head = pTmrListHead
        /\ TheList.prev = pprev /\ TheList.tail = pTmrListTail
    BY DEF TheList
  <2>3. QED
    BY <1>2, <2>1, <2>2
<1>7. DoublyLinked
  <2> DEFINE fwd == Forward(n, s)
             bwd == Backward(n, s)
  <2>1. Linked = {fwd[i] : i \in 0 .. n - 1}
    <3>1. \A i \in 0 .. n - 1 : i + 1 \in 1 .. n /\ fwd[i] = s[i + 1]
      BY DEF Forward
    <3>2. \A i \in 1 .. n : i - 1 \in 0 .. n - 1 /\ fwd[i - 1] = s[i]
      BY DEF Forward
    <3> HIDE DEF fwd
    <3>3. ASSUME NEW t \in Linked PROVE \E i \in 0 .. n - 1 : t = fwd[i]
      BY <1>1, <3>2
    <3>4. ASSUME NEW i \in 0 .. n - 1 PROVE fwd[i] \in Linked
      BY <1>1, <3>1
    <3> HIDE DEF Linked
    <3>5. QED
      BY <3>3, <3>4
  <2>2. fwd[n] = NULL /\ bwd[n] = NULL
    BY DEF Forward, Backward
  <2>3. \A i \in 0 .. n - 1 : bwd[i] = fwd[n - 1 - i]
    BY DEF Forward, Backward
  <2>4. Walk(pnext, pTmrListHead, TmrListQty) = fwd /\ Walk(pprev, pTmrListTail, TmrListQty) = bwd
    BY <1>6
  <2> HIDE DEF fwd, bwd
  <2>5. QED
    BY <1>2, <1>4, <2>1, <2>2, <2>3, <2>4 DEF DoublyLinked
<1>8. Ordered
  <2> SUFFICES ASSUME NEW t \in Linked, pnext[t] # NULL
               PROVE  counter[t] <= counter[pnext[t]]
    BY DEF Ordered
  <2>1. PICK i \in 1 .. n : t = s[i]
    BY <1>1
  <2>2. pnext[s[i]] = IF i = n THEN NULL ELSE s[i + 1]
    BY <1>1 DEF IsList, TheList
  <2>3. i + 1 \in 1 .. n /\ pnext[t] = s[i + 1]
    BY <2>1, <2>2
  <2>4. QED
    BY <1>1, <2>1, <2>3 DEF Sorted
<1>9. QED
  BY <1>5, <1>7, <1>8

(***************************************************************************)
(* What SetList writes is the new list.                                    *)
(***************************************************************************)
LEMMA SetListIs ==
  ASSUME NEW l, ListType(l), SetList(l)
  PROVE  TheList' = l
BY DEF ListType, SetList, TheList

(***************************************************************************)
(* The constants in the form the arithmetic below uses.                    *)
(***************************************************************************)
LEMMA Constants ==
  /\ 2^W \in Nat \ {0} /\ MaxTick \in Nat /\ MaxTick < 2^W
  /\ \A p \in Period \cup {0} : p \in Nat
<1> DEFINE M == 2^W
<1>1. M \in Nat /\ MaxTick \in 0 .. M - 1
  BY RtTmrAssumption
<1> HIDE DEF M
<1>2. M \in Nat \ {0} /\ MaxTick \in Nat /\ MaxTick < M
  BY <1>1
<1>3. QED
  BY <1>2, RtTmrAssumption DEF M

(***************************************************************************)
(* An expiry fits the counter's width.                                     *)
(***************************************************************************)
LEMMA ExpiryType ==
  ASSUME StateType, NEW t \in Tmr
  PROVE  Expiry(t) \in 0 .. 2^W - 1
<1>1. period[t] \in Nat /\ TmrCurTick \in Nat
  <2>1. period[t] \in Period \cup {0} /\ TmrCurTick \in 0 .. MaxTick
    BY DEF StateType
  <2>2. QED
    BY <2>1, Constants
<1> DEFINE M == 2^W
<1>3. M \in Nat \ {0}
  BY Constants
<1> HIDE DEF M
<1>4. \A x \in Nat : x % M \in 0 .. M - 1
  BY <1>3
<1>5. QED
  BY <1>1, <1>4 DEF Expiry, M

(***************************************************************************)
(* The invariant holds initially: the list is empty.                       *)
(***************************************************************************)
LEMMA InitInv == Init => RtInv
<1> SUFFICES ASSUME Init PROVE RtInv
  OBVIOUS
<1>1. StateType
  <2>1. 0 \in 0 .. MaxTick /\ 0 \in 0 .. 2^W - 1
    BY Constants
  <2>2. QED
    BY <2>1 DEF Init, StateType, Ptr
<1>2. ListType(TheList)
  BY DEF Init, ListType, TheList, Ptr
<1> DEFINE s == [i \in 1 .. 0 |-> NULL]
<1>3. s \in [1 .. 0 -> Tmr]
  OBVIOUS
<1>4. IsList(TheList, 0, s)
  BY <1>3 DEF Init, IsList, TheList
<1>5. Sorted(counter, 0, s)
  BY DEF Sorted
<1>6. Linked = {} /\ {s[i] : i \in 1 .. 0} = {}
  BY DEF Init, Linked
<1> HIDE DEF s
<1>7. QED
  BY <1>1, <1>2, <1>3, <1>4, <1>5, <1>6 DEF RtInv, RunningListed, HasList

(***************************************************************************)
(* Every step preserves the invariant.                                     *)
(***************************************************************************)
LEMMA StepInv == RtInv /\ [Next]_vars => RtInv'
<1> SUFFICES ASSUME RtInv, [Next]_vars PROVE RtInv'
  OBVIOUS
<1>0. StateType /\ HasList(TheList, counter, Linked) /\ Linked \subseteq Tmr
  BY DEF RtInv, RunningListed, Linked
<1>c. counter \in [Tmr -> Nat]
  BY <1>0, RtTmrAssumption DEF StateType
<1>r. ASSUME StateType', HasList(TheList', counter', Linked') PROVE RtInv'
  BY <1>r DEF RtInv, RunningListed
<1>s. ASSUME UNCHANGED links, UNCHANGED <<counter, state>>
      PROVE  HasList(TheList', counter', Linked')
  <2>1. TheList' = TheList /\ counter' = counter /\ Linked' = Linked
    BY <1>s DEF links, TheList, Linked
  <2>2. QED
    BY <1>0, <2>1
<1>1. ASSUME NEW t \in Tmr, NEW per \in BOOLEAN, NEW p \in Period, Create(t, per, p)
      PROVE  RtInv'
  <2>1. t \notin Linked
    BY <1>1 DEF Create, Linked
  <2>2. StateType'
    BY <1>0, <1>1, RtTmrAssumption DEF StateType, Create
  <2>3. pnext[t] = NULL /\ pprev[t] = NULL
    BY <1>0, <2>1, HeadFirst DEF TheList
  <2>4. pnext \in [Tmr -> Ptr] /\ pprev \in [Tmr -> Ptr]
    BY <1>0 DEF HasList, ListType, TheList
  <2>5. pnext' = pnext /\ pprev' = pprev
    BY <1>1, <2>3, <2>4 DEF Create
  <2>6. TheList' = TheList
    BY <1>1, <2>5 DEF Create, TheList
  <2>7. Linked' = Linked
    BY <1>0, <1>1 DEF Create, Linked, StateType
  <2>8. \A u \in Linked : counter'[u] = counter[u]
    BY <1>0, <1>1, <1>c, <2>1 DEF Create
  <2>9. HasList(TheList, counter', Linked)
    BY <1>0, <2>8, CountersOutside
  <2>10. QED
    BY <1>r, <2>2, <2>6, <2>7, <2>9
<1>2. ASSUME NEW t \in Tmr, Start(t)
      PROVE  RtInv'
  <2>1. t \notin Linked
    BY <1>2 DEF Start, Linked
  <2>2. StateType'
    BY <1>0, <1>2, ExpiryType DEF StateType, Start
  <2>3. counter' \in [Tmr -> Nat]
    BY <2>2, RtTmrAssumption DEF StateType
  <2>4. \A u \in Linked : counter'[u] = counter[u]
    BY <1>0, <1>2, <1>c, <2>1 DEF Start
  <2>5. HasList(TheList, counter', Linked)
    BY <1>0, <2>4, CountersOutside
  <2>6. HasList(Link(TheList, counter', t), counter', Linked \cup {t})
    BY <2>1, <2>3, <2>5, LinkHas
  <2>7. TheList' = Link(TheList, counter', t)
    BY <1>2, <2>6, SetListIs DEF Start, HasList
  <2>8. Linked' = Linked \cup {t}
    BY <1>0, <1>2 DEF Start, Linked, StateType
  <2>9. QED
    BY <1>r, <2>2, <2>6, <2>7, <2>8
<1>3. ASSUME NEW t \in Tmr, Stop(t)
      PROVE  RtInv'
  <2>1. StateType'
    BY <1>0, <1>3 DEF StateType, Stop
  <2>2. Linked' = Linked \ {t}
    BY <1>0, <1>3 DEF Stop, Linked, StateType
  <2>3. CASE t \in Linked
    <3>1. HasList(Unlink(TheList, t), counter, Linked \ {t})
      BY <1>0, <2>3, UnlinkHas
    <3>2. SetList(Unlink(TheList, t)) /\ counter' = counter
      BY <1>3, <2>3 DEF Stop, Linked
    <3>3. TheList' = Unlink(TheList, t)
      BY <3>1, <3>2, SetListIs DEF HasList
    <3>4. QED
      BY <1>r, <2>1, <2>2, <3>1, <3>2, <3>3
  <2>4. CASE t \notin Linked
    <3>1. UNCHANGED links /\ counter' = counter /\ Linked' = Linked
      BY <1>3, <2>2, <2>4 DEF Stop, Linked
    <3>2. TheList' = TheList
      BY <3>1 DEF links, TheList
    <3>3. QED
      BY <1>0, <1>r, <2>1, <3>1, <3>2
  <2>5. QED
    BY <2>3, <2>4
<1>4. CASE UpdateBegin
  <2>1. StateType'
    BY <1>0, <1>4, RtTmrAssumption DEF StateType, UpdateBegin
  <2>2. QED
    BY <1>4, <1>r, <1>s, <2>1 DEF UpdateBegin
<1>5. CASE UpdateFire
  <2> DEFINE t == pTmrListHead
             l == Unlink(TheList, t)
  <2>1. t \in Linked /\ t \in Tmr
    <3>1. TheList.head = t /\ t # NULL
      BY <1>5 DEF TheList, UpdateFire, HeadDue
    <3>2. QED
      BY <1>0, <3>1, HeadFirst
  <2>2. HasList(l, counter, Linked \ {t})
    BY <1>0, <2>1, UnlinkHas
  <2>3. CASE periodic[t]
    <3>1. /\ counter' = [counter EXCEPT ![t] = Expiry(t)] /\ state' = state
          /\ SetList(Link(l, counter', t))
      BY <1>5, <2>3 DEF UpdateFire
    <3> HIDE DEF l
    <3>2. StateType'
      BY <1>0, <1>5, <2>1, <3>1, ExpiryType DEF StateType, UpdateFire, Ptr
    <3>3. counter' \in [Tmr -> Nat]
      BY <3>2, RtTmrAssumption DEF StateType
    <3>4. \A u \in Linked \ {t} : counter'[u] = counter[u]
      BY <1>0, <1>c, <3>1
    <3>5. HasList(l, counter', Linked \ {t})
      BY <2>2, <3>4, CountersOutside
    <3>6. HasList(Link(l, counter', t), counter', (Linked \ {t}) \cup {t})
      BY <2>1, <3>3, <3>5, LinkHas
    <3>7. TheList' = Link(l, counter', t)
      BY <3>1, <3>6, SetListIs DEF HasList
    <3>8. Linked' = (Linked \ {t}) \cup {t}
      <4>1. Linked' = Linked
        BY <3>1 DEF Linked
      <4>2. QED
        BY <2>1, <4>1
    <3>9. QED
      BY <1>r, <3>2, <3>6, <3>7, <3>8
  <2>4. CASE ~periodic[t]
    <3>1. /\ counter' = counter /\ state' = [state EXCEPT ![t] = "STOPPED"]
          /\ SetList(l)
      BY <1>5, <2>4 DEF UpdateFire
    <3> HIDE DEF l
    <3>2. StateType'
      BY <1>0, <1>5, <2>1, <3>1 DEF StateType, UpdateFire, Ptr
    <3>3. TheList' = l
      BY <2>2, <3>1, SetListIs DEF HasList
    <3>4. Linked' = Linked \ {t}
      BY <1>0, <2>1, <3>1 DEF Linked, StateType
    <3>5. QED
      BY <1>r, <2>2, <3>1, <3>2, <3>3, <3>4
  <2>5. QED
    BY <2>3, <2>4
<1>6. CASE CallbackReturn
  <2>1. StateType'
    BY <1>0, <1>6 DEF StateType, CallbackReturn, Ptr
  <2>2. QED
    BY <1>6, <1>r, <1>s, <2>1 DEF CallbackReturn
<1>7. CASE UpdateEnd
  <2>1. StateType'
    BY <1>0, <1>7 DEF StateType, UpdateEnd
  <2>2. QED
    BY <1>7, <1>r, <1>s, <2>1 DEF UpdateEnd
<1>8. CASE UNCHANGED vars
  <2>1. StateType'
    BY <1>0, <1>8 DEF StateType, vars
  <2>2. QED
    BY <1>8, <1>r, <1>s, <2>1 DEF vars
<1>9. QED
  BY <1>1, <1>2, <1>3, <1>4, <1>5, <1>6, <1>7, <1>8 DEF Next

(***************************************************************************)
(* The invariant holds in every reachable state.                           *)
(***************************************************************************)
THEOREM RtTmrInvariant == Spec => []RtInv
<1>1. Init => RtInv
  BY InitInv
<1>2. RtInv /\ [Next]_vars => RtInv'
  BY StepInv
<1>3. QED
  BY <1>1, <1>2, PTL DEF Spec

(***************************************************************************)
(* The data keep their types; TmrListQty never exceeds the number of       *)
(* timers.                                                                 *)
(***************************************************************************)
THEOREM RtTmrTypes == Spec => []TypeOK
BY RtTmrInvariant, InvImplies, PTL

(***************************************************************************)
(* After any sequence of rt_tmr_start, rt_tmr_stop and expiries, also from *)
(* callbacks inside rt_tmr_update, the pointers form one doubly linked     *)
(* list of exactly the running timers.                                     *)
(***************************************************************************)
THEOREM ListDoublyLinked == Spec => []DoublyLinked
BY RtTmrInvariant, InvImplies, PTL

(***************************************************************************)
(* The list stays ordered by expiry: the first timer that is not due ends  *)
(* the loop of rt_tmr_update rightly.                                      *)
(***************************************************************************)
THEOREM ListOrdered == Spec => []Ordered
BY RtTmrInvariant, InvImplies, PTL

-----------------------------------------------------------------------------
(* Refinement, as long as no expiry reaches the end of the tick counter.   *)

NoWrap == \A p \in Period : MaxTick + p < 2^W

(***************************************************************************)
(* Then an expiry is exactly its period away.                              *)
(***************************************************************************)
LEMMA ExpiryExact ==
  ASSUME NoWrap, StateType, NEW t \in Tmr
  PROVE  Expiry(t) = TmrCurTick + period[t]
<1> DEFINE M == 2^W
<1>1. period[t] \in Period \cup {0} /\ TmrCurTick \in 0 .. MaxTick
  BY DEF StateType
<1>2. M \in Nat \ {0} /\ period[t] \in Nat /\ TmrCurTick \in Nat /\ MaxTick \in Nat
  BY <1>1, Constants
<1>3. MaxTick + period[t] < M
  <2>1. CASE period[t] = 0
    BY <2>1, Constants
  <2>2. CASE period[t] # 0
    BY <1>1, <2>2 DEF NoWrap
  <2>3. QED
    BY <2>1, <2>2
<1> HIDE DEF M
<1>4. TmrCurTick + period[t] \in 0 .. M - 1
  BY <1>1, <1>2, <1>3
<1>5. \A x \in 0 .. M - 1 : x % M = x
  BY <1>2
<1>6. QED
  BY <1>4, <1>5 DEF Expiry, M

(***************************************************************************)
(* Every step of the list is a step of the service, or leaves what the     *)
(* service sees unchanged.                                                 *)
(***************************************************************************)
LEMMA StepRefines ==
  ASSUME NoWrap, RtInv, RtInv', [Next]_vars
  PROVE  [Abs!AbsNext]_(Abs!absVars)
<1>0. /\ StateType /\ StateType' /\ HasList(TheList, counter, Linked)
      /\ Abs!Running = Linked
  BY DEF RtInv, RunningListed, Abs!Running, Linked
<1>a. \A t \in Tmr : /\ counter[t] \in Int /\ counter'[t] \in Int /\ period[t] \in Int
                     /\ left[t] = IF t \in Linked THEN counter[t] - TmrCurTick ELSE 0
                     /\ left'[t] = IF state'[t] = "RUNNING" THEN counter'[t] - TmrCurTick' ELSE 0
  <2>1. /\ counter \in [Tmr -> 0 .. 2^W - 1] /\ counter' \in [Tmr -> 0 .. 2^W - 1]
        /\ period \in [Tmr -> Period \cup {0}]
    BY <1>0 DEF StateType
  <2>2. QED
    BY <2>1, Constants DEF left, Linked
<1>b. TmrCurTick \in Int /\ TmrCurTick' \in Int
  BY <1>0, Constants DEF StateType
<1>c. /\ counter \in [Tmr -> 0 .. 2^W - 1] /\ period \in [Tmr -> Period \cup {0}]
      /\ state \in [Tmr -> {"INIT", "CREATED", "RUNNING", "STOPPED"}]
      /\ periodic \in [Tmr -> BOOLEAN]
  BY <1>0 DEF StateType
<1>d. left = [t \in Tmr |-> left[t]] /\ left' = [t \in Tmr |-> left'[t]]
  BY DEF left
<1>1. ASSUME NEW t \in Tmr, NEW per \in BOOLEAN, NEW p \in Period, Create(t, per, p)
      PROVE  Abs!Create(t, per, p)
  <2>1. ASSUME NEW u \in Tmr PROVE left'[u] = IF u = t THEN 0 ELSE left[u]
    BY <1>1, <1>a, <1>c DEF Create, Linked
  <2>2. left' = [left EXCEPT ![t] = 0]
    BY <1>d, <2>1
  <2>3. QED
    BY <1>1, <2>2 DEF Create, Abs!Create
<1>2. ASSUME NEW t \in Tmr, Start(t)
      PROVE  Abs!Start(t)
  <2>0. counter'[t] = TmrCurTick + period[t] /\ TmrCurTick' = TmrCurTick
    BY <1>0, <1>2, <1>c, ExpiryExact DEF Start
  <2>1. ASSUME NEW u \in Tmr PROVE left'[u] = IF u = t THEN period[t] ELSE left[u]
    <3>1. CASE u = t
      BY <1>2, <1>a, <1>b, <1>c, <2>0, <3>1 DEF Start
    <3>2. CASE u # t
      BY <1>2, <1>a, <1>c, <2>0, <3>2 DEF Start, Linked
    <3>3. QED
      BY <3>1, <3>2
  <2>2. left' = [left EXCEPT ![t] = period[t]]
    BY <1>d, <2>1
  <2>3. QED
    BY <1>2, <2>2 DEF Start, Abs!Start
<1>3. ASSUME NEW t \in Tmr, Stop(t)
      PROVE  Abs!Stop(t)
  <2>1. ASSUME NEW u \in Tmr PROVE left'[u] = IF u = t THEN 0 ELSE left[u]
    BY <1>3, <1>a, <1>c DEF Stop, Linked
  <2>2. left' = [left EXCEPT ![t] = 0]
    BY <1>d, <2>1
  <2>3. QED
    BY <1>3, <2>2 DEF Stop, Abs!Stop
<1>4. CASE UpdateBegin
  <2>1. ASSUME NEW u \in Tmr PROVE left'[u] = IF u \in Linked THEN left[u] - 1 ELSE left[u]
    BY <1>4, <1>a, <1>b DEF UpdateBegin, Linked
  <2>2. left' = [u \in Tmr |-> IF u \in Abs!Running THEN left[u] - 1 ELSE left[u]]
    BY <1>0, <1>d, <2>1
  <2>3. Abs!ClockTick
    BY <1>4, <2>2 DEF UpdateBegin, Abs!ClockTick
  <2>4. QED
    BY <2>3 DEF Abs!AbsNext
<1>5. CASE UpdateFire
  <2> DEFINE t == pTmrListHead
  <2>0. TheList.head = t /\ t # NULL /\ counter[t] <= TmrCurTick /\ updating
    BY <1>5 DEF TheList, UpdateFire, HeadDue
  <2>1. t \in Linked /\ t \in Tmr /\ \A u \in Linked : u \in Tmr /\ counter[t] <= counter[u]
    BY <1>0, <2>0, HeadFirst
  <2>2. t \in Abs!Due /\ \A u \in Abs!Running : left[t] <= left[u]
    BY <1>0, <1>a, <1>b, <2>0, <2>1 DEF Abs!Due
  <2>3. TmrCurTick' = TmrCurTick /\ UNCHANGED <<periodic, period, updating>>
    BY <1>5 DEF UpdateFire
  <2>4. CASE periodic[t]
    <3>1. counter' = [counter EXCEPT ![t] = Expiry(t)] /\ state' = state
      BY <1>5, <2>4 DEF UpdateFire
    <3> HIDE DEF t
    <3>2. counter'[t] = TmrCurTick + period[t] /\ \A u \in Tmr \ {t} : counter'[u] = counter[u]
      BY <1>0, <1>c, <2>1, <3>1, ExpiryExact
    <3>3. ASSUME NEW u \in Tmr PROVE left'[u] = IF u = t THEN period[t] ELSE left[u]
      BY <1>a, <1>b, <2>1, <2>3, <3>1, <3>2 DEF Linked
    <3>4. left' = [left EXCEPT ![t] = period[t]]
      BY <1>d, <3>3
    <3>5. state' = [state EXCEPT ![t] = "RUNNING"]
      BY <1>c, <2>1, <3>1 DEF Linked
    <3>6. Abs!Trigger(t)
      BY <2>0, <2>2, <2>3, <2>4, <3>4, <3>5 DEF Abs!Trigger
    <3>7. QED
      BY <2>1, <3>6 DEF Abs!AbsNext
  <2>5. CASE ~periodic[t]
    <3>1. counter' = counter /\ state' = [state EXCEPT ![t] = "STOPPED"]
      BY <1>5, <2>5 DEF UpdateFire
    <3> HIDE DEF t
    <3>2. ASSUME NEW u \in Tmr PROVE left'[u] = IF u = t THEN 0 ELSE left[u]
      BY <1>a, <1>c, <2>1, <2>3, <3>1 DEF Linked
    <3>3. left' = [left EXCEPT ![t] = 0]
      BY <1>d, <3>2
    <3>4. Abs!Trigger(t)
      BY <2>0, <2>2, <2>3, <2>5, <3>1, <3>3 DEF Abs!Trigger
    <3>5. QED
      BY <2>1, <3>4 DEF Abs!AbsNext
  <2>6. QED
    BY <2>4, <2>5
<1>6. CASE CallbackReturn \/ UNCHANGED vars
  <2>1. UNCHANGED <<TmrCurTick, periodic, period, counter, state, updating>>
    BY <1>6 DEF CallbackReturn, vars
  <2>2. left' = left
    BY <2>1 DEF left
  <2>3. QED
    BY <2>1, <2>2 DEF Abs!absVars
<1>7. CASE UpdateEnd
  <2>1. UNCHANGED <<TmrCurTick, periodic, period, counter, state>> /\ updating /\ updating' = FALSE
    BY <1>7 DEF UpdateEnd
  <2>2. left' = left
    BY <2>1 DEF left
  <2>3. Abs!Due = {}
    <3> SUFFICES ASSUME NEW u \in Abs!Due PROVE FALSE
      OBVIOUS
    <3>1. u \in Linked /\ u \in Tmr /\ left[u] <= 0
      BY <1>0 DEF Abs!Due, Linked
    <3>2. counter[u] <= TmrCurTick
      BY <1>a, <1>b, <3>1
    <3>3. TheList.head = pTmrListHead
      BY DEF TheList
    <3>4. pTmrListHead # NULL /\ pTmrListHead \in Tmr /\ counter[pTmrListHead] <= counter[u]
      BY <1>0, <3>1, <3>3, HeadFirst
    <3>5. HeadDue
      BY <1>a, <1>b, <3>1, <3>2, <3>4 DEF HeadDue
    <3>6. QED
      BY <1>7, <3>5 DEF UpdateEnd
  <2>4. Abs!TickDone
    BY <2>1, <2>2, <2>3 DEF Abs!TickDone
  <2>5. QED
    BY <2>4 DEF Abs!AbsNext
<1>8. QED
  BY <1>1, <1>2, <1>3, <1>4, <1>5, <1>6, <1>7 DEF Next, Abs!AbsNext

(***************************************************************************)
(* The doubly linked list of rt_tmr.c implements the timer service: each   *)
(* tick triggers exactly the timers that are due, the most overdue first,  *)
(* and rt_tmr_update never returns with a due timer left.                  *)
(***************************************************************************)
THEOREM ListImplementsService == NoWrap => (Spec => ImplementsService)
<1> SUFFICES ASSUME NoWrap PROVE Spec => ImplementsService
  OBVIOUS
<1>1. Init => Abs!AbsInit
  <2> SUFFICES ASSUME Init PROVE Abs!AbsInit
    OBVIOUS
  <2>1. left = [t \in Tmr |-> 0]
    BY DEF Init, left
  <2>2. QED
    BY <2>1 DEF Init, Abs!AbsInit
<1>2. RtInv /\ RtInv' /\ [Next]_vars => [Abs!AbsNext]_(Abs!absVars)
  BY StepRefines
<1>3. QED
  BY <1>1, <1>2, RtTmrInvariant, PTL DEF Spec, ImplementsService, Abs!AbsSpec

=============================================================================
