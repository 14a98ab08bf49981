---------------------------- MODULE TimersProofs ----------------------------
(***************************************************************************)
(* Proofs about Timers, for any number of callback and event timers, any   *)
(* intervals, any width of the tick counter and any size of the queue that *)
(* TimersAssumption allows.                                                *)
(***************************************************************************)
EXTENDS Timers, SeqLemmas

-----------------------------------------------------------------------------
(* The inductive invariant.                                                *)

\* The histories have the shape their updates give them.
HistoryType ==
  /\ lost \subseteq Timer /\ stale \subseteq Timer /\ stopped \subseteq Timer
  /\ calls \in [Timer -> Nat]

\* An event is queued once, an event whose callback runs has left the queue,
\* and a poll only visits timers that are still counting.
QueueInv ==
  /\ IsInjective(evList) /\ IsInjective(toPoll)
  /\ \A t \in Timer : pc = "callback" /\ running = t => ~Pending(t)
  /\ pc # "poll" => toPoll = <<>>
  /\ \A i \in 1 .. Len(toPoll) : InList(etimList, toPoll[i])

\* A callback timer in its list has not been called since it was armed; a
\* stopped one is not in the list and has not been called.
ListedInv ==
  \A t \in CTimer :
    /\ calls[t] <= 1
    /\ InList(ctimList, t) => calls[t] = 0 /\ t \notin stopped
    /\ t \in stopped => calls[t] = 0

\* The timers whose start lies in the past for sure: a callback timer that was
\* not started over a pending event, an event timer that was not stopped.
Regular(t) == IF t \in CTimer THEN t \notin stale ELSE t \notin stopped

\* An event of t is queued that its callback will act on.
Due(t) == Pending(t) /\ (t \in CTimer \/ EtimerExpired(t))

\* The callback of t runs and has not armed t yet.
Serving(t) == pc = "callback" /\ running = t /\ calls[t] # 0

\* A regular timer that is counting has started in the past, one that is due or
\* being served has outlived its interval, and none is so late that the
\* difference of two ticks loses its meaning.
LateInv ==
  \A t \in Timer : Regular(t) =>
    /\ InList(etimList, t) => 0 <= Elapsed(t)
    /\ Due(t) \/ Serving(t) => interval[t] < Elapsed(t)
    /\ t \in ToServe => Elapsed(t) <= interval[t] + MaxLate + 1

TimerInv == TypeOK /\ HistoryType /\ QueueInv /\ NotForgotten /\ ListedInv /\ LateInv

-----------------------------------------------------------------------------
(* Lists and queue.                                                        *)

\* list_remove and list_add keep a list free of doubles and change the
\* membership of x alone.
LEMMA ListKeeps ==
  ASSUME NEW S, NEW l \in Seq(S), IsInjective(l), NEW x
  PROVE  /\ ListRemove(l, x) \in Seq(S) /\ IsInjective(ListRemove(l, x))
         /\ \A y : InList(ListRemove(l, x), y) <=> InList(l, y) /\ y # x
         /\ x \in S => /\ ListAdd(l, x) \in Seq(S) /\ IsInjective(ListAdd(l, x))
                       /\ \A y : InList(ListAdd(l, x), y) <=> InList(l, y) \/ y = x
  <1> DEFINE r == RemoveFirst(l, x)
  <1>1. r \in Seq(S) /\ IsInjective(r) /\ ToSet(r) = ToSet(l) \ {x}
    BY RemoveFirstKeeps
  <1>2. ListRemove(l, x) = r /\ ListAdd(l, x) = Append(r, x)
    BY DEF ListRemove, ListAdd
  <1> HIDE DEF r
  <1>3. \A y : /\ InList(l, y) <=> y \in ToSet(l)
               /\ InList(r, y) <=> y \in ToSet(r)
    BY <1>1, ToSetIs DEF InList
  <1>4. ASSUME x \in S
        PROVE  /\ Append(r, x) \in Seq(S) /\ IsInjective(Append(r, x))
               /\ \A y : InList(Append(r, x), y) <=> InList(l, y) \/ y = x
    <2>1. x \notin ToSet(r)
      BY <1>1
    <2>2. /\ Append(r, x) \in Seq(S) /\ IsInjective(Append(r, x))
          /\ ToSet(Append(r, x)) = ToSet(r) \cup {x}
      BY <1>1, <1>4, <2>1, AppendKeeps
    <2> DEFINE a == Append(r, x)
    <2> HIDE DEF a
    <2>3. \A y : InList(a, y) <=> y \in ToSet(a)
      BY <2>2, ToSetIs DEF InList, a
    <2>4. \A y : InList(a, y) <=> InList(l, y) \/ y = x
      BY <1>1, <1>3, <2>2, <2>3 DEF a
    <2> QED BY <2>2, <2>4 DEF a
  <1> QED BY <1>1, <1>2, <1>3, <1>4

\* What the invariant says of the event queue.
QueueOK == /\ evList \in Seq(Timer \cup IsrEvent) /\ Len(evList) <= EVPROC_QUEUE_SIZE
           /\ IsInjective(evList)

\* Either put adds x unless the queue is full, and never twice.
LEMMA PutKeeps ==
  ASSUME QueueOK, NEW x \in Timer \cup IsrEvent, PutTail(x) \/ PutHead(x)
  PROVE  QueueOK' /\ \A y : InList(evList', y) <=> Pending(y) \/ (y = x /\ ~QueueFull)
  <1> DEFINE S == Timer \cup IsrEvent
  <1>1. evList \in Seq(S) /\ IsInjective(evList)
    BY DEF QueueOK
  <1>2. \A y : Pending(y) <=> y \in ToSet(evList)
    BY <1>1, ToSetIs DEF Pending, InList
  <1>3. CASE QueueFull \/ Pending(x)
    BY <1>1, <1>3 DEF PutTail, PutHead, QueueOK, Pending
  <1>4. CASE ~QueueFull /\ ~Pending(x)
    <2>1. /\ <<x>> \o evList \in Seq(S) /\ IsInjective(<<x>> \o evList)
          /\ Len(<<x>> \o evList) = Len(evList) + 1
          /\ ToSet(<<x>> \o evList) = ToSet(evList) \cup {x}
      BY <1>1, <1>2, <1>4, ConsKeeps
    <2>2. /\ Append(evList, x) \in Seq(S) /\ IsInjective(Append(evList, x))
          /\ Len(Append(evList, x)) = Len(evList) + 1
          /\ ToSet(Append(evList, x)) = ToSet(evList) \cup {x}
      BY <1>1, <1>2, <1>4, AppendKeeps, AppendProperties
    <2>3. evList' = <<x>> \o evList \/ evList' = Append(evList, x)
      BY <1>4 DEF PutTail, PutHead
    <2>4. /\ evList' \in Seq(S) /\ IsInjective(evList') /\ Len(evList') = Len(evList) + 1
          /\ ToSet(evList') = ToSet(evList) \cup {x}
      BY <2>1, <2>2, <2>3
    <2>5. \A y : InList(evList', y) <=> y \in ToSet(evList')
      BY <2>4, ToSetIs DEF InList
    <2>6. Len(evList') <= EVPROC_QUEUE_SIZE
      BY <1>1, <1>4, <2>4, TimersAssumption DEF QueueOK, QueueFull
    <2> QED BY <1>2, <1>4, <2>4, <2>5, <2>6 DEF QueueOK
  <1> QED BY <1>3, <1>4

\* Taking an event takes that event alone.
LEMMA TakeKeeps ==
  ASSUME QueueOK, TakeEvent
  PROVE  /\ QueueOK' /\ Last(evList) \in Timer \cup IsrEvent /\ Pending(Last(evList))
         /\ \A y : InList(evList', y) <=> Pending(y) /\ y # Last(evList)
  <1> DEFINE S == Timer \cup IsrEvent
  <1>1. evList \in Seq(S) /\ IsInjective(evList) /\ evList # <<>> /\ evList' = Front(evList)
    BY DEF QueueOK, TakeEvent
  <1>2. /\ evList' \in Seq(S) /\ IsInjective(evList') /\ Len(evList') = Len(evList) - 1
        /\ Last(evList) \in S /\ Last(evList) \in ToSet(evList)
        /\ ToSet(evList') = ToSet(evList) \ {Last(evList)}
    BY <1>1, FrontKeeps
  <1>3. \A y : /\ Pending(y) <=> y \in ToSet(evList)
               /\ InList(evList', y) <=> y \in ToSet(evList')
    BY <1>1, <1>2, ToSetIs DEF Pending, InList
  <1>4. Len(evList') <= EVPROC_QUEUE_SIZE
    BY <1>1, <1>2, TimersAssumption DEF QueueOK
  <1> QED BY <1>2, <1>3, <1>4 DEF QueueOK

-----------------------------------------------------------------------------
(* Differences of ticks.                                                   *)

\* The signed difference of two readings of the tick counter.
Diff(a, b) == ((a - b + 2^(W - 1)) % 2^W) - 2^(W - 1)

\* The facts about the constants that arithmetic needs.
LEMMA Widths ==
  /\ 2^W \in Nat /\ 2^(W - 1) \in Nat /\ 2^W = 2 * 2^(W - 1) /\ 0 < 2^W
  /\ \A a \in Tick : a \in Int /\ 0 <= a /\ a < 2^W
  /\ \A a \in Int : 0 <= a /\ a < 2^W => a \in Tick
  /\ MaxLate \in Nat /\ Interval \subseteq Nat
  /\ \A i \in Interval \cup {0} : i \in Nat /\ i + MaxLate + 1 < 2^(W - 1)
  <1>1. 2^W \in Nat /\ 2^(W - 1) \in Nat /\ 2^W = 2 * 2^(W - 1)
    BY TimersAssumption
  <1>2. MaxLate \in Nat /\ Interval \subseteq Nat /\ 0 \in Interval \cup {0}
    BY TimersAssumption
  <1>3. \A i \in Interval \cup {0} : i \in Nat /\ i + MaxLate + 1 < 2^(W - 1)
    BY <1>2, TimersAssumption
  <1>4. 0 < 2^(W - 1)
    BY <1>1, <1>2, <1>3
  <1>5. 0 < 2^W
    BY <1>1, <1>4
  <1> QED BY <1>1, <1>2, <1>3, <1>5 DEF Tick

\* The remainder of a number that is off by at most one period.
LEMMA Remainder ==
  ASSUME NEW m \in Nat, 0 < m, NEW x \in Int
  PROVE  /\ x % m \in Int /\ 0 <= x % m /\ x % m < m
         /\ 0 <= x /\ x < m => x % m = x
         /\ m <= x /\ x < 2 * m => x % m = x - m
         /\ -m <= x /\ x < 0 => x % m = x + m
  OBVIOUS

\* The difference is the only number of half the range either way that fits.
LEMMA DiffIs ==
  ASSUME NEW a \in Tick, NEW b \in Tick, NEW e \in Int,
         -(2^(W - 1)) <= e, e < 2^(W - 1),
         e = a - b \/ e = a - b + 2^W \/ e = a - b - 2^W
  PROVE  Diff(a, b) = e
  <1> DEFINE M == 2^W
             H == 2^(W - 1)
             x == a - b + H
  <1>1. M \in Nat /\ H \in Nat /\ M = 2 * H /\ 0 < M /\ a \in Int /\ b \in Int
    BY Widths
  <1>2. 0 <= a /\ a < M /\ 0 <= b /\ b < M
    BY Widths
  <1>3. Diff(a, b) = (x % M) - H
    BY DEF Diff
  <1>4. -H <= e /\ e < H /\ (e = a - b \/ e = a - b + M \/ e = a - b - M)
    OBVIOUS
  <1> HIDE DEF M, H
  <1>5. x \in Int /\ x % M \in Int
    BY <1>1, Remainder
  <1>6. x % M = e + H
    <2>1. CASE e = a - b
      <3>1. x = e + H /\ 0 <= x /\ x < M
        BY <1>1, <1>4, <2>1
      <3> HIDE DEF x
      <3> QED BY <1>1, <1>5, <3>1, Remainder
    <2>2. CASE e = a - b + M
      <3>1. x + M = e + H /\ -M <= x /\ x < 0
        BY <1>1, <1>2, <1>4, <2>2
      <3> HIDE DEF x
      <3> QED BY <1>1, <1>5, <3>1, Remainder
    <2>3. CASE e = a - b - M
      <3>1. x - M = e + H /\ M <= x /\ x < 2 * M
        BY <1>1, <1>2, <1>4, <2>3
      <3> HIDE DEF x
      <3> QED BY <1>1, <1>5, <3>1, Remainder
    <2> QED BY <1>4, <2>1, <2>2, <2>3
  <1> HIDE DEF x
  <1> QED BY <1>1, <1>3, <1>6

\* And it is such a number.
LEMMA DiffFits ==
  ASSUME NEW a \in Tick, NEW b \in Tick
  PROVE  /\ Diff(a, b) \in Int /\ -(2^(W - 1)) <= Diff(a, b) /\ Diff(a, b) < 2^(W - 1)
         /\ \/ Diff(a, b) = a - b
            \/ Diff(a, b) = a - b + 2^W
            \/ Diff(a, b) = a - b - 2^W
  <1> DEFINE M == 2^W
             H == 2^(W - 1)
             d == Diff(a, b)
             D(e) == /\ e \in Int /\ -H <= e /\ e < H
                     /\ e = a - b \/ e = a - b + M \/ e = a - b - M
  <1>1. M \in Nat /\ H \in Nat /\ M = 2 * H /\ a \in Int /\ b \in Int
    BY Widths
  <1>2. 0 <= a /\ a < M /\ 0 <= b /\ b < M
    BY Widths
  <1> HIDE DEF M, H
  <1>3. D(a - b) \/ D(a - b + M) \/ D(a - b - M)
    BY <1>1, <1>2
  <1>4. PICK e : D(e)
    BY <1>3
  <1>5. d = e
    BY <1>4, DiffIs DEF M, H
  <1> QED BY <1>4, <1>5 DEF M, H

\* A tick makes the difference one larger.
LEMMA DiffTick ==
  ASSUME NEW a \in Tick, NEW b \in Tick, Diff(a, b) + 1 < 2^(W - 1)
  PROVE  (a + 1) % 2^W \in Tick /\ Diff((a + 1) % 2^W, b) = Diff(a, b) + 1
  <1> DEFINE M == 2^W
             H == 2^(W - 1)
             d == Diff(a, b)
             c == (a + 1) % M
  <1>1. M \in Nat /\ H \in Nat /\ M = 2 * H /\ 0 < M /\ a \in Int /\ b \in Int
    BY Widths
  <1>2. 0 <= a /\ a < M /\ 0 <= b /\ b < M
    BY Widths
  <1>3. d \in Int /\ -H <= d /\ d + 1 < H /\ (d = a - b \/ d = a - b + M \/ d = a - b - M)
    BY DiffFits
  <1> HIDE DEF M, H, d
  <1>4. c \in Int /\ 0 <= c /\ c < M /\ (c = a + 1 \/ (c = 0 /\ a + 1 = M))
    <2>1. a + 1 \in Int
      BY <1>1
    <2>2. CASE a + 1 < M
      BY <1>1, <1>2, <2>1, <2>2, Remainder
    <2>3. CASE a + 1 = M
      BY <1>1, <1>2, <2>1, <2>3, Remainder
    <2> QED BY <1>1, <1>2, <2>2, <2>3
  <1> HIDE DEF c
  <1>5. c \in Tick
    BY <1>4, Widths DEF M
  <1>6. d + 1 \in Int /\ -H <= d + 1 /\ (d + 1 = c - b \/ d + 1 = c - b + M \/ d + 1 = c - b - M)
    BY <1>1, <1>2, <1>3, <1>4
  <1>7. Diff(c, b) = d + 1
    BY <1>3, <1>5, <1>6, DiffIs DEF M, H
  <1> QED BY <1>5, <1>7 DEF c, d, M

\* A start moved ahead by i makes the difference smaller by i.
LEMMA DiffReset ==
  ASSUME NEW a \in Tick, NEW b \in Tick, NEW i \in Nat, i <= Diff(a, b)
  PROVE  Diff(a, (b + i) % 2^W) = Diff(a, b) - i
  <1> DEFINE M == 2^W
             H == 2^(W - 1)
             d == Diff(a, b)
             c == (b + i) % M
  <1>1. M \in Nat /\ H \in Nat /\ M = 2 * H /\ 0 < M /\ a \in Int /\ b \in Int
    BY Widths
  <1>2. 0 <= a /\ a < M /\ 0 <= b /\ b < M
    BY Widths
  <1>3. d \in Int /\ -H <= d /\ d < H /\ i <= d /\ (d = a - b \/ d = a - b + M \/ d = a - b - M)
    BY DiffFits
  <1> HIDE DEF M, H, d
  <1>4. c \in Int /\ 0 <= c /\ c < M /\ (c = b + i \/ c = b + i - M)
    <2>1. b + i \in Int /\ 0 <= b + i /\ b + i < 2 * M
      BY <1>1, <1>2, <1>3
    <2>2. CASE b + i < M
      BY <1>1, <2>1, <2>2, Remainder
    <2>3. CASE ~(b + i < M)
      BY <1>1, <2>1, <2>3, Remainder
    <2> QED BY <2>2, <2>3
  <1> HIDE DEF c
  <1>5. c \in Tick
    BY <1>4, Widths DEF M
  <1>6. /\ d - i \in Int /\ -H <= d - i /\ d - i < H
        /\ d - i = a - c \/ d - i = a - c + M \/ d - i = a - c - M
    BY <1>1, <1>2, <1>3, <1>4
  <1>7. Diff(a, c) = d - i
    BY <1>5, <1>6, DiffIs DEF M, H
  <1> QED BY <1>7 DEF c, d, M

-----------------------------------------------------------------------------
(* The steps.                                                              *)

\* Types, histories and queue, the part of the invariant that stands alone.
BaseInv == TypeOK /\ HistoryType /\ QueueInv

\* Arming t puts it at the end of the list of counting timers, and a callback
\* timer at the end of its own list.
LEMMA AddIs ==
  ASSUME TypeOK, NEW t \in Timer, AddTimer(t)
  PROVE  /\ etimList' \in Seq(Timer) /\ IsInjective(etimList')
         /\ \A y : InList(etimList', y) <=> InList(etimList, y) \/ y = t
         /\ ctimList' \in Seq(CTimer) /\ IsInjective(ctimList')
         /\ \A y \in CTimer : InList(ctimList', y) <=> InList(ctimList, y) \/ y = t
         /\ active' \in [Timer -> BOOLEAN] /\ active' = [active EXCEPT ![t] = TRUE]
  <1>1. etimList \in Seq(Timer) /\ IsInjective(etimList) /\ etimList' = ListAdd(etimList, t)
    BY DEF TypeOK, AddTimer
  <1>2. ctimList \in Seq(CTimer) /\ IsInjective(ctimList)
    BY DEF TypeOK
  <1>3. /\ etimList' \in Seq(Timer) /\ IsInjective(etimList')
        /\ \A y : InList(etimList', y) <=> InList(etimList, y) \/ y = t
    BY <1>1, ListKeeps
  <1>4. /\ ctimList' \in Seq(CTimer) /\ IsInjective(ctimList')
        /\ \A y \in CTimer : InList(ctimList', y) <=> InList(ctimList, y) \/ y = t
    <2>1. CASE t \in CTimer
      <3>1. ctimList' = ListAdd(ctimList, t)
        BY <2>1 DEF AddTimer, AddCtimer
      <3> QED BY <1>2, <2>1, <3>1, ListKeeps
    <2>2. CASE t \notin CTimer
      BY <1>2, <2>2 DEF AddTimer, AddCtimer
    <2> QED BY <2>1, <2>2
  <1> QED BY <1>3, <1>4 DEF AddTimer, TypeOK

\* The operations of client code.
ClientStep(t) == (\E i \in Interval : Set(t, i)) \/ Restart(t) \/ Reset(t)

LEMMA BaseStep == BaseInv /\ [Next]_vars => BaseInv'
  <1> SUFFICES ASSUME BaseInv, [Next]_vars PROVE BaseInv'
    OBVIOUS
  <1>0. TypeOK /\ HistoryType /\ QueueInv /\ QueueOK
    BY DEF BaseInv, QueueOK, TypeOK, QueueInv
  <1>1. ASSUME NEW t \in Timer, ClientStep(t) PROVE BaseInv'
    <2>1. AddTimer(t) /\ Armed(t) /\ UNCHANGED <<now, evList, pc, running, toPoll>>
      BY <1>1 DEF ClientStep, Set, Restart, Reset
    <2>2. /\ etimList' \in Seq(Timer) /\ IsInjective(etimList')
          /\ \A y : InList(etimList', y) <=> InList(etimList, y) \/ y = t
          /\ ctimList' \in Seq(CTimer) /\ IsInjective(ctimList')
          /\ active' \in [Timer -> BOOLEAN]
      BY <1>0, <2>1, AddIs
    <2>3. start' \in [Timer -> Tick]
      <3>1. now \in Tick /\ start \in [Timer -> Tick] /\ interval \in [Timer -> Interval \cup {0}]
        BY <1>0 DEF TypeOK
      <3>2. NextStart(t) \in Tick
        <4>1. start[t] \in Int /\ interval[t] \in Nat
          BY <3>1, Widths
        <4>2. start[t] + interval[t] \in Int
          BY <4>1
        <4>3. /\ (start[t] + interval[t]) % 2^W \in Int /\ 0 <= (start[t] + interval[t]) % 2^W
              /\ (start[t] + interval[t]) % 2^W < 2^W
          BY <4>2, Widths, Remainder
        <4> QED BY <4>3, Widths DEF NextStart
      <3>3. start' = [start EXCEPT ![t] = now] \/ start' = [start EXCEPT ![t] = NextStart(t)]
        BY <1>1 DEF ClientStep, Set, Restart, Reset, StartNow
      <3> HIDE DEF Tick
      <3> QED BY <3>1, <3>2, <3>3
    <2>4. interval' \in [Timer -> Interval \cup {0}]
      BY <1>0, <1>1 DEF ClientStep, Set, Restart, Reset, TypeOK
    <2>5. HistoryType'
      <3>1. lost' \subseteq Timer /\ calls' \in [Timer -> Nat]
        BY <1>0, <2>1 DEF Armed, HistoryType
      <3>2. stale' \subseteq Timer /\ stopped' \subseteq Timer
        BY <1>0, <1>1 DEF ClientStep, Set, Restart, Reset, StartNow, HistoryType
      <3> QED BY <3>1, <3>2 DEF HistoryType
    <2>6. TypeOK'
      BY <1>0, <2>1, <2>2, <2>3, <2>4 DEF TypeOK
    <2>7. QueueInv'
      BY <1>0, <2>1, <2>2 DEF QueueInv, Pending
    <2> QED BY <2>5, <2>6, <2>7 DEF BaseInv
  <1>2. ASSUME NEW t \in Timer, Stop(t) PROVE BaseInv'
    <2>1. /\ etimList' = ListRemove(etimList, t) /\ ctimList' = ListRemove(ctimList, t)
          /\ active' = [active EXCEPT ![t] = FALSE] /\ stopped' = stopped \cup {t}
          /\ calls' = [calls EXCEPT ![t] = 0] /\ pc \in {"init", "callback"}
          /\ UNCHANGED <<now, start, interval, evList, pc, running, toPoll, lost, stale>>
      BY <1>2 DEF Stop, RemoveCtimer, ClientRuns
    <2>2. etimList' \in Seq(Timer) /\ IsInjective(etimList')
      BY <1>0, <2>1, ListKeeps DEF TypeOK
    <2>3. ctimList' \in Seq(CTimer) /\ IsInjective(ctimList')
      BY <1>0, <2>1, ListKeeps DEF TypeOK
    <2>4. TypeOK'
      BY <1>0, <2>1, <2>2, <2>3 DEF TypeOK
    <2>5. HistoryType'
      BY <1>0, <2>1 DEF HistoryType
    <2>6. toPoll' = <<>> /\ toPoll = <<>>
      BY <1>0, <2>1 DEF QueueInv
    <2>7. QueueInv'
      BY <1>0, <2>1, <2>6 DEF QueueInv, Pending
    <2> QED BY <2>4, <2>5, <2>7 DEF BaseInv
  <1>3. ASSUME TakeEvent, pc' \in {"callback", "poll"},
               ctimList' \in Seq(CTimer), IsInjective(ctimList'), calls' \in [Timer -> Nat],
               pc' = "callback" => running' = Last(evList),
               pc' = "poll" => running' = running
        PROVE  BaseInv'
    <2>1. /\ QueueOK' /\ Last(evList) \in Timer \cup IsrEvent
          /\ \A y : InList(evList', y) <=> Pending(y) /\ y # Last(evList)
      BY <1>0, <1>3, TakeKeeps
    <2>2. UNCHANGED <<now, start, interval, active, etimList, toPoll, lost, stale, stopped>>
          /\ pc = "event"
      BY <1>3 DEF TakeEvent
    <2>3. TypeOK'
      BY <1>0, <1>3, <2>1, <2>2 DEF TypeOK, QueueOK
    <2>4. HistoryType'
      BY <1>0, <1>3, <2>2 DEF HistoryType
    <2>5. toPoll' = <<>> /\ toPoll = <<>>
      BY <1>0, <2>2 DEF QueueInv
    <2>6. QueueInv'
      BY <1>0, <1>3, <2>1, <2>2, <2>5 DEF QueueInv, Pending, QueueOK
    <2> QED BY <2>3, <2>4, <2>6 DEF BaseInv
  <1>4. ASSUME NEW t \in Timer, Expire(t) PROVE BaseInv'
    <2>1. calls' = [calls EXCEPT ![t] = @ + 1] /\ TakeEvent /\ RunCallback(t) /\ t = Last(evList)
      BY <1>4 DEF Expire, Fire, Handle
    <2>2. calls' \in [Timer -> Nat]
      BY <1>0, <2>1 DEF HistoryType
    <2>3. ctimList' \in Seq(CTimer) /\ IsInjective(ctimList')
      <3>1. ctimList' = ListRemove(ctimList, t) \/ ctimList' = ctimList
        BY <1>4 DEF Expire, Fire, Handle
      <3>2. ctimList \in Seq(CTimer) /\ IsInjective(ctimList)
        BY <1>0 DEF TypeOK
      <3>3. ListRemove(ctimList, t) \in Seq(CTimer) /\ IsInjective(ListRemove(ctimList, t))
        BY <3>2, ListKeeps
      <3> QED BY <3>1, <3>2, <3>3
    <2> QED BY <1>3, <2>1, <2>2, <2>3 DEF RunCallback
  <1>5. ASSUME Ignore \/ OtherEvent PROVE BaseInv'
    BY <1>0, <1>3, <1>5 DEF Ignore, OtherEvent, RunCallback, TypeOK, HistoryType
  <1>6. CASE NoEvent \/ ClientReturn
    <2>1. UNCHANGED <<now, start, interval, active, etimList, ctimList, evList, toPoll, history>>
      BY <1>6 DEF NoEvent, ClientReturn
    <2>2. /\ pc # "poll" /\ pc' \in {"event", "poll"}
          /\ running' = NONE \/ running' = running
      BY <1>6 DEF NoEvent, ClientReturn, ClientRuns
    <2>3. TypeOK'
      BY <1>0, <2>1, <2>2 DEF TypeOK
    <2>4. HistoryType'
      BY <1>0, <2>1 DEF HistoryType, history
    <2>5. QueueInv'
      BY <1>0, <2>1, <2>2 DEF QueueInv, Pending
    <2> QED BY <2>3, <2>4, <2>5 DEF BaseInv
  <1>7. CASE PollBegin
    <2>1. /\ UNCHANGED <<now, start, interval, active, etimList, ctimList, evList, running, history>>
          /\ toPoll' = etimList /\ pc' = IF etimList = <<>> THEN "event" ELSE "poll"
      BY <1>7 DEF PollBegin
    <2>2. TypeOK'
      BY <1>0, <2>1 DEF TypeOK
    <2>3. HistoryType'
      BY <1>0, <2>1 DEF HistoryType, history
    <2>4. \A i \in 1 .. Len(etimList) : InList(etimList, etimList[i])
      BY DEF InList
    <2>5. QueueInv'
      BY <1>0, <2>1, <2>4 DEF QueueInv, Pending, TypeOK
    <2> QED BY <2>2, <2>3, <2>5 DEF BaseInv
  <1>8. CASE PollOne
    <2> DEFINE t == Head(toPoll)
    <2>1. toPoll \in Seq(Timer) /\ toPoll # <<>> /\ IsInjective(toPoll)
      BY <1>0, <1>8 DEF PollOne, TypeOK, QueueInv
    <2>2. /\ Tail(toPoll) \in Seq(Timer) /\ IsInjective(Tail(toPoll)) /\ Len(Tail(toPoll)) = Len(toPoll) - 1
          /\ t \in Timer /\ t \in ToSet(toPoll)
          /\ ToSet(Tail(toPoll)) = ToSet(toPoll) \ {t}
      BY <2>1, TailKeeps
    <2>3. /\ toPoll' = Tail(toPoll) /\ pc' = IF Len(toPoll) = 1 THEN "event" ELSE "poll"
          /\ UNCHANGED <<now, start, interval, ctimList, running, stale, stopped, calls>>
      BY <1>8 DEF PollOne
    <2>4. /\ QueueOK' /\ lost' \subseteq Timer /\ active' \in [Timer -> BOOLEAN]
          /\ etimList' \in Seq(Timer) /\ IsInjective(etimList')
          /\ \A y : InList(etimList, y) /\ y # t => InList(etimList', y)
      <3>1. CASE TimerExpired(t)
        <4>1. /\ PutTail(t) /\ etimList' = ListRemove(etimList, t)
              /\ active' = [active EXCEPT ![t] = FALSE] /\ lost' \in {lost, lost \cup {t}}
          BY <1>8, <3>1 DEF PollOne
        <4> HIDE DEF t
        <4>2. QueueOK'
          BY <1>0, <2>2, <4>1, PutKeeps
        <4>3. /\ etimList' \in Seq(Timer) /\ IsInjective(etimList')
              /\ \A y : InList(etimList', y) <=> InList(etimList, y) /\ y # t
          BY <1>0, <4>1, ListKeeps DEF TypeOK
        <4> QED BY <1>0, <2>2, <4>1, <4>2, <4>3 DEF TypeOK, HistoryType
      <3>2. CASE ~TimerExpired(t)
        <4>1. UNCHANGED <<evList, etimList, active, lost>>
          BY <1>8, <3>2 DEF PollOne
        <4> QED BY <1>0, <4>1 DEF QueueOK, TypeOK, HistoryType
      <3> QED BY <3>1, <3>2
    <2> HIDE DEF t
    <2>5. TypeOK'
      BY <1>0, <2>2, <2>3, <2>4 DEF TypeOK, QueueOK
    <2>6. HistoryType'
      BY <1>0, <2>3, <2>4 DEF HistoryType
    <2>7. \A i \in 1 .. Len(toPoll') : InList(etimList', toPoll'[i])
      <3>1. SUFFICES ASSUME NEW i \in 1 .. Len(toPoll') PROVE InList(etimList', toPoll'[i])
        OBVIOUS
      <3>2. toPoll'[i] \in ToSet(Tail(toPoll))
        BY <2>2, <2>3, ToSetIs
      <3>3. toPoll'[i] \in ToSet(toPoll) /\ toPoll'[i] # t
        BY <2>2, <3>2
      <3>4. InList(etimList, toPoll'[i])
        BY <1>0, <2>1, <3>3, ToSetIs DEF QueueInv
      <3> QED BY <2>4, <3>3, <3>4
    <2>8. pc' # "poll" => toPoll' = <<>>
      BY <2>1, <2>2, <2>3
    <2>9. QueueInv'
      BY <2>2, <2>3, <2>4, <2>7, <2>8 DEF QueueInv, QueueOK
    <2> QED BY <2>5, <2>6, <2>9 DEF BaseInv
  <1>9. CASE ClockTick
    <2>1. /\ now' = (now + 1) % 2^W
          /\ UNCHANGED <<start, interval, active, etimList, ctimList, evList, pc, running, toPoll, history>>
      BY <1>9 DEF ClockTick
    <2>2. now' \in Tick
      <3>1. now + 1 \in Int
        BY <1>0, Widths DEF TypeOK
      <3> QED BY <2>1, <3>1, Widths, Remainder
    <2>3. TypeOK'
      BY <1>0, <2>1, <2>2 DEF TypeOK
    <2>4. HistoryType'
      BY <1>0, <2>1 DEF HistoryType, history
    <2>5. QueueInv'
      BY <1>0, <2>1 DEF QueueInv, Pending
    <2> QED BY <2>3, <2>4, <2>5 DEF BaseInv
  <1>10. ASSUME NEW x \in IsrEvent, IsrPut(x) PROVE BaseInv'
    <2>1. /\ PutHead(x)
          /\ UNCHANGED <<now, start, interval, active, etimList, ctimList, pc, running, toPoll, history>>
      BY <1>10 DEF IsrPut
    <2>2. QueueOK' /\ \A y : InList(evList', y) <=> Pending(y) \/ (y = x /\ ~QueueFull)
      BY <1>0, <2>1, PutKeeps
    <2>3. \A t \in Timer : t # x
      BY TimersAssumption
    <2>4. TypeOK'
      BY <1>0, <2>1, <2>2 DEF TypeOK, QueueOK
    <2>5. HistoryType'
      BY <1>0, <2>1 DEF HistoryType, history
    <2>6. QueueInv'
      BY <1>0, <2>1, <2>2, <2>3 DEF QueueInv, Pending, QueueOK
    <2> QED BY <2>4, <2>5, <2>6 DEF BaseInv
  <1>11. CASE UNCHANGED vars
    BY <1>0, <1>11 DEF BaseInv, TypeOK, HistoryType, QueueInv, Pending, vars
  <1> QED BY <1>1, <1>2, <1>4, <1>5, <1>6, <1>7, <1>8, <1>9, <1>10, <1>11
        DEF Next, Client, MainLoop, ClientStep

\* Running a callback unlinks a callback timer that was in its list, and counts
\* as a call of the timer whose event was taken.
LEMMA ExpireIs ==
  ASSUME BaseInv, NEW t \in Timer, Expire(t)
  PROVE  /\ calls' = [calls EXCEPT ![t] = @ + 1] /\ t = Last(evList)
         /\ \A y : InList(evList', y) <=> Pending(y) /\ y # t
         /\ Pending(t) /\ pc' = "callback" /\ running' = t
         /\ t \in CTimer => InList(ctimList, t)
         /\ t \notin CTimer => EtimerExpired(t)
         /\ \A y \in CTimer : InList(ctimList', y) <=> InList(ctimList, y) /\ y # t
         /\ UNCHANGED <<now, start, interval, active, etimList, toPoll, lost, stale, stopped>>
  <1>1. /\ TakeEvent /\ t = Last(evList) /\ RunCallback(t)
        /\ IF t \in CTimer THEN Fire(t) ELSE Handle(t)
    BY DEF Expire
  <1>2. /\ Pending(t) /\ \A y : InList(evList', y) <=> Pending(y) /\ y # t
    BY <1>1, TakeKeeps DEF BaseInv, QueueOK, TypeOK, QueueInv
  <1>3. CASE t \in CTimer
    <2>1. InList(ctimList, t) /\ ctimList' = ListRemove(ctimList, t) /\ calls' = [calls EXCEPT ![t] = @ + 1]
      BY <1>1, <1>3 DEF Fire
    <2>2. \A y : InList(ctimList', y) <=> InList(ctimList, y) /\ y # t
      BY <2>1, ListKeeps DEF BaseInv, TypeOK
    <2> QED BY <1>1, <1>2, <1>3, <2>1, <2>2 DEF TakeEvent, RunCallback
  <1>4. CASE t \notin CTimer
    BY <1>1, <1>2, <1>4 DEF Handle, TakeEvent, RunCallback
  <1> QED BY <1>3, <1>4

\* An event without a callback run leaves every timer as it was.
LEMMA DropIs ==
  ASSUME BaseInv, Ignore \/ OtherEvent
  PROVE  /\ UNCHANGED <<now, start, interval, active, etimList, ctimList, toPoll, lost, stale, stopped, calls>>
         /\ \A t \in Timer :
              /\ InList(evList', t) => Pending(t)
              /\ t \in CTimer /\ InList(ctimList, t) /\ Pending(t) => InList(evList', t)
              /\ ~(pc' = "callback" /\ running' = t)
  <1>1. /\ TakeEvent /\ UNCHANGED <<ctimList, calls>>
        /\ UNCHANGED <<now, start, interval, active, etimList, toPoll, lost, stale, stopped>>
    BY DEF Ignore, OtherEvent, TakeEvent
  <1>2. \A y : InList(evList', y) <=> Pending(y) /\ y # Last(evList)
    BY <1>1, TakeKeeps DEF BaseInv, QueueOK, TypeOK, QueueInv
  <1>3. \A t \in CTimer : InList(ctimList, t) => t # Last(evList)
    BY TimersAssumption DEF Ignore, OtherEvent, Timer
  <1>4. \A t \in Timer : ~(pc' = "callback" /\ running' = t)
    BY TimersAssumption DEF Ignore, OtherEvent, RunCallback
  <1> QED BY <1>1, <1>2, <1>3, <1>4

\* Visiting a timer in a poll moves it, if it has expired, from the list of
\* counting timers to the queue, or to the lost ones when the queue is full.
LEMMA PollIs ==
  ASSUME BaseInv, PollOne
  PROVE  LET t == Head(toPoll)
         IN  /\ t \in Timer /\ InList(etimList, t) /\ pc' # "callback"
             /\ UNCHANGED <<now, start, interval, ctimList, running, stale, stopped, calls>>
             /\ \/ UNCHANGED <<evList, etimList, active, lost>>
                \/ /\ TimerExpired(t)
                   /\ \A y : InList(etimList', y) <=> InList(etimList, y) /\ y # t
                   /\ \A y : InList(evList', y) <=> Pending(y) \/ (y = t /\ ~QueueFull)
                   /\ active' = [active EXCEPT ![t] = FALSE]
                   /\ lost' = IF QueueFull THEN lost \cup {t} ELSE lost
  <1> DEFINE t == Head(toPoll)
  <1>1. toPoll \in Seq(Timer) /\ toPoll # <<>> /\ t = toPoll[1] /\ 1 \in 1 .. Len(toPoll)
    BY DEF PollOne, BaseInv, TypeOK
  <1>2. t \in Timer /\ InList(etimList, t)
    BY <1>1 DEF BaseInv, QueueInv
  <1>3. pc' # "callback" /\ UNCHANGED <<now, start, interval, ctimList, running, stale, stopped, calls>>
    BY DEF PollOne
  <1>4. CASE ~TimerExpired(t)
    BY <1>2, <1>3, <1>4 DEF PollOne
  <1>5. CASE TimerExpired(t)
    <2>1. /\ PutTail(t) /\ etimList' = ListRemove(etimList, t)
          /\ active' = [active EXCEPT ![t] = FALSE]
          /\ lost' = IF QueueFull THEN lost \cup {t} ELSE lost
      BY <1>5 DEF PollOne
    <2> HIDE DEF t
    <2>2. \A y : InList(evList', y) <=> Pending(y) \/ (y = t /\ ~QueueFull)
      BY <1>2, <2>1, PutKeeps DEF BaseInv, QueueOK, TypeOK, QueueInv
    <2>3. \A y : InList(etimList', y) <=> InList(etimList, y) /\ y # t
      BY <2>1, ListKeeps DEF BaseInv, TypeOK
    <2>4. QED BY <1>2, <1>3, <1>5, <2>1, <2>2, <2>3 DEF t
  <1> QED BY <1>4, <1>5

\* Stopping takes t out of both lists.
LEMMA StopIs ==
  ASSUME BaseInv, NEW t \in Timer, Stop(t)
  PROVE  /\ \A y : InList(etimList', y) <=> InList(etimList, y) /\ y # t
         /\ \A y : InList(ctimList', y) <=> InList(ctimList, y) /\ y # t
         /\ active' = [active EXCEPT ![t] = FALSE] /\ stopped' = stopped \cup {t}
         /\ calls' = [calls EXCEPT ![t] = 0]
         /\ UNCHANGED <<now, start, interval, evList, pc, running, toPoll, lost, stale>>
  BY ListKeeps DEF Stop, RemoveCtimer, BaseInv, TypeOK

\* No other step changes a list, a queue or a history, but for an interrupt
\* that adds an event of its own.
LEMMA QuietIs ==
  ASSUME BaseInv,
         \/ NoEvent \/ ClientReturn \/ PollBegin \/ ClockTick
         \/ (\E x \in IsrEvent : IsrPut(x)) \/ UNCHANGED vars
  PROVE  /\ UNCHANGED <<start, interval, active, etimList, ctimList, history>>
         /\ \A t \in Timer : InList(evList', t) <=> Pending(t)
         /\ \A t \in Timer : pc' = "callback" /\ running' = t => pc = "callback" /\ running = t
         /\ ~ClockTick => now' = now
  <1>1. CASE NoEvent \/ ClientReturn \/ PollBegin
    BY <1>1 DEF NoEvent, ClientReturn, PollBegin, Pending, BaseInv, TypeOK
  <1>2. CASE ClockTick \/ UNCHANGED vars
    BY <1>2 DEF ClockTick, vars, history, Pending
  <1>3. CASE \E x \in IsrEvent : IsrPut(x)
    <2>1. PICK x \in IsrEvent : IsrPut(x)
      BY <1>3
    <2>2. PutHead(x) /\ UNCHANGED <<now, start, interval, active, etimList, ctimList, pc, running, history>>
      BY <2>1 DEF IsrPut
    <2>3. \A y : InList(evList', y) <=> Pending(y) \/ (y = x /\ ~QueueFull)
      BY <2>2, PutKeeps DEF BaseInv, QueueOK, TypeOK, QueueInv
    <2>4. \A t \in Timer : t # x
      BY TimersAssumption
    <2> QED BY <2>2, <2>3, <2>4
  <1> QED BY <1>1, <1>2, <1>3

\* Every step is one of six kinds.
LEMMA Steps ==
  ASSUME [Next]_vars
  PROVE  \/ \E t \in Timer : ClientStep(t) \/ Stop(t) \/ Expire(t)
         \/ Ignore \/ OtherEvent
         \/ PollOne
         \/ \/ NoEvent \/ ClientReturn \/ PollBegin \/ ClockTick
            \/ (\E x \in IsrEvent : IsrPut(x)) \/ UNCHANGED vars
  BY DEF Next, Client, MainLoop, ClientStep

\* NotForgotten is kept: a callback timer leaves the list of counting timers
\* only for the queue, for the lost ones, or together with its own list.
LEMMA ForgetStep == BaseInv /\ NotForgotten /\ [Next]_vars => NotForgotten'
  <1> SUFFICES ASSUME BaseInv, NotForgotten, [Next]_vars PROVE NotForgotten'
    OBVIOUS
  <1> USE DEF NotForgotten, Pending
  <1>0. CTimer \subseteq Timer /\ TypeOK
    BY DEF Timer, BaseInv
  <1>1. ASSUME NEW t \in Timer, ClientStep(t) PROVE NotForgotten'
    <2>1. AddTimer(t) /\ Armed(t) /\ evList' = evList
      BY <1>1 DEF ClientStep, Set, Restart, Reset
    <2>2. /\ \A y : InList(etimList', y) <=> InList(etimList, y) \/ y = t
          /\ \A y \in CTimer : InList(ctimList', y) <=> InList(ctimList, y) \/ y = t
      BY <1>0, <2>1, AddIs
    <2> QED BY <2>1, <2>2 DEF Armed
  <1>2. ASSUME NEW t \in Timer, Stop(t) PROVE NotForgotten'
    <2>1. /\ \A y : InList(etimList', y) <=> InList(etimList, y) /\ y # t
          /\ \A y : InList(ctimList', y) <=> InList(ctimList, y) /\ y # t
          /\ UNCHANGED <<evList, lost>>
      BY <1>2, StopIs
    <2> QED BY <2>1
  <1>3. ASSUME NEW t \in Timer, Expire(t) PROVE NotForgotten'
    BY <1>3, ExpireIs
  <1>4. CASE Ignore \/ OtherEvent
    <2>1. /\ UNCHANGED <<etimList, ctimList, lost>>
          /\ \A t \in Timer : t \in CTimer /\ InList(ctimList, t) /\ Pending(t) => InList(evList', t)
      BY <1>4, DropIs
    <2> QED BY <1>0, <2>1
  <1>5. CASE PollOne
    BY <1>5, PollIs
  <1>6. CASE \/ NoEvent \/ ClientReturn \/ PollBegin \/ ClockTick
             \/ (\E x \in IsrEvent : IsrPut(x)) \/ UNCHANGED vars
    <2>1. /\ UNCHANGED <<etimList, ctimList, history>>
          /\ \A t \in Timer : InList(evList', t) <=> Pending(t)
      BY <1>6, QuietIs
    <2> QED BY <1>0, <2>1 DEF history
  <1> QED BY <1>1, <1>2, <1>3, <1>4, <1>5, <1>6, Steps

\* ListedInv is kept: being called means leaving the list.
LEMMA ListedStep == BaseInv /\ ListedInv /\ [Next]_vars => ListedInv'
  <1> SUFFICES ASSUME BaseInv, ListedInv, [Next]_vars PROVE ListedInv'
    OBVIOUS
  <1> USE DEF ListedInv
  <1>0. /\ CTimer \subseteq Timer /\ TypeOK /\ calls \in [Timer -> Nat]
    BY DEF Timer, BaseInv, HistoryType
  <1>1. ASSUME NEW t \in Timer, ClientStep(t) PROVE ListedInv'
    <2>1. AddTimer(t) /\ calls' = [calls EXCEPT ![t] = 0]
      BY <1>1 DEF ClientStep, Set, Restart, Reset, Armed
    <2>2. \A y \in CTimer : InList(ctimList', y) <=> InList(ctimList, y) \/ y = t
      BY <1>0, <2>1, AddIs
    <2>3. stopped' \subseteq stopped /\ (t \in CTimer => t \notin stopped')
      BY <1>1 DEF ClientStep, Set, Restart, Reset, StartNow
    <2> QED BY <1>0, <2>1, <2>2, <2>3
  <1>2. ASSUME NEW t \in Timer, Stop(t) PROVE ListedInv'
    <2>1. /\ \A y : InList(ctimList', y) <=> InList(ctimList, y) /\ y # t
          /\ calls' = [calls EXCEPT ![t] = 0] /\ stopped' = stopped \cup {t}
      BY <1>2, StopIs
    <2> QED BY <1>0, <2>1
  <1>3. ASSUME NEW t \in Timer, Expire(t) PROVE ListedInv'
    <2>1. /\ calls' = [calls EXCEPT ![t] = @ + 1] /\ stopped' = stopped
          /\ t \in CTimer => InList(ctimList, t)
          /\ \A y \in CTimer : InList(ctimList', y) <=> InList(ctimList, y) /\ y # t
      BY <1>3, ExpireIs
    <2> QED BY <1>0, <2>1
  <1>4. CASE Ignore \/ OtherEvent
    <2>1. UNCHANGED <<ctimList, stopped, calls>>
      BY <1>4, DropIs
    <2> QED BY <2>1
  <1>5. CASE PollOne
    <2>1. UNCHANGED <<ctimList, stopped, calls>>
      BY <1>5, PollIs
    <2> QED BY <2>1
  <1>6. CASE \/ NoEvent \/ ClientReturn \/ PollBegin \/ ClockTick
             \/ (\E x \in IsrEvent : IsrPut(x)) \/ UNCHANGED vars
    <2>1. UNCHANGED <<ctimList, history>>
      BY <1>6, QuietIs
    <2> QED BY <2>1 DEF history
  <1> QED BY <1>1, <1>2, <1>3, <1>4, <1>5, <1>6, Steps

\* What LateInv says of one timer.
OnTime(t) ==
  /\ InList(etimList, t) => 0 <= Elapsed(t)
  /\ Due(t) \/ Serving(t) => interval[t] < Elapsed(t)
  /\ t \in ToServe => Elapsed(t) <= interval[t] + MaxLate + 1

\* The ticks of a timer that reads as expired and has started in the past.
LEMMA ExpiredElapsed ==
  ASSUME TypeOK, NEW t \in Timer, 0 <= Elapsed(t), TimerExpired(t)
  PROVE  interval[t] < Elapsed(t)
  <1> DEFINE M == 2^W
             H == 2^(W - 1)
             a == now
             b == start[t]
             d == Elapsed(t)
  <1>1. a \in Tick /\ b \in Tick /\ interval[t] \in Nat
    BY Widths DEF TypeOK
  <1>2. d = Diff(a, b)
    BY DEF Elapsed, Diff
  <1>3. /\ d \in Int /\ d < H
        /\ d = a - b \/ d = a - b + M \/ d = a - b - M
    BY <1>1, <1>2, DiffFits
  <1>4. M \in Nat /\ H \in Nat /\ M = 2 * H /\ a \in Int /\ b \in Int /\ 0 <= a /\ a < M /\ 0 <= b /\ b < M
    BY <1>1, Widths
  <1>5. interval[t] < IF a >= b THEN a - b ELSE (M - 1) - b + a + 1
    BY DEF TimerExpired
  <1>6. 0 <= d
    OBVIOUS
  <1> HIDE DEF M, H, a, b, d
  <1>7. interval[t] < d
    BY <1>1, <1>3, <1>4, <1>5, <1>6
  <1> QED BY <1>7 DEF d

\* LateInv is kept.
LEMMA LateStep == BaseInv /\ LateInv /\ [Next]_vars => LateInv'
  <1> SUFFICES ASSUME BaseInv, LateInv, [Next]_vars PROVE LateInv'
    OBVIOUS
  <1>0. /\ CTimer \subseteq Timer /\ TypeOK /\ calls \in [Timer -> Nat] /\ BaseInv'
        /\ active \in [Timer -> BOOLEAN] /\ start \in [Timer -> Tick] /\ now \in Tick
    BY BaseStep DEF Timer, BaseInv, HistoryType, TypeOK
  <1>a. \A t \in Timer : Regular(t) => OnTime(t)
    BY DEF LateInv, OnTime
  <1>b. \A t \in Timer : /\ interval[t] \in Nat /\ interval[t] + MaxLate + 1 < 2^(W - 1)
                         /\ start[t] \in Tick
    BY <1>0, Widths DEF TypeOK
  <1>c. MaxLate \in Nat
    BY TimersAssumption
  <1>d. \A t \in Timer : Elapsed(t) = Diff(now, start[t]) /\ Elapsed(t)' = Diff(now', start'[t])
    BY DEF Elapsed, Diff
  <1>e. \A t \in Timer : Elapsed(t) \in Int
    BY <1>0, <1>b, <1>d, DiffFits
  <1> SUFFICES ASSUME NEW u \in Timer, Regular(u)' PROVE OnTime(u)'
    BY DEF LateInv, OnTime
  <1>s. ASSUME UNCHANGED <<now, start, interval>>, Regular(u),
               InList(etimList', u) => InList(etimList, u),
               Due(u)' \/ Serving(u)' => Due(u) \/ Serving(u) \/ (InList(etimList, u) /\ TimerExpired(u)),
               (u \in ToServe)' => u \in ToServe
        PROVE  OnTime(u)'
    <2>1. Elapsed(u)' = Elapsed(u) /\ OnTime(u)
      BY <1>a, <1>s DEF Elapsed
    <2>2. Due(u)' \/ Serving(u)' => interval[u] < Elapsed(u)
      BY <1>0, <1>s, <2>1, ExpiredElapsed DEF OnTime
    <2> QED BY <1>s, <2>1, <2>2 DEF OnTime
  <1>1. ASSUME NEW t \in Timer, ClientStep(t) PROVE OnTime(u)'
    <2>1. /\ AddTimer(t) /\ calls' = [calls EXCEPT ![t] = 0]
          /\ UNCHANGED <<now, evList, pc, running>>
      BY <1>1 DEF ClientStep, Set, Restart, Reset, Armed
    <2>2. /\ \A y : InList(etimList', y) <=> InList(etimList, y) \/ y = t
          /\ active' = [active EXCEPT ![t] = TRUE]
      BY <1>0, <2>1, AddIs
    <2>3. CASE u # t
      <3>1. start'[u] = start[u] /\ interval'[u] = interval[u] /\ (u \in stale' <=> u \in stale)
            /\ (u \in stopped' <=> u \in stopped)
        BY <1>0, <1>1, <2>3 DEF ClientStep, Set, Restart, Reset, StartNow, TypeOK
      <3>2. Regular(u) /\ Elapsed(u)' = Elapsed(u)
        BY <1>d, <2>1, <3>1 DEF Regular
      <3>3. calls'[u] = calls[u] /\ active'[u] = active[u] /\ (InList(etimList', u) <=> InList(etimList, u))
        BY <1>0, <2>1, <2>2, <2>3
      <3>4. (Due(u)' <=> Due(u)) /\ (Serving(u)' <=> Serving(u)) /\ ((u \in ToServe)' <=> u \in ToServe)
        BY <2>1, <3>3 DEF Due, Serving, ToServe, Pending, EtimerExpired
      <3>5. OnTime(u)
        BY <1>a, <3>2
      <3> QED BY <3>1, <3>2, <3>3, <3>4, <3>5 DEF OnTime
    <2>4. CASE u = t
      <3>1. ~Serving(u)' /\ active'[u] = TRUE
        BY <1>0, <2>1, <2>2, <2>4 DEF Serving
      <3>2. CASE Reset(t)
        <4>1. /\ Serving(u) /\ Regular(u) /\ start'[u] = NextStart(u)
              /\ interval' = interval
          BY <1>0, <2>4, <3>2 DEF Reset, Serving, Regular
        <4>2. OnTime(u) /\ interval[u] < Elapsed(u)
          BY <1>a, <4>1 DEF OnTime
        <4>3. u \in ToServe
          BY <4>1 DEF ToServe, Serving
        <4>4. Elapsed(u) <= interval[u] + MaxLate + 1
          BY <4>2, <4>3 DEF OnTime
        <4>5. Elapsed(u)' = Elapsed(u) - interval[u]
          <5>1. Diff(now, (start[u] + interval[u]) % 2^W) = Diff(now, start[u]) - interval[u]
            BY <1>0, <1>b, <1>d, <1>e, <4>2, DiffReset
          <5> QED BY <1>d, <2>1, <4>1, <5>1 DEF NextStart
        <4>6. ~Pending(u) /\ ~Pending(u)'
          BY <2>1, <4>1 DEF BaseInv, QueueInv, Serving, Pending
        <4>7. ~Due(u)'
          BY <4>6 DEF Due
        <4> QED BY <1>b, <1>c, <1>e, <3>1, <4>1, <4>2, <4>4, <4>5, <4>7 DEF OnTime
      <3>3. CASE ~Reset(t)
        <4>1. StartNow(t) /\ interval'[u] \in Nat
          BY <1>b, <1>0, <1>1, <2>4, <3>3, Widths DEF ClientStep, Set, Restart, TypeOK
        <4>2. start'[u] = now /\ stale' = IF Pending(t) THEN stale \cup {t} ELSE stale \ {t}
          BY <1>0, <2>4, <4>1 DEF StartNow
        <4>3. Elapsed(u)' = 0
          <5>1. Diff(now, now) = 0
            BY <1>0, DiffIs, Widths
          <5> QED BY <1>d, <2>1, <4>2, <5>1
        <4>4. ~Due(u)'
          BY <2>1, <2>4, <3>1, <4>2 DEF Due, EtimerExpired, Regular, Pending
        <4> QED BY <1>c, <3>1, <4>1, <4>3, <4>4 DEF OnTime
      <3> QED BY <3>2, <3>3
    <2> QED BY <2>3, <2>4
  <1>2. ASSUME NEW t \in Timer, Stop(t) PROVE OnTime(u)'
    <2>1. /\ \A y : InList(etimList', y) <=> InList(etimList, y) /\ y # t
          /\ active' = [active EXCEPT ![t] = FALSE] /\ stopped' = stopped \cup {t}
          /\ calls' = [calls EXCEPT ![t] = 0]
          /\ UNCHANGED <<now, start, interval, evList, pc, running, lost, stale>>
      BY <1>2, StopIs
    <2>2. Regular(u)
      BY <2>1 DEF Regular
    <2>3. Due(u)' => Due(u)
      BY <1>0, <2>1 DEF Due, Pending, EtimerExpired, Regular
    <2>4. Serving(u)' => Serving(u)
      BY <1>0, <2>1 DEF Serving
    <2>5. (u \in ToServe)' => u \in ToServe
      BY <2>1 DEF ToServe, Pending
    <2> QED BY <1>s, <2>1, <2>2, <2>3, <2>4, <2>5
  <1>3. ASSUME NEW t \in Timer, Expire(t) PROVE OnTime(u)'
    <2>1. /\ \A y : InList(evList', y) <=> Pending(y) /\ y # t
          /\ Pending(t) /\ pc' = "callback" /\ running' = t
          /\ t \notin CTimer => EtimerExpired(t)
          /\ UNCHANGED <<now, start, interval, active, etimList, lost, stale, stopped>>
      BY <1>3, ExpireIs
    <2>2. Regular(u)
      BY <2>1 DEF Regular
    <2>3. Due(u)' => Due(u)
      BY <2>1 DEF Due, Pending, EtimerExpired
    <2>4. Serving(u)' => Due(u)
      BY <2>1 DEF Serving, Due
    <2>5. (u \in ToServe)' => u \in ToServe
      BY <2>1 DEF ToServe, Pending
    <2> QED BY <1>s, <2>1, <2>2, <2>3, <2>4, <2>5
  <1>4. CASE Ignore \/ OtherEvent
    <2>1. /\ UNCHANGED <<now, start, interval, active, etimList, stale, stopped>>
          /\ InList(evList', u) => Pending(u)
          /\ ~(pc' = "callback" /\ running' = u)
      BY <1>4, DropIs
    <2>2. Regular(u)
      BY <2>1 DEF Regular
    <2>3. (Due(u)' => Due(u)) /\ ~Serving(u)' /\ ((u \in ToServe)' => u \in ToServe)
      BY <2>1 DEF Due, Pending, EtimerExpired, Serving, ToServe
    <2> QED BY <1>s, <2>1, <2>2, <2>3
  <1>5. CASE PollOne
    <2> DEFINE t == Head(toPoll)
    <2>1. /\ t \in Timer /\ InList(etimList, t) /\ pc' # "callback"
          /\ UNCHANGED <<now, start, interval, stale, stopped, calls>>
          /\ \/ UNCHANGED <<evList, etimList, active, lost>>
             \/ /\ TimerExpired(t)
                /\ \A y : InList(etimList', y) <=> InList(etimList, y) /\ y # t
                /\ \A y : InList(evList', y) <=> Pending(y) \/ (y = t /\ ~QueueFull)
                /\ active' = [active EXCEPT ![t] = FALSE]
      BY <1>5, PollIs
    <2> HIDE DEF t
    <2>2. Regular(u)
      BY <2>1 DEF Regular
    <2>3. ~Serving(u)' /\ (Due(u)' => Due(u) \/ (InList(etimList, u) /\ TimerExpired(u)))
      BY <1>0, <2>1 DEF Due, Pending, EtimerExpired, Serving
    <2>4. ((u \in ToServe)' => u \in ToServe) /\ (InList(etimList', u) => InList(etimList, u))
      BY <2>1 DEF Pending, ToServe
    <2> QED BY <1>s, <2>1, <2>2, <2>3, <2>4
  <1>6. CASE ClockTick
    <2>1. /\ UNCHANGED <<start, interval, active, etimList, ctimList, evList, pc, running, history>>
          /\ now' = (now + 1) % 2^W
          /\ u \in ToServe => Elapsed(u) <= interval[u] + MaxLate
      BY <1>6 DEF ClockTick
    <2>2. Regular(u) /\ OnTime(u)
      BY <1>a, <2>1 DEF Regular, history
    <2>3. (Due(u)' <=> Due(u)) /\ (Serving(u)' <=> Serving(u)) /\ ((u \in ToServe)' <=> u \in ToServe)
      BY <2>1 DEF Due, Serving, ToServe, Pending, EtimerExpired, history
    <2>4. (InList(etimList, u) \/ Due(u) \/ Serving(u)) => u \in ToServe
      BY DEF ToServe, Due, Serving
    <2>5. u \in ToServe => Elapsed(u)' = Elapsed(u) + 1
      <3>1. SUFFICES ASSUME u \in ToServe PROVE Elapsed(u)' = Elapsed(u) + 1
        OBVIOUS
      <3>2. Diff(now, start[u]) + 1 < 2^(W - 1)
        BY <1>b, <1>c, <1>d, <1>e, <2>1, <3>1, Widths
      <3>3. Diff((now + 1) % 2^W, start[u]) = Diff(now, start[u]) + 1
        BY <1>0, <1>b, <3>2, DiffTick
      <3> QED BY <1>d, <2>1, <3>3
    <2> QED BY <1>b, <1>c, <1>e, <2>1, <2>2, <2>3, <2>4, <2>5 DEF OnTime
  <1>7. CASE /\ \/ NoEvent \/ ClientReturn \/ PollBegin \/ ClockTick
                \/ (\E x \in IsrEvent : IsrPut(x)) \/ UNCHANGED vars
             /\ ~ClockTick
    <2>1. /\ UNCHANGED <<now, start, interval, active, etimList, ctimList, history>>
          /\ InList(evList', u) <=> Pending(u)
          /\ pc' = "callback" /\ running' = u => pc = "callback" /\ running = u
      BY <1>7, QuietIs
    <2>2. Regular(u) /\ (Due(u)' => Due(u)) /\ (Serving(u)' => Serving(u)) /\ ((u \in ToServe)' => u \in ToServe)
      BY <2>1 DEF Regular, Due, Serving, ToServe, Pending, EtimerExpired, history
    <2> QED BY <1>s, <2>1, <2>2
  <1> QED BY <1>1, <1>2, <1>3, <1>4, <1>5, <1>6, <1>7, Steps

-----------------------------------------------------------------------------
(* The theorems.                                                           *)

\* TimerInv holds when the modules are initialised.
LEMMA TimerInit == Init => TimerInv
  <1> SUFFICES ASSUME Init PROVE TimerInv
    OBVIOUS
  <1>1. 0 \in Tick
    BY Widths
  <1>2. /\ now = 0 /\ start = [t \in Timer |-> 0] /\ interval = [t \in Timer |-> 0]
        /\ active = [t \in Timer |-> FALSE]
        /\ etimList = <<>> /\ ctimList = <<>> /\ evList = <<>>
        /\ pc = "init" /\ running = NONE /\ toPoll = <<>>
        /\ lost = {} /\ stale = {} /\ stopped = {} /\ calls = [t \in Timer |-> 0]
    BY DEF Init
  <1>3. \A x : ~InList(etimList, x) /\ ~InList(ctimList, x) /\ ~Pending(x)
    BY <1>2 DEF InList, Pending
  <1>4. TypeOK
    BY <1>1, <1>2, TimersAssumption DEF TypeOK, IsInjective
  <1>5. HistoryType /\ QueueInv
    BY <1>2, <1>3 DEF HistoryType, QueueInv, IsInjective
  <1>6. NotForgotten /\ ListedInv
    BY <1>2, <1>3 DEF NotForgotten, ListedInv, Timer
  <1>7. LateInv
    BY <1>2, <1>3 DEF LateInv, Due, Serving, ToServe
  <1> QED BY <1>4, <1>5, <1>6, <1>7 DEF TimerInv

\* Every step keeps TimerInv.
LEMMA TimerStep == TimerInv /\ [Next]_vars => TimerInv'
  BY BaseStep, ForgetStep, ListedStep, LateStep DEF TimerInv, BaseInv

\* TimerInv holds in every reachable state.
THEOREM TimerInvariant == Spec => []TimerInv
  BY TimerInit, TimerStep, PTL DEF Spec

\* Every structure of etimer.c and ctimer.c keeps its shape: no list holds a
\* timer twice, and the queue never exceeds its size.
THEOREM TimerTypes == Spec => []TypeOK
  <1>1. TimerInv => TypeOK
    BY DEF TimerInv
  <1> QED BY <1>1, TimerInvariant, PTL

\* An armed callback timer is counting, or its event is queued, or the queue has
\* rejected the event that etimer_request_poll put.
THEOREM TimersNotForgotten == Spec => []NotForgotten
  <1>1. TimerInv => NotForgotten
    BY DEF TimerInv
  <1> QED BY <1>1, TimerInvariant, PTL

\* _ctimer_refresh calls the function of a callback timer at most once for one
\* arming, however many events of it are delivered.
THEOREM CalledAtMostOnce == Spec => []AtMostOneCallPerArming
  <1>1. TimerInv => AtMostOneCallPerArming
    BY DEF TimerInv, ListedInv, AtMostOneCallPerArming
  <1> QED BY <1>1, TimerInvariant, PTL

\* After ctimer_stop the function of the timer is not called until it is armed
\* again, even when its event was already in the queue.
THEOREM StoppedIsSilent == Spec => StoppedCtimerSilent
  <1>1. TimerInv /\ [Next]_vars => [\A t \in CTimer : Expire(t) => t \notin stopped]_vars
    <2> SUFFICES ASSUME TimerInv, NEW t \in CTimer, Expire(t) PROVE t \notin stopped
      OBVIOUS
    <2>1. InList(ctimList, t)
      BY DEF Expire, Fire
    <2> QED BY <2>1 DEF TimerInv, ListedInv
  <1> QED BY <1>1, TimerInvariant, PTL DEF Spec, StoppedCtimerSilent

\* A callback timer that runs before its interval is over was started while an
\* older event of it was queued: _ctimer_refresh has no other early run, for any
\* width of the tick counter and wherever it wraps.
THEOREM EarlyRunIsStale == Spec => EarlyOnlyIfStale
  <1>1. TimerInv /\ [Next]_vars =>
          [\A t \in CTimer : Expire(t) /\ Elapsed(t) <= interval[t] => t \in stale]_vars
    <2> SUFFICES ASSUME TimerInv, NEW t \in CTimer, Expire(t), Elapsed(t) <= interval[t] PROVE t \in stale
      OBVIOUS
    <2>1. t \in Timer /\ BaseInv
      BY DEF Timer, TimerInv, BaseInv
    <2>2. Due(t)
      BY <2>1, ExpireIs DEF Due
    <2>3. t \notin stale => interval[t] < Elapsed(t)
      BY <2>1, <2>2 DEF TimerInv, LateInv, Regular
    <2>4. Elapsed(t) \in Int /\ interval[t] \in Nat
      <3>1. now \in Tick /\ start[t] \in Tick /\ interval[t] \in Nat
        BY <2>1, Widths DEF BaseInv, TypeOK
      <3> QED BY <3>1, DiffFits DEF Elapsed, Diff
    <2> QED BY <2>3, <2>4
  <1> QED BY <1>1, TimerInvariant, PTL DEF Spec, EarlyOnlyIfStale

\* The handler in tcpip.c, which asks etimer_expired as well, never acts before
\* the interval of the last arming is over, unless the timer was stopped.
THEOREM HandlerIsOnTime == Spec => HandlerNeverEarly
  <1>1. TimerInv /\ [Next]_vars =>
          [\A t \in ETimer : Expire(t) /\ t \notin stopped => interval[t] < Elapsed(t)]_vars
    <2> SUFFICES ASSUME TimerInv, NEW t \in ETimer, Expire(t), t \notin stopped
                 PROVE  interval[t] < Elapsed(t)
      OBVIOUS
    <2>1. t \in Timer /\ t \notin CTimer /\ BaseInv
      BY TimersAssumption DEF Timer, TimerInv, BaseInv
    <2>2. Due(t)
      BY <2>1, ExpireIs DEF Due
    <2> QED BY <2>1, <2>2 DEF TimerInv, LateInv, Regular
  <1> QED BY <1>1, TimerInvariant, PTL DEF Spec, HandlerNeverEarly

=============================================================================
