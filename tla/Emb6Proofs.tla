----------------------------- MODULE Emb6Proofs -----------------------------
(***************************************************************************)
(* Proofs about the event processor and about the life cycle of the stack  *)
(* that runs on it, for every queue size, number of callback slots, set of *)
(* event types and set of callbacks.                                       *)
(***************************************************************************)
EXTENDS Emb6, SequenceTheorems, TLAPS

-----------------------------------------------------------------------------
(***************************************************************************)
(* The event processor by itself.                                          *)
(***************************************************************************)

(***************************************************************************)
(* A put leaves a queue of at most EVPROC_QUEUE_SIZE entries.              *)
(***************************************************************************)
LEMMA PutType ==
  ASSUME NEW q \in Seq(Entry), Len(q) <= EVPROC_QUEUE_SIZE,
         NEW t \in EventType, NEW d \in Data \cup {NULL}
  PROVE  /\ PutHead(q, t, d) \in Seq(Entry)
         /\ Len(PutHead(q, t, d)) <= EVPROC_QUEUE_SIZE
         /\ PutTail(q, t, d) \in Seq(Entry)
         /\ Len(PutTail(q, t, d)) <= EVPROC_QUEUE_SIZE
<1>1. Event(t, d) \in Entry
  BY DEF Event, Entry
<1>2. /\ Append(q, Event(t, d)) \in Seq(Entry)
      /\ Len(Append(q, Event(t, d))) = Len(q) + 1
  BY <1>1
<1>3. /\ <<Event(t, d)>> \o q \in Seq(Entry)
      /\ Len(<<Event(t, d)>> \o q) = Len(q) + 1
  BY <1>1
<1>4. QED
  BY <1>2, <1>3, EvProcAssumption DEF PutHead, PutTail, QueueFull

(***************************************************************************)
(* Registering and unregistering keep the callback lists well formed.      *)
(***************************************************************************)
LEMMA RegType ==
  ASSUME NEW reg \in [EventType -> [Slot -> Callback \cup {NULL}]],
         NEW t \in EventType, NEW f \in Callback
  PROVE  /\ RegCallback(reg, t, f) \in [EventType -> [Slot -> Callback \cup {NULL}]]
         /\ UnregCallback(reg, t, f) \in [EventType -> [Slot -> Callback \cup {NULL}]]
<1>1. RegCallback(reg, t, f) \in [EventType -> [Slot -> Callback \cup {NULL}]]
  BY DEF RegCallback
<1>2. UnregCallback(reg, t, f) \in [EventType -> [Slot -> Callback \cup {NULL}]]
  BY DEF UnregCallback
<1>3. QED
  BY <1>1, <1>2

LEMMA PruneType ==
  ASSUME NEW fs \in Seq(Frame), NEW reg
  PROVE  /\ Prune(fs, reg) \in Seq(Frame)
         /\ Len(Prune(fs, reg)) = Len(fs)
<1>1. \A i \in 1 .. Len(fs) :
        [fs[i] EXCEPT !.must =
           IF fs[i].ev = NONE THEN {} ELSE @ \cap Registered(reg, fs[i].ev)] \in Frame
  <2> TAKE i \in 1 .. Len(fs)
  <2>1. fs[i] \in Frame
    BY ElementOfSeq
  <2> QED
    BY <2>1 DEF Frame
<1>2. QED
  BY <1>1 DEF Prune

LEMMA NewFrameType ==
  ASSUME NEW t \in EventType \cup {NONE}, TypeOK
  PROVE  NewFrame(t) \in Frame
<1>1. t # NONE => Registered(pst_regList, t) \subseteq Callback
  BY DEF Registered, TypeOK
<1>2. QED
  BY <1>1, EvProcAssumption DEF NewFrame, Frame

(***************************************************************************)
(* No step of the event processor breaks the types of its state.           *)
(***************************************************************************)
LEMMA TypeStep == TypeOK /\ [Next]_evVars => TypeOK'
<1> SUFFICES ASSUME TypeOK, [Next]_evVars
             PROVE  TypeOK'
  OBVIOUS
<1>0. /\ pst_evList \in Seq(Entry) /\ Len(pst_evList) <= EVPROC_QUEUE_SIZE
      /\ frames \in Seq(Frame)
      /\ frames # <<>> => Head(frames) \in Frame /\ Tail(frames) \in Seq(Frame)
  BY HeadTailProperties DEF TypeOK
<1>1. ASSUME NEW e \in IsrEvent, IsrPut(e[1], e[2])
      PROVE  TypeOK'
  <2>1. e[1] \in EventType /\ e[2] \in Data \cup {NULL}
    BY EvProcAssumption
  <2>2. QED
    BY <1>1, <2>1, PutType DEF IsrPut, TypeOK
<1>2. ASSUME NEW t \in EventType, NEW d \in Data \cup {NULL}, MainPut(t, d)
      PROVE  TypeOK'
  BY <1>2, PutType DEF MainPut, TypeOK
<1>3. ASSUME NEW t \in EventType, Exec(t)
      PROVE  TypeOK'
  <2>1. NewFrame(t) \in Frame
    BY NewFrameType
  <2>2. <<NewFrame(t)>> \o frames \in Seq(Frame)
    BY <2>1, <1>0
  <2>3. QED
    BY <1>3, <2>2 DEF Exec, TypeOK
<1>4. ASSUME NEW t \in EventType, NEW f \in Callback, Register(t, f)
      PROVE  TypeOK'
  BY <1>4, RegType DEF Register, TypeOK
<1>5. ASSUME NEW t \in EventType, NEW f \in Callback, ReRegister(t, f)
      PROVE  TypeOK'
  <2>1. pst_regList' \in [EventType -> [Slot -> Callback \cup {NULL}]]
    BY <1>5, RegType DEF ReRegister, TypeOK
  <2>2. frames' \in Seq(Frame)
    BY <1>5, <1>0, PruneType DEF ReRegister
  <2>3. QED
    BY <1>5, <2>1, <2>2 DEF ReRegister, TypeOK
<1>6. CASE NextEvent
  <2>1. pst_evList[Len(pst_evList)].c_event \in EventType \cup {NONE}
    <3>1. pst_evList[Len(pst_evList)] \in Entry
      BY <1>6, <1>0, EmptySeq, ElementOfSeq DEF NextEvent
    <3>2. QED
      BY <3>1 DEF Entry
  <2>2. frames' \in Seq(Frame)
    BY <1>6, <2>1, NewFrameType DEF NextEvent
  <2>3. pst_evList' \in Seq(Entry) /\ Len(pst_evList') <= EVPROC_QUEUE_SIZE
    BY <1>6, <1>0, EvProcAssumption DEF NextEvent
  <2>4. QED
    BY <1>6, <2>2, <2>3 DEF NextEvent, TypeOK
<1>7. CASE CallNext
  <2> DEFINE f == Head(frames)
             g == [f EXCEPT !.run = SlotAt(f), !.j = @ + 1,
                            !.called = @ \cup {SlotAt(f)}]
  <2>0. f \in Frame /\ SlotAt(f) # NULL
    BY <1>7, <1>0 DEF CallNext
  <2>1. f \in Frame /\ f.ev # NONE /\ f.j \in Slot
    BY <2>0, EvProcAssumption DEF SlotAt, Frame, Slot
  <2>2. SlotAt(f) \in Callback
    BY <2>0, <2>1, EvProcAssumption DEF SlotAt, Frame, TypeOK
  <2>3. g \in Frame
    <3>1. f.j + 1 \in 1 .. MAX_CALLBACK_COUNT + 1
      BY <2>1, EvProcAssumption DEF Slot
    <3>2. f.called \cup {SlotAt(f)} \subseteq Callback
      BY <2>1, <2>2 DEF Frame
    <3>3. QED
      BY <2>1, <2>2, <3>1, <3>2, Zenon DEF Frame
  <2>4. frames' = <<g>> \o Tail(frames) /\ Tail(frames) \in Seq(Frame)
    BY <1>7, <1>0 DEF CallNext
  <2>5. frames' \in Seq(Frame)
    BY <2>3, <2>4
  <2>6. QED
    BY <1>7, <2>5 DEF CallNext, TypeOK
<1>8. CASE CallbackReturn
  <2>1. [Head(frames) EXCEPT !.run = NULL] \in Frame
    BY <1>8, <1>0 DEF CallbackReturn, Frame
  <2>2. frames' \in Seq(Frame)
    BY <1>8, <1>0, <2>1 DEF CallbackReturn
  <2>3. QED
    BY <1>8, <2>2 DEF CallbackReturn, TypeOK
<1>9. CASE ProcessReturn
  BY <1>9, <1>0 DEF ProcessReturn, TypeOK
<1>10. CASE InitBegin
  <2>1. \A i \in 1 .. Len(pst_evList) :
          [pst_evList[i] EXCEPT !.old = TRUE] \in Entry
    <3> TAKE i \in 1 .. Len(pst_evList)
    <3>1. pst_evList[i] \in Entry
      BY <1>0, ElementOfSeq
    <3>2. QED
      BY <3>1, Zenon DEF Entry
  <2>2. pst_evList' \in Seq(Entry) /\ Len(pst_evList') = Len(pst_evList)
    BY <1>10, <1>0, <2>1 DEF InitBegin
  <2>3. QED
    BY <1>10, <2>2, EvProcAssumption DEF InitBegin, TypeOK
<1>11. CASE InitClear
  <2>1. Cleared \in Entry
    BY DEF Cleared, Event, Entry
  <2>2. pst_evList' \in Seq(Entry) /\ Len(pst_evList') = Len(pst_evList)
    BY <1>11, <1>0, <2>1 DEF InitClear
  <2>3. QED
    BY <1>11, <2>2, EvProcAssumption DEF InitClear, TypeOK
<1>12. CASE InitEnd
  <2>1. pst_regList' \in [EventType -> [Slot -> Callback \cup {NULL}]]
    BY <1>12 DEF InitEnd, ClearCallbacks, TypeOK
  <2>2. frames' \in Seq(Frame)
    BY <1>12, <1>0, PruneType DEF InitEnd
  <2>3. QED
    BY <1>12, <2>1, <2>2, EvProcAssumption DEF InitEnd, TypeOK
<1>13. CASE UNCHANGED evVars
  BY <1>13 DEF evVars, TypeOK
<1>14. QED
  BY <1>1, <1>2, <1>3, <1>4, <1>5, <1>6, <1>7, <1>8, <1>9, <1>10, <1>11,
     <1>12, <1>13 DEF Next

(***************************************************************************)
(* Every step of the event processor keeps its state well typed: no put    *)
(* overruns pst_evList, no dispatch index leaves the callback array.       *)
(***************************************************************************)
THEOREM TypeCorrect == Spec => []TypeOK
<1>1. Init => TypeOK
  <2>1. EmptyReg \in [EventType -> [Slot -> Callback \cup {NULL}]]
    BY DEF EmptyReg
  <2>2. <<>> \in Seq(Entry) /\ Len(<<>>) = 0 /\ <<>> \in Seq(Frame)
    OBVIOUS
  <2>3. 0 <= EVPROC_QUEUE_SIZE /\ 0 \in 0 .. EVPROC_QUEUE_SIZE + 1
    BY EvProcAssumption
  <2>4. QED
    BY <2>1, <2>2, <2>3, Zenon DEF Init, TypeOK
<1>2. TypeOK /\ [Next]_evVars => TypeOK'
  BY TypeStep
<1>3. QED
  BY <1>1, <1>2, PTL DEF Spec

-----------------------------------------------------------------------------
(***************************************************************************)
(* The callback lists.  RegShape is what NoHoles and NoDoubleRegistration  *)
(* say of one list; registering keeps it, and unregistering a function and *)
(* registering it again leaves the list as it was or adds the function.    *)
(***************************************************************************)
RegShape(l) ==
  /\ \A j, k \in Slot : l[j] = NULL /\ j <= k => l[k] = NULL
  /\ \A j, k \in Slot : l[j] = l[k] /\ l[j] # NULL => j = k

RegLists == [EventType -> [Slot -> Callback \cup {NULL}]]

LEMMA RegCallbackShape ==
  ASSUME NEW reg \in RegLists, NEW t \in EventType, NEW f \in Callback,
         RegShape(reg[t])
  PROVE  /\ RegShape(RegCallback(reg, t, f)[t])
         /\ \A u \in EventType \ {t} : RegCallback(reg, t, f)[u] = reg[u]
         /\ \A j \in Slot : reg[t][j] # NULL => RegCallback(reg, t, f)[t][j] = reg[t][j]
<1>1. CASE f \in Registered(reg, t) \/ FreeSlots(reg, t) = {}
  BY <1>1 DEF RegCallback
<1>2. CASE ~(f \in Registered(reg, t) \/ FreeSlots(reg, t) = {})
  <2> DEFINE l == reg[t]
             m == RegCallback(reg, t, f)[t]
             first(j) == j \in FreeSlots(reg, t) /\ \A k \in FreeSlots(reg, t) : j <= k
  <2>1. /\ m = [j \in Slot |-> IF first(j) THEN f ELSE l[j]]
        /\ \A u \in EventType \ {t} : RegCallback(reg, t, f)[u] = reg[u]
    BY <1>2 DEF RegCallback, RegLists
  <2>2. \A j \in Slot : first(j) => l[j] = NULL
    BY DEF FreeSlots
  <2>3. \A j \in Slot : l[j] # f /\ f # NULL
    BY <1>2, EvProcAssumption DEF Registered
  <2>4. \A j, k \in Slot : m[j] = NULL /\ j <= k => m[k] = NULL
    <3> SUFFICES ASSUME NEW j \in Slot, NEW k \in Slot, m[j] = NULL, j <= k
                 PROVE  m[k] = NULL
      OBVIOUS
    <3>1. l[j] = NULL /\ ~first(j)
      BY <2>1, <2>3
    <3>2. l[k] = NULL
      BY <3>1 DEF RegShape
    <3>3. ~first(k)
      <4>1. PICK i \in FreeSlots(reg, t) : ~(j <= i)
        BY <3>1 DEF FreeSlots
      <4>2. QED
        BY <4>1 DEF FreeSlots, Slot
    <3>4. QED
      BY <2>1, <3>2, <3>3
  <2>5. \A j, k \in Slot : m[j] = m[k] /\ m[j] # NULL => j = k
    <3> SUFFICES ASSUME NEW j \in Slot, NEW k \in Slot, m[j] = m[k], m[j] # NULL
                 PROVE  j = k
      OBVIOUS
    <3>1. CASE first(j) \/ first(k)
      <4>1. first(j) /\ first(k)
        BY <3>1, <2>1, <2>3
      <4>2. QED
        BY <4>1 DEF FreeSlots, Slot
    <3>2. CASE ~first(j) /\ ~first(k)
      BY <3>2, <2>1 DEF RegShape
    <3>3. QED
      BY <3>1, <3>2
  <2>6. \A j \in Slot : l[j] # NULL => m[j] = l[j]
    BY <2>1, <2>2
  <2>7. QED
    BY <2>1, <2>4, <2>5, <2>6 DEF RegShape
<1>3. QED
  BY <1>1, <1>2

\* a function that is unregistered and registered again returns to its slot
LEMMA ReRegisterShape ==
  ASSUME NEW reg \in RegLists, NEW t \in EventType, NEW f \in Callback,
         RegShape(reg[t])
  PROVE  RegCallback(UnregCallback(reg, t, f), t, f) =
           IF f \in Registered(reg, t) THEN reg ELSE RegCallback(reg, t, f)
<1> DEFINE u == UnregCallback(reg, t, f)
<1>0. /\ u \in RegLists
      /\ u[t] = [j \in Slot |-> IF reg[t][j] = f /\ \A k \in 1 .. j - 1 : reg[t][k] # f
                                 THEN NULL ELSE reg[t][j]]
      /\ \A v \in EventType \ {t} : u[v] = reg[v]
  BY RegType DEF UnregCallback, RegLists
<1>1. CASE f \in Registered(reg, t)
  <2>1. PICK p \in Slot : reg[t][p] = f
    BY <1>1 DEF Registered
  <2>2. \A j \in Slot : j # p => reg[t][j] # f
    BY <2>1, EvProcAssumption DEF RegShape
  <2>3. \A k \in 1 .. p - 1 : reg[t][k] # f
    BY <2>2, EvProcAssumption DEF Slot
  <2>4. \A j \in Slot : u[t][j] = IF j = p THEN NULL ELSE reg[t][j]
    BY <1>0, <2>1, <2>2, <2>3
  <2>5. f \notin Registered(u, t) /\ p \in FreeSlots(u, t)
    BY <2>4, <2>2, EvProcAssumption DEF Registered, FreeSlots
  <2>6. \A k \in FreeSlots(u, t) : p <= k
    <3> TAKE k \in FreeSlots(u, t)
    <3>1. k \in Slot /\ u[t][k] = NULL
      BY DEF FreeSlots
    <3>2. CASE k # p
      <4>1. reg[t][k] = NULL
        BY <3>1, <3>2, <2>4
      <4>2. ~(k <= p)
        BY <4>1, <2>1, <3>1, EvProcAssumption DEF RegShape
      <4>3. QED
        BY <4>2, <3>1 DEF Slot
    <3>3. QED
      BY <3>2 DEF Slot
  <2>7. \A j \in Slot : (j \in FreeSlots(u, t) /\ \A k \in FreeSlots(u, t) : j <= k) <=> j = p
    BY <2>5, <2>6 DEF FreeSlots, Slot
  <2>8. RegCallback(u, t, f) =
          [u EXCEPT ![t] = [j \in Slot |-> IF j = p THEN f ELSE u[t][j]]]
    BY <2>5, <2>7 DEF RegCallback
  <2>9. [j \in Slot |-> IF j = p THEN f ELSE u[t][j]] = reg[t]
    <3>1. reg[t] = [j \in Slot |-> reg[t][j]]
      BY DEF RegLists
    <3>2. QED
      BY <3>1, <2>1, <2>4
  <2>10. RegCallback(u, t, f) = reg
    <3>1. RegCallback(u, t, f) = [u EXCEPT ![t] = reg[t]]
      BY <2>8, <2>9
    <3>2. u \in [EventType -> [Slot -> Callback \cup {NULL}]]
           /\ reg \in [EventType -> [Slot -> Callback \cup {NULL}]]
      BY <1>0 DEF RegLists
    <3>3. QED
      BY <3>1, <3>2, <1>0
  <2>11. QED
    BY <1>1, <2>10
<1>2. CASE f \notin Registered(reg, t)
  <2>1. \A j \in Slot : reg[t][j] # f
    BY <1>2, EvProcAssumption DEF Registered
  <2>2. u[t] = reg[t]
    <3>1. reg[t] = [j \in Slot |-> reg[t][j]]
      BY DEF RegLists
    <3>2. QED
      BY <3>1, <2>1, <1>0
  <2>3. u = reg
    <3>1. u \in [EventType -> [Slot -> Callback \cup {NULL}]]
           /\ reg \in [EventType -> [Slot -> Callback \cup {NULL}]]
      BY <1>0 DEF RegLists
    <3>2. \A v \in EventType : u[v] = reg[v]
      BY <2>2, <1>0
    <3>3. u = [v \in EventType |-> u[v]] /\ reg = [v \in EventType |-> reg[v]]
      BY <3>1
    <3>4. QED
      BY <3>2, <3>3, Zenon
  <2>4. QED
    BY <1>2, <2>3
<1>3. QED
  BY <1>1, <1>2

RegInv == \A t \in EventType : RegShape(pst_regList[t])

LEMMA RegInvMeaning == RegInv <=> NoHoles /\ NoDoubleRegistration
  BY DEF RegInv, RegShape, NoHoles, NoDoubleRegistration

\* a step changes the callback lists only by registering or by a re-init
LEMMA RegStep ==
  ASSUME TypeOK, RegInv, [Next]_evVars
  PROVE  /\ RegInv'
         /\ \/ /\ pst_regList' = ClearCallbacks(pst_regList, ~c_isInit) /\ InitEnd
            \/ \A t \in EventType, j \in Slot :
                 pst_regList[t][j] # NULL => pst_regList'[t][j] = pst_regList[t][j]
<1>0. pst_regList \in RegLists
  BY DEF TypeOK, RegLists
<1>1. ASSUME NEW t \in EventType, NEW f \in Callback,
             pst_regList' = RegCallback(pst_regList, t, f)
      PROVE  /\ RegInv'
             /\ \A u \in EventType, j \in Slot :
                  pst_regList[u][j] # NULL => pst_regList'[u][j] = pst_regList[u][j]
  BY <1>1, <1>0, RegCallbackShape DEF RegInv
<1>2. ASSUME UNCHANGED pst_regList
      PROVE  /\ RegInv'
             /\ \A u \in EventType, j \in Slot :
                  pst_regList[u][j] # NULL => pst_regList'[u][j] = pst_regList[u][j]
  BY <1>2 DEF RegInv
<1>3. ASSUME NEW t \in EventType, NEW f \in Callback, Register(t, f)
      PROVE  pst_regList' = RegCallback(pst_regList, t, f)
  BY <1>3 DEF Register
<1>4. ASSUME NEW t \in EventType, NEW f \in Callback, ReRegister(t, f)
      PROVE  UNCHANGED pst_regList \/ pst_regList' = RegCallback(pst_regList, t, f)
  BY <1>4, <1>0, ReRegisterShape DEF ReRegister, RegInv
<1>5. CASE InitEnd
  <2>1. pst_regList' = ClearCallbacks(pst_regList, ~c_isInit)
    BY <1>5 DEF InitEnd
  <2>2. RegInv'
    BY <2>1 DEF RegInv, RegShape, ClearCallbacks
  <2>3. QED
    BY <1>5, <2>1, <2>2
<1>6. CASE UNCHANGED evVars
  BY <1>6, <1>2 DEF evVars
<1>7. CASE \/ \E e \in IsrEvent : IsrPut(e[1], e[2])
           \/ \E t \in EventType, d \in Data \cup {NULL} : MainPut(t, d)
           \/ \E t \in EventType : Exec(t)
           \/ NextEvent \/ CallNext \/ CallbackReturn \/ ProcessReturn
           \/ InitBegin \/ InitClear
  <2>1. UNCHANGED pst_regList
    BY <1>7 DEF IsrPut, MainPut, Exec, NextEvent, CallNext, CallbackReturn,
                ProcessReturn, InitBegin, InitClear
  <2>2. QED
    BY <2>1, <1>2
<1>8. QED
  BY <1>1, <1>2, <1>3, <1>4, <1>5, <1>6, <1>7 DEF Next

(***************************************************************************)
(* For every number of slots and callbacks: no list of callbacks gets a    *)
(* hole and no function is registered twice.                               *)
(***************************************************************************)
THEOREM CallbackListsSound == Spec => [](NoHoles /\ NoDoubleRegistration)
<1>1. Init => RegInv
  BY DEF Init, EmptyReg, RegInv, RegShape
<1>2. TypeOK /\ RegInv /\ [Next]_evVars => RegInv'
  BY RegStep
<1>3. QED
  BY <1>1, <1>2, RegInvMeaning, TypeCorrect, PTL DEF Spec

(***************************************************************************)
(* In particular no sequence of registrations and re-registrations puts a  *)
(* function into two slots of one event type.                              *)
(***************************************************************************)
THEOREM NoFunctionTwice == Spec => []NoDoubleRegistration
BY CallbackListsSound, PTL

-----------------------------------------------------------------------------
(***************************************************************************)
(* Re-initialisation.  While the loop of _evproc_init runs, the entries    *)
(* that were pending before can only be at indices it has yet to reach:    *)
(* interrupt handlers append, and nobody prepends.                         *)
(***************************************************************************)
OldAhead ==
  \A i \in 1 .. Len(pst_evList) : pst_evList[i].old => Initialising /\ i >= initIdx

LEMMA PutOld ==
  ASSUME NEW q \in Seq(Entry), NEW t, NEW d, NEW i \in 1 .. Len(PutHead(q, t, d)),
         PutHead(q, t, d)[i].old
  PROVE  i \in 1 .. Len(q) /\ q[i].old
<1>1. CASE PutHead(q, t, d) = q
  BY <1>1
<1>2. CASE PutHead(q, t, d) = Append(q, Event(t, d))
  <2>1. CASE i = Len(q) + 1
    BY <1>2, <2>1 DEF Event
  <2>2. CASE i # Len(q) + 1
    BY <1>2, <2>2
  <2>3. QED
    BY <2>1, <2>2
<1>3. QED
  BY <1>1, <1>2 DEF PutHead

LEMMA PutTailOld ==
  ASSUME NEW q \in Seq(Entry), NEW t, NEW d, \A i \in 1 .. Len(q) : ~q[i].old
  PROVE  \A i \in 1 .. Len(PutTail(q, t, d)) : ~PutTail(q, t, d)[i].old
<1>1. CASE PutTail(q, t, d) = q
  BY <1>1
<1>2. CASE PutTail(q, t, d) = <<Event(t, d)>> \o q
  <2> TAKE i \in 1 .. Len(PutTail(q, t, d))
  <2>1. CASE i = 1
    BY <1>2, <2>1 DEF Event
  <2>2. CASE i # 1
    <3>1. i - 1 \in 1 .. Len(q) /\ PutTail(q, t, d)[i] = q[i - 1]
      BY <1>2, <2>2
    <3>2. QED
      BY <3>1
  <2>3. QED
    BY <2>1, <2>2
<1>3. QED
  BY <1>1, <1>2 DEF PutTail

(***************************************************************************)
(* For every queue size: when evproc_init has returned, nothing that was   *)
(* pending before is left, although interrupts put events while its loop   *)
(* runs.                                                                   *)
(***************************************************************************)
THEOREM ResetSound == Spec => []ResetErasesPending
<1>1. Init => OldAhead
  BY DEF Init, OldAhead
<1>2. TypeOK /\ OldAhead /\ [Next]_evVars => OldAhead'
  <2> SUFFICES ASSUME TypeOK, OldAhead, [Next]_evVars
               PROVE  OldAhead'
    OBVIOUS
  <2>0. /\ pst_evList \in Seq(Entry) /\ Len(pst_evList) \in Nat
        /\ Len(pst_evList) <= EVPROC_QUEUE_SIZE
    BY DEF TypeOK
  <2>1. ASSUME NEW e \in IsrEvent, IsrPut(e[1], e[2])
        PROVE  OldAhead'
    BY <2>1, <2>0, PutOld DEF IsrPut, OldAhead, Initialising
  <2>2. ASSUME NEW t \in EventType, NEW d \in Data \cup {NULL}, MainPut(t, d)
        PROVE  OldAhead'
    <3>1. \A i \in 1 .. Len(pst_evList) : ~pst_evList[i].old
      BY <2>2 DEF MainPut, ClientRuns, OldAhead
    <3>2. CASE pst_evList' = PutHead(pst_evList, t, d)
      BY <3>1, <3>2, <2>0, PutOld DEF OldAhead
    <3>3. CASE pst_evList' = PutTail(pst_evList, t, d)
      BY <3>1, <3>3, <2>0, PutTailOld DEF OldAhead
    <3>4. QED
      BY <2>2, <3>2, <3>3 DEF MainPut
  <2>3. CASE NextEvent
    <3>1. /\ Len(pst_evList') \in Nat /\ Len(pst_evList') <= Len(pst_evList)
          /\ \A i \in 1 .. Len(pst_evList') : pst_evList'[i] = pst_evList[i]
      BY <2>3, <2>0, EmptySeq DEF NextEvent
    <3>2. \A i \in 1 .. Len(pst_evList) : ~pst_evList[i].old
      BY <2>3 DEF NextEvent, Idle, OldAhead
    <3>3. QED
      BY <3>1, <3>2 DEF OldAhead
  <2>4. CASE InitBegin
    <3>1. Len(pst_evList') = Len(pst_evList)
      BY <2>4, <2>0 DEF InitBegin
    <3>2. QED
      BY <2>4, <2>0, <3>1 DEF InitBegin, OldAhead, Initialising
  <2>5. CASE InitClear
    <3>1. initIdx \in Nat \ {0} /\ initIdx' = initIdx + 1
      BY <2>5 DEF InitClear
    <3>2. Len(pst_evList') = Len(pst_evList)
      BY <2>5, <2>0 DEF InitClear
    <3>3. \A i \in 1 .. Len(pst_evList) :
            pst_evList'[i] = IF i = initIdx THEN Cleared ELSE pst_evList[i]
      BY <2>5, <2>0 DEF InitClear
    <3>4. ~Cleared.old
      BY DEF Cleared, Event
    <3>5. QED
      BY <3>1, <3>2, <3>3, <3>4, <2>0 DEF OldAhead, Initialising
  <2>6. CASE InitEnd
    BY <2>6, <2>0, EvProcAssumption DEF InitEnd, OldAhead, Initialising
  <2>7. CASE UNCHANGED <<pst_evList, initIdx>>
    BY <2>7 DEF OldAhead, Initialising
  <2>8. QED
    BY <2>1, <2>2, <2>3, <2>4, <2>5, <2>6, <2>7 DEF Next, evVars, Exec, Register,
       ReRegister, CallNext, CallbackReturn, ProcessReturn
<1>3. OldAhead => ResetErasesPending
  BY DEF OldAhead, ResetErasesPending
<1>4. QED
  BY <1>1, <1>2, <1>3, TypeCorrect, PTL DEF Spec

-----------------------------------------------------------------------------
(***************************************************************************)
(* Dispatch.  In every activation of _evproc_processEvent a function that  *)
(* has been registered all along has been called or is in a slot the loop  *)
(* has yet to reach: slots never move down, and a slot is only emptied     *)
(* together with all the others of its list.                               *)
(***************************************************************************)
CallsAhead(f, reg) ==
  /\ f.ev = NONE => f.must = {}
  /\ \A c \in f.must : c \in f.called \/ \E k \in Slot : k >= f.j /\ reg[f.ev][k] = c

DispatchInv == \A n \in 1 .. Len(frames) : CallsAhead(frames[n], pst_regList)

LEMMA ReplaceHead ==
  ASSUME NEW fs \in Seq(Frame), fs # <<>>, NEW g \in Frame,
         NEW gs, gs = <<g>> \o Tail(fs)
  PROVE  Len(gs) = Len(fs) /\ \A n \in 1 .. Len(fs) : gs[n] = IF n = 1 THEN g ELSE fs[n]
<1>1. Tail(fs) \in Seq(Frame) /\ Len(Tail(fs)) = Len(fs) - 1 /\ Len(fs) \in Nat \ {0}
  BY HeadTailProperties, EmptySeq
<1>2. \A n \in 1 .. Len(fs) - 1 : Tail(fs)[n] = fs[n + 1]
  BY HeadTailProperties
<1>3. QED
  BY <1>1, <1>2

LEMMA PruneAhead ==
  ASSUME TypeOK, DispatchInv, NEW reg,
         \A t \in EventType :
           \/ \A j \in Slot : reg[t][j] = NULL
           \/ \A j \in Slot : pst_regList[t][j] # NULL => reg[t][j] = pst_regList[t][j]
  PROVE  \A n \in 1 .. Len(frames) : CallsAhead(Prune(frames, reg)[n], reg)
<1> TAKE n \in 1 .. Len(frames)
<1> DEFINE f == frames[n]
           g == Prune(frames, reg)[n]
<1>1. f \in Frame
  BY ElementOfSeq DEF TypeOK
<1>2. /\ g.ev = f.ev /\ g.j = f.j /\ g.called = f.called
      /\ g.must = IF f.ev = NONE THEN {} ELSE f.must \cap Registered(reg, f.ev)
  BY <1>1 DEF Prune, Frame
<1>3. CASE f.ev = NONE
  BY <1>2, <1>3 DEF CallsAhead
<1>4. CASE f.ev # NONE
  <2>1. f.ev \in EventType /\ f.must \subseteq Callback
    BY <1>1, <1>4 DEF Frame
  <2>2. CASE \A j \in Slot : reg[f.ev][j] = NULL
    BY <1>2, <1>4, <2>2 DEF CallsAhead, Registered
  <2>3. CASE \A j \in Slot : pst_regList[f.ev][j] # NULL => reg[f.ev][j] = pst_regList[f.ev][j]
    <3>1. CallsAhead(f, pst_regList)
      BY DEF DispatchInv
    <3>2. \A c \in f.must : c # NULL
      BY <2>1, EvProcAssumption
    <3>3. QED
      BY <1>2, <1>4, <2>3, <3>1, <3>2 DEF CallsAhead
  <2>4. QED
    BY <2>1, <2>2, <2>3
<1>5. QED
  BY <1>3, <1>4

LEMMA SameFrames ==
  ASSUME TypeOK, DispatchInv, UNCHANGED frames,
         \A t \in EventType, j \in Slot :
           pst_regList[t][j] # NULL => pst_regList'[t][j] = pst_regList[t][j]
  PROVE  DispatchInv'
<1> SUFFICES ASSUME NEW n \in 1 .. Len(frames)
             PROVE  CallsAhead(frames[n], pst_regList')
  BY DEF DispatchInv
<1>1. frames[n] \in Frame
  BY ElementOfSeq DEF TypeOK
<1>2. /\ CallsAhead(frames[n], pst_regList)
      /\ frames[n].must # {} => frames[n].ev \in EventType
      /\ \A c \in frames[n].must : c # NULL
  BY <1>1, EvProcAssumption DEF DispatchInv, CallsAhead, Frame
<1>3. QED
  BY <1>2 DEF CallsAhead

LEMMA DispatchStep == TypeOK /\ RegInv /\ DispatchInv /\ [Next]_evVars => DispatchInv'
<1> SUFFICES ASSUME TypeOK, RegInv, DispatchInv, [Next]_evVars
             PROVE  DispatchInv'
  OBVIOUS
<1>0. /\ frames \in Seq(Frame)
      /\ frames # <<>> => Head(frames) = frames[1] /\ frames[1] \in Frame /\ Len(frames) \in Nat \ {0}
  BY HeadTailProperties, EmptySeq, ElementOfSeq DEF TypeOK
<1>1. ASSUME NEW t \in EventType \cup {NONE}
      PROVE  NewFrame(t) \in Frame /\ CallsAhead(NewFrame(t), pst_regList)
  <2>1. NewFrame(t) \in Frame
    BY NewFrameType
  <2>2. \A c \in Registered(pst_regList, t) : \E k \in Slot : k >= 1 /\ pst_regList[t][k] = c
    BY DEF Registered, Slot
  <2>3. QED
    BY <2>1, <2>2 DEF CallsAhead, NewFrame
<1>2. ASSUME NEW t \in EventType, Exec(t)
      PROVE  DispatchInv'
  <2> DEFINE g == NewFrame(t)
  <2>1. g \in Frame /\ CallsAhead(g, pst_regList)
    BY <1>1
  <2>2. frames' = <<g>> \o frames /\ UNCHANGED pst_regList
    BY <1>2 DEF Exec
  <2>3. /\ Len(frames') = Len(frames) + 1
        /\ \A n \in 1 .. Len(frames) + 1 : frames'[n] = IF n = 1 THEN g ELSE frames[n - 1]
    BY <1>0, <2>1, <2>2
  <2>4. \A n \in 1 .. Len(frames) + 1 : n # 1 => n - 1 \in 1 .. Len(frames)
    BY <1>0
  <2>5. QED
    BY <2>1, <2>2, <2>3, <2>4 DEF DispatchInv
<1>3. CASE NextEvent
  <2> DEFINE t == pst_evList[Len(pst_evList)].c_event
  <2>1. t \in EventType \cup {NONE}
    <3>1. pst_evList \in Seq(Entry) /\ pst_evList # <<>>
      BY <1>3 DEF TypeOK, NextEvent
    <3>2. pst_evList[Len(pst_evList)] \in Entry
      BY <3>1, EmptySeq, ElementOfSeq
    <3>3. QED
      BY <3>2 DEF Entry
  <2>2. frames' = <<NewFrame(t)>> /\ UNCHANGED pst_regList
    BY <1>3 DEF NextEvent
  <2>3. QED
    BY <2>1, <2>2, <1>1 DEF DispatchInv
<1>4. CASE CallNext
  <2> DEFINE f == frames[1]
             g == [f EXCEPT !.run = SlotAt(f), !.j = @ + 1, !.called = @ \cup {SlotAt(f)}]
  <2>1. /\ f \in Frame /\ SlotAt(f) # NULL /\ frames # <<>>
        /\ frames' = <<g>> \o Tail(frames) /\ UNCHANGED pst_regList
    BY <1>0, <1>4 DEF CallNext
  <2>2. f.ev # NONE /\ f.j \in Slot /\ SlotAt(f) = pst_regList[f.ev][f.j]
    BY <2>1, EvProcAssumption DEF SlotAt, Frame, Slot
  <2>3. SlotAt(f) \in Callback
    BY <2>1, <2>2 DEF Frame, TypeOK
  <2>4. /\ g.ev = f.ev /\ g.must = f.must /\ g.called = f.called \cup {SlotAt(f)}
        /\ g.j = f.j + 1
    BY <2>1 DEF Frame
  <2>5. g \in Frame
    <3>1. f.j + 1 \in 1 .. MAX_CALLBACK_COUNT + 1
      BY <2>2, EvProcAssumption DEF Slot
    <3>2. f.called \cup {SlotAt(f)} \subseteq Callback
      BY <2>1, <2>3 DEF Frame
    <3>3. QED
      BY <2>1, <2>3, <3>1, <3>2, Zenon DEF Frame
  <2>6. CallsAhead(g, pst_regList)
    <3>1. CallsAhead(f, pst_regList)
      BY <1>0, <2>1 DEF DispatchInv
    <3>2. \A k \in Slot : k >= f.j => k = f.j \/ k >= f.j + 1
      BY <2>2 DEF Slot
    <3>3. QED
      BY <2>2, <2>4, <3>1, <3>2 DEF CallsAhead
  <2>7. Len(frames') = Len(frames) /\ \A n \in 1 .. Len(frames) : frames'[n] = IF n = 1 THEN g ELSE frames[n]
    BY <1>0, <2>1, <2>5, ReplaceHead
  <2>8. QED
    BY <2>1, <2>6, <2>7 DEF DispatchInv
<1>5. CASE CallbackReturn
  <2> DEFINE f == frames[1]
             g == [f EXCEPT !.run = NULL]
  <2>1. f \in Frame /\ frames # <<>> /\ frames' = <<g>> \o Tail(frames) /\ UNCHANGED pst_regList
    BY <1>0, <1>5 DEF CallbackReturn
  <2>2. /\ g \in Frame
        /\ g.ev = f.ev /\ g.must = f.must /\ g.called = f.called /\ g.j = f.j
    BY <2>1 DEF Frame
  <2>3. CallsAhead(g, pst_regList)
    BY <1>0, <2>1, <2>2 DEF DispatchInv, CallsAhead
  <2>4. Len(frames') = Len(frames) /\ \A n \in 1 .. Len(frames) : frames'[n] = IF n = 1 THEN g ELSE frames[n]
    BY <1>0, <2>1, <2>2, ReplaceHead
  <2>5. QED
    BY <2>1, <2>3, <2>4 DEF DispatchInv
<1>6. CASE ProcessReturn
  <2>1. frames # <<>> /\ frames' = Tail(frames) /\ UNCHANGED pst_regList
    BY <1>6 DEF ProcessReturn
  <2>2. Len(frames') = Len(frames) - 1 /\ \A n \in 1 .. Len(frames) - 1 : frames'[n] = frames[n + 1]
    BY <1>0, <2>1, HeadTailProperties
  <2>3. \A n \in 1 .. Len(frames) - 1 : n + 1 \in 1 .. Len(frames)
    BY <1>0, <2>1
  <2>4. QED
    BY <2>1, <2>2, <2>3 DEF DispatchInv
<1>7. ASSUME NEW t \in EventType, NEW f \in Callback, ReRegister(t, f)
      PROVE  DispatchInv'
  <2>1. \A u \in EventType, j \in Slot :
          pst_regList[u][j] # NULL => pst_regList'[u][j] = pst_regList[u][j]
    <3>1. pst_regList \in RegLists
      BY DEF TypeOK, RegLists
    <3>2. UNCHANGED pst_regList \/ pst_regList' = RegCallback(pst_regList, t, f)
      BY <1>7, <3>1, ReRegisterShape DEF ReRegister, RegInv
    <3>3. QED
      BY <3>1, <3>2, RegCallbackShape DEF RegInv
  <2>2. frames' = Prune(frames, pst_regList')
    BY <1>7 DEF ReRegister
  <2>3. Len(frames') = Len(frames)
    BY <1>0, <2>2, PruneType
  <2>4. \A n \in 1 .. Len(frames) : CallsAhead(Prune(frames, pst_regList')[n], pst_regList')
    BY <2>1, PruneAhead
  <2>5. QED
    BY <2>2, <2>3, <2>4 DEF DispatchInv
<1>8. CASE InitEnd
  <2>1. /\ pst_regList' = ClearCallbacks(pst_regList, ~c_isInit)
        /\ frames' = Prune(frames, pst_regList')
    BY <1>8 DEF InitEnd
  <2>2. \A t \in EventType :
          \/ \A j \in Slot : pst_regList'[t][j] = NULL
          \/ \A j \in Slot : pst_regList[t][j] # NULL => pst_regList'[t][j] = pst_regList[t][j]
    BY <2>1 DEF ClearCallbacks
  <2>3. Len(frames') = Len(frames)
    BY <1>0, <2>1, PruneType
  <2>4. \A n \in 1 .. Len(frames) : CallsAhead(Prune(frames, pst_regList')[n], pst_regList')
    BY <2>2, PruneAhead
  <2>5. QED
    BY <2>1, <2>3, <2>4 DEF DispatchInv
<1>9. CASE /\ UNCHANGED frames
           /\ ~InitEnd
  BY <1>9, RegStep, SameFrames
<1>10. QED
  BY <1>2, <1>3, <1>4, <1>5, <1>6, <1>7, <1>8, <1>9 DEF Next, evVars, IsrPut, MainPut,
     Register, InitBegin, InitClear

(***************************************************************************)
(* For every number of slots, callbacks and nested activations: dispatch   *)
(* calls every function that stays registered.                             *)
(***************************************************************************)
THEOREM DispatchComplete == Spec => []EveryRegisteredCalled
<1>1. Init => DispatchInv
  BY DEF Init, DispatchInv
<1>2. Init => RegInv
  BY DEF Init, EmptyReg, RegInv, RegShape
<1>3. TypeOK /\ RegInv /\ [Next]_evVars => RegInv'
  BY RegStep
<1>4. TypeOK /\ RegInv /\ DispatchInv => EveryRegisteredCalled
  <2> SUFFICES ASSUME TypeOK, RegInv, DispatchInv, frames # <<>>, ~Initialising,
                      Head(frames).run = NULL, SlotAt(Head(frames)) = NULL,
                      NEW c \in Head(frames).must
               PROVE  c \in Head(frames).called
    BY DEF EveryRegisteredCalled
  <2> DEFINE f == Head(frames)
  <2>1. f = frames[1] /\ f \in Frame /\ 1 \in 1 .. Len(frames)
    BY HeadTailProperties, EmptySeq, ElementOfSeq DEF TypeOK
  <2>2. CallsAhead(f, pst_regList) /\ f.ev \in EventType /\ f.j \in Nat \ {0} /\ c # NULL
    BY <2>1, EvProcAssumption DEF DispatchInv, CallsAhead, Frame
  <2>3. \A k \in Slot : k >= f.j => pst_regList[f.ev][k] = NULL
    <3> SUFFICES ASSUME NEW k \in Slot, k >= f.j
                 PROVE  pst_regList[f.ev][k] = NULL
      OBVIOUS
    <3>1. f.j \in Slot
      BY <2>2, EvProcAssumption DEF Slot
    <3>2. pst_regList[f.ev][f.j] = NULL
      BY <3>1, <2>2, EvProcAssumption DEF SlotAt, Slot
    <3>3. QED
      BY <3>1, <3>2, <2>2 DEF RegInv, RegShape, Slot
  <2>4. QED
    BY <2>2, <2>3 DEF CallsAhead
<1>5. QED
  BY <1>1, <1>2, <1>3, <1>4, DispatchStep, TypeCorrect, PTL DEF Spec

-----------------------------------------------------------------------------
(***************************************************************************)
(* Coalescing.  Distinct says of a queue what NoDuplicatePending says of   *)
(* pst_evList; a put at either end keeps it.                               *)
(***************************************************************************)
Same(x, y) ==
  /\ x.c_event = y.c_event /\ x.p_data = y.p_data
  /\ x.c_event \notin Oblig \cup {NONE}

Distinct(q) == \A i, k \in 1 .. Len(q) : Same(q[i], q[k]) => i = k

LEMMA PutDistinct ==
  ASSUME NEW q \in Seq(Entry), NEW t \in EventType, NEW d \in Data \cup {NULL},
         Distinct(q)
  PROVE  Distinct(PutHead(q, t, d)) /\ Distinct(PutTail(q, t, d))
<1> DEFINE e == Event(t, d)
<1>1. e \in Entry /\ e.c_event = t /\ e.p_data = d
  BY DEF Event, Entry
<1>2. CASE QueueFull(q) \/ Coalesced(q, t, d)
  BY <1>2 DEF PutHead, PutTail
<1>3. CASE ~(QueueFull(q) \/ Coalesced(q, t, d))
  <2>1. \A i \in 1 .. Len(q) : ~Same(q[i], e) /\ ~Same(e, q[i])
    BY <1>1, <1>3 DEF Coalesced, LookupEvent, Same
  <2>2. Distinct(Append(q, e))
    <3>1. /\ Len(Append(q, e)) = Len(q) + 1
          /\ \A i \in 1 .. Len(q) : Append(q, e)[i] = q[i]
          /\ Append(q, e)[Len(q) + 1] = e
      BY <1>1
    <3>2. \A i \in 1 .. Len(q) + 1 : i \in 1 .. Len(q) \/ i = Len(q) + 1
      OBVIOUS
    <3>3. QED
      BY <2>1, <3>1, <3>2 DEF Distinct
  <2>3. Distinct(<<e>> \o q)
    <3> DEFINE r == <<e>> \o q
    <3>1. Len(r) = Len(q) + 1 /\ r[1] = e
      BY <1>1
    <3>2. \A i \in 1 .. Len(r) : i # 1 => i - 1 \in 1 .. Len(q) /\ r[i] = q[i - 1]
      BY <1>1, <3>1
    <3> SUFFICES ASSUME NEW i \in 1 .. Len(r), NEW k \in 1 .. Len(r), Same(r[i], r[k])
                 PROVE  i = k
      BY DEF Distinct
    <3>3. CASE i = 1 \/ k = 1
      BY <3>1, <3>2, <3>3, <2>1
    <3>4. CASE i # 1 /\ k # 1
      <4>1. i - 1 = k - 1
        BY <3>2, <3>4 DEF Distinct
      <4>2. QED
        BY <4>1, <3>1
    <3>5. QED
      BY <3>3, <3>4
  <2>4. QED
    BY <1>3, <2>2, <2>3 DEF PutHead, PutTail
<1>4. QED
  BY <1>2, <1>3

(***************************************************************************)
(* For every queue size and every mixture of puts, interrupts and          *)
(* re-initialisations: a low-priority event with the same data is pending  *)
(* at most once.                                                           *)
(***************************************************************************)
THEOREM PendingDistinct == Spec => []NoDuplicatePending
<1>1. Init => Distinct(pst_evList)
  BY DEF Init, Distinct
<1>2. TypeOK /\ Distinct(pst_evList) /\ [Next]_evVars => Distinct(pst_evList)'
  <2> SUFFICES ASSUME TypeOK, Distinct(pst_evList), [Next]_evVars
               PROVE  Distinct(pst_evList)'
    OBVIOUS
  <2>0. pst_evList \in Seq(Entry) /\ Len(pst_evList) \in Nat
    BY DEF TypeOK
  <2>1. ASSUME NEW e \in IsrEvent, IsrPut(e[1], e[2])
        PROVE  Distinct(pst_evList)'
    <3>1. e[1] \in EventType /\ e[2] \in Data \cup {NULL}
      BY EvProcAssumption
    <3>2. QED
      BY <2>0, <2>1, <3>1, PutDistinct DEF IsrPut
  <2>2. ASSUME NEW t \in EventType, NEW d \in Data \cup {NULL}, MainPut(t, d)
        PROVE  Distinct(pst_evList)'
    BY <2>0, <2>2, PutDistinct DEF MainPut
  <2>3. CASE NextEvent
    <3>1. /\ Len(pst_evList') \in Nat /\ Len(pst_evList') <= Len(pst_evList)
          /\ \A i \in 1 .. Len(pst_evList') : pst_evList'[i] = pst_evList[i]
      BY <2>3, <2>0, EmptySeq DEF NextEvent
    <3>2. QED
      BY <2>0, <3>1 DEF Distinct
  <2>4. CASE InitBegin
    <3>1. Len(pst_evList') = Len(pst_evList)
      BY <2>4, <2>0 DEF InitBegin
    <3>2. \A i \in 1 .. Len(pst_evList) :
            /\ pst_evList'[i].c_event = pst_evList[i].c_event
            /\ pst_evList'[i].p_data = pst_evList[i].p_data
      <4> TAKE i \in 1 .. Len(pst_evList)
      <4>1. pst_evList[i] \in Entry
        BY <2>0, ElementOfSeq
      <4>2. pst_evList'[i] = [pst_evList[i] EXCEPT !.old = TRUE]
        BY <2>4, <2>0 DEF InitBegin
      <4>3. QED
        BY <4>1, <4>2 DEF Entry
    <3>3. QED
      BY <3>1, <3>2 DEF Distinct, Same
  <2>5. CASE InitClear
    <3>1. Len(pst_evList') = Len(pst_evList)
      BY <2>5, <2>0 DEF InitClear
    <3>2. \A i \in 1 .. Len(pst_evList) :
            pst_evList'[i] = pst_evList[i] \/ pst_evList'[i].c_event = NONE
      BY <2>5, <2>0 DEF InitClear, Cleared, Event
    <3>3. QED
      BY <3>1, <3>2 DEF Distinct, Same
  <2>6. CASE UNCHANGED pst_evList
    BY <2>6 DEF Distinct
  <2>7. QED
    BY <2>1, <2>2, <2>3, <2>4, <2>5, <2>6 DEF Next, evVars, Exec, Register,
       ReRegister, CallNext, CallbackReturn, ProcessReturn, InitEnd
<1>3. Distinct(pst_evList) => NoDuplicatePending
  BY DEF Distinct, Same, NoDuplicatePending
<1>4. QED
  BY <1>1, <1>2, <1>3, TypeCorrect, PTL DEF Spec

-----------------------------------------------------------------------------
(***************************************************************************)
(* The life cycle: what holds between two turns of the main loop, whatever *)
(* requests, calls, interrupts and failures of the data link layer came    *)
(* before.                                                                 *)
(***************************************************************************)

(* The inductive invariant.                                                *)

\* what emb6_init, emb6_start, emb6_stop and loc_event_callback may have left
ScriptsFrom(x) ==
  { <<>>, <<"halt">>, <<"register">>,
    <<"evproc_init", "bring_up", x>>, <<"bring_up", x>>, <<x>>,
    <<"evproc_init", "bring_up", x, "dllc_on", "ACTIVE">>,
    <<"bring_up", x, "dllc_on", "ACTIVE">>, <<x, "dllc_on", "ACTIVE">>,
    <<"dllc_on", "ACTIVE">>, <<"ACTIVE">>,
    <<"evproc_init", "dllc_off", "IDLE">>, <<"dllc_off", "IDLE">>, <<"IDLE">> }

ScriptOK == \E x \in {"IDLE", "ACTIVE"} : script \in ScriptsFrom(x)

\* scripts that have still to bring the layers up
BringsUp ==
  /\ script # <<>>
  /\ \/ Head(script) = "bring_up"
     \/ Tail(script) # <<>> /\ Head(Tail(script)) = "bring_up"

\* no status report is still to come from the script
Settled == script \in {<<>>, <<"register">>}

ControlInv ==
  /\ ScriptOK
  /\ Initialising => script # <<>> /\ Head(script) = "evproc_init"
  /\ frames # <<>> => phase = "check" /\ status # "INIT_WAIT"
  /\ script = <<"register">> => frames # <<>>

RadioInv ==
  /\ Settled /\ status \in {"ACTIVE", "NETWORK"} => radio
  /\ script = <<"ACTIVE">> => radio

DagInv == script = <<>> /\ phase = "event" /\ status = "NETWORK" => Connected

\* the application and the stack listen to status changes, in this order
Up ==
  /\ c_isInit
  /\ pst_regList[StatusChange][1] = App /\ pst_regList[StatusChange][2] = LocCb

UpInv ==
  /\ status # "INIT_WAIT" => Up
  /\ script \in {<<>>, <<"halt">>} \/ BringsUp \/ Up
  /\ script # <<>> /\ Head(script) = "bring_up" => c_isInit
  /\ Up \/ \A j \in Slot : pst_regList[StatusChange][j] = NULL

HearsOrEmpty(reg, t) == LocCb \in Registered(reg, t) \/ \A j \in Slot : reg[t][j] = NULL

\* the innermost activation dispatches a status change and has called at most
\* the callbacks before slot j
Reporting(j) == frames # <<>> /\ Head(frames).ev = StatusChange /\ Head(frames).j <= j

InformedInv ==
  status # "INIT_WAIT" /\ Settled => lost \/ seen = status \/ ReportPending \/ Reporting(1)

HeardInv ==
  /\ \A t \in ReqType : HearsOrEmpty(pst_regList, t)
  /\ status # "INIT_WAIT" /\ Settled =>
       \/ lost \/ (\A t \in ReqType : Hears(t)) \/ ReportPending
       \/ Reporting(2) \/ script = <<"register">>

LifeInv ==
  /\ LifeTypeOK /\ ControlInv /\ RadioInv /\ DagInv /\ UpInv /\ InformedInv /\ HeardInv

-----------------------------------------------------------------------------
(* Lemmas about the operators of the model.                                *)

(***************************************************************************)
(* A put keeps what is pending, and a report that is not rejected by a     *)
(* full queue is pending afterwards.                                       *)
(***************************************************************************)
LEMMA PutKeeps ==
  ASSUME NEW q \in Seq(Entry), NEW t \in EventType, NEW d \in Data \cup {NULL},
         NEW u, NEW v, LookupEvent(q, u, v)
  PROVE  LookupEvent(PutHead(q, t, d), u, v) /\ LookupEvent(PutTail(q, t, d), u, v)
<1>0. PICK i \in 1 .. Len(q) : q[i].c_event = u /\ q[i].p_data = v
  BY DEF LookupEvent
<1> DEFINE e == Event(t, d)
<1>1. e \in Entry
  BY DEF Event, Entry
<1> HIDE DEF e
<1>2. LookupEvent(Append(q, e), u, v)
  <2>1. i \in 1 .. Len(Append(q, e)) /\ Append(q, e)[i] = q[i]
    BY <1>1
  <2>2. QED
    BY <1>0, <2>1 DEF LookupEvent
<1>3. LookupEvent(<<e>> \o q, u, v)
  <2>1. i + 1 \in 1 .. Len(<<e>> \o q) /\ (<<e>> \o q)[i + 1] = q[i]
    BY <1>1
  <2>2. QED
    BY <1>0, <2>1 DEF LookupEvent
<1>4. QED
  BY <1>2, <1>3 DEF PutHead, PutTail, e

LEMMA PutTailReports ==
  ASSUME NEW q \in Seq(Entry), NEW t \in EventType, NEW d \in Data \cup {NULL}
  PROVE  QueueFull(q) \/ LookupEvent(PutTail(q, t, d), t, d)
<1> DEFINE e == Event(t, d)
<1>1. e \in Entry /\ e.c_event = t /\ e.p_data = d
  BY DEF Event, Entry
<1> HIDE DEF e
<1>2. LookupEvent(<<e>> \o q, t, d)
  <2>1. 1 \in 1 .. Len(<<e>> \o q) /\ (<<e>> \o q)[1] = e
    BY <1>1
  <2>2. QED
    BY <1>1, <2>1 DEF LookupEvent
<1>3. CASE Coalesced(q, t, d)
  BY <1>3 DEF Coalesced, PutTail
<1>4. CASE ~Coalesced(q, t, d) /\ ~QueueFull(q)
  BY <1>2, <1>4 DEF PutTail, e
<1>5. QED
  BY <1>3, <1>4

(***************************************************************************)
(* Registering a function changes only the list of its event type, keeps   *)
(* the slots in use, and uses the first slot of an empty list.             *)
(***************************************************************************)
LEMMA RegKeeps ==
  ASSUME NEW reg \in RegLists, NEW t \in EventType, NEW f \in Callback
  PROVE  /\ RegCallback(reg, t, f) \in RegLists
         /\ \A u \in EventType \ {t} : RegCallback(reg, t, f)[u] = reg[u]
         /\ \A j \in Slot : reg[t][j] # NULL => RegCallback(reg, t, f)[t][j] = reg[t][j]
         /\ \A j \in Slot : reg[t][j] = NULL /\ (\A k \in 1 .. j - 1 : reg[t][k] # NULL) =>
              f \in Registered(reg, t) \/ RegCallback(reg, t, f)[t][j] = f
         /\ \A u \in EventType : Registered(reg, u) \subseteq Registered(RegCallback(reg, t, f), u)
<1> DEFINE R == RegCallback(reg, t, f)
<1>1. R \in RegLists
  BY RegType DEF RegLists
<1>2. \A u \in EventType \ {t} : R[u] = reg[u]
  BY DEF RegCallback, RegLists
<1>3. \A j \in Slot : reg[t][j] # NULL => R[t][j] = reg[t][j]
  BY DEF RegCallback, RegLists, FreeSlots
<1>4. ASSUME NEW j \in Slot, reg[t][j] = NULL, \A k \in 1 .. j - 1 : reg[t][k] # NULL,
             f \notin Registered(reg, t)
      PROVE  R[t][j] = f
  <2>1. j \in FreeSlots(reg, t)
    BY <1>4 DEF FreeSlots
  <2>2. \A k \in FreeSlots(reg, t) : j <= k
    BY <1>4 DEF FreeSlots, Slot
  <2>3. QED
    BY <1>4, <2>1, <2>2 DEF RegCallback, RegLists
<1> HIDE DEF R
<1>5. \A u \in EventType : Registered(reg, u) \subseteq Registered(R, u)
  BY <1>2, <1>3 DEF Registered
<1>6. QED
  BY <1>1, <1>2, <1>3, <1>4, <1>5 DEF R

(***************************************************************************)
(* The registrations of loc_event_callback on a status change and of       *)
(* emb6_init.                                                              *)
(***************************************************************************)
LEMMA RequestsRegistered ==
  ASSUME NEW reg \in RegLists, \A t \in ReqType : HearsOrEmpty(reg, t)
  PROVE  /\ RegisterRequests(reg) \in RegLists
         /\ RegisterRequests(reg)[StatusChange] = reg[StatusChange]
         /\ \A t \in ReqType : LocCb \in Registered(RegisterRequests(reg), t)
<1>0. /\ ReqInit \in EventType /\ ReqStart \in EventType /\ ReqStop \in EventType
      /\ StatusChange \in EventType /\ LocCb \in Callback /\ 1 \in Slot /\ 1 .. 1 - 1 = {}
      /\ StatusChange \notin ReqType
      /\ ReqInit # ReqStart /\ ReqInit # ReqStop /\ ReqStart # ReqStop
  BY Emb6Assumption, EvProcAssumption DEF Slot
<1>1. ASSUME NEW r \in RegLists, NEW t \in EventType, HearsOrEmpty(r, t)
      PROVE  LocCb \in Registered(RegCallback(r, t, LocCb), t)
  <2>1. CASE LocCb \in Registered(r, t)
    BY <1>0, <2>1, RegKeeps
  <2>2. CASE LocCb \notin Registered(r, t)
    <3>1. r[t][1] = NULL
      BY <1>0, <1>1, <2>2 DEF HearsOrEmpty
    <3>2. RegCallback(r, t, LocCb)[t][1] = LocCb
      BY <1>0, <2>2, <3>1, RegKeeps
    <3>3. QED
      BY <1>0, <3>2, EvProcAssumption DEF Registered
  <2>3. QED
    BY <2>1, <2>2
<1> DEFINE r1 == RegCallback(reg, ReqInit, LocCb)
           r2 == RegCallback(r1, ReqStart, LocCb)
           r3 == RegCallback(r2, ReqStop, LocCb)
<1>2. /\ r1 \in RegLists /\ r1[StatusChange] = reg[StatusChange]
      /\ r1[ReqStart] = reg[ReqStart] /\ r1[ReqStop] = reg[ReqStop]
      /\ LocCb \in Registered(r1, ReqInit)
  BY <1>0, <1>1, RegKeeps DEF ReqType
<1> HIDE DEF r1
<1>3. /\ r2 \in RegLists /\ r2[StatusChange] = reg[StatusChange]
      /\ r2[ReqStop] = reg[ReqStop]
      /\ LocCb \in Registered(r2, ReqInit) /\ LocCb \in Registered(r2, ReqStart)
  <2>1. HearsOrEmpty(r1, ReqStart)
    BY <1>2 DEF HearsOrEmpty, Registered, ReqType
  <2>2. QED
    BY <1>0, <1>1, <1>2, <2>1, RegKeeps DEF ReqType
<1> HIDE DEF r2
<1>4. /\ r3 \in RegLists /\ r3[StatusChange] = reg[StatusChange]
      /\ LocCb \in Registered(r3, ReqInit) /\ LocCb \in Registered(r3, ReqStart)
      /\ LocCb \in Registered(r3, ReqStop)
  <2>1. HearsOrEmpty(r2, ReqStop)
    BY <1>3 DEF HearsOrEmpty, Registered, ReqType
  <2>2. QED
    BY <1>0, <1>1, <1>3, <2>1, RegKeeps DEF ReqType
<1>5. RegisterRequests(reg) = r3
  BY DEF RegisterRequests, r1, r2
<1> HIDE DEF r3
<1>6. QED
  BY <1>4, <1>5 DEF ReqType

LEMMA ListenersRegistered ==
  ASSUME NEW reg \in RegLists, \A t \in ReqType : HearsOrEmpty(reg, t),
         \/ reg[StatusChange][1] = App /\ reg[StatusChange][2] = LocCb
         \/ \A j \in Slot : reg[StatusChange][j] = NULL,
         NEW new,
         new = RegisterRequests(RegCallback(RegCallback(RegCallback(reg, AppEvent, App),
                                                        StatusChange, App),
                                            StatusChange, LocCb))
  PROVE  /\ new \in RegLists
         /\ new[StatusChange][1] = App /\ new[StatusChange][2] = LocCb
         /\ \A t \in ReqType : LocCb \in Registered(new, t)
<1>0. /\ AppEvent \in EventType /\ StatusChange \in EventType /\ ReqType \subseteq EventType
      /\ LocCb \in Callback /\ App \in Callback /\ LocCb # App /\ LocCb # NULL /\ App # NULL
      /\ AppEvent # StatusChange /\ AppEvent \notin ReqType /\ StatusChange \notin ReqType
      /\ 1 \in Slot /\ 2 \in Slot /\ 1 .. 1 - 1 = {} /\ 1 .. 2 - 1 = {1}
  BY Emb6Assumption, EvProcAssumption DEF Slot, ReqType
<1> DEFINE r1 == RegCallback(reg, AppEvent, App)
           r2 == RegCallback(r1, StatusChange, App)
           r3 == RegCallback(r2, StatusChange, LocCb)
<1>1. /\ r1 \in RegLists /\ r1[StatusChange] = reg[StatusChange]
      /\ \A t \in ReqType : r1[t] = reg[t]
  BY <1>0, RegKeeps
<1> HIDE DEF r1
<1>2. /\ r2 \in RegLists /\ r2[StatusChange][1] = App
      /\ r2[StatusChange][2] = LocCb \/ \A j \in Slot \ {1} : r2[StatusChange][j] = NULL
      /\ \A t \in ReqType : r2[t] = reg[t]
  <2>1. r2 \in RegLists /\ \A t \in ReqType : r2[t] = reg[t]
    BY <1>0, <1>1, RegKeeps
  <2>2. CASE reg[StatusChange][1] = App /\ reg[StatusChange][2] = LocCb
    BY <1>0, <1>1, <2>1, <2>2, RegKeeps
  <2>3. CASE \A j \in Slot : reg[StatusChange][j] = NULL
    <3>1. App \notin Registered(r1, StatusChange)
      BY <1>0, <1>1, <2>3 DEF Registered
    <3>2. r2[StatusChange][1] = App
      BY <1>0, <1>1, <2>3, <3>1, RegKeeps
    <3>3. \A j \in Slot : j \in FreeSlots(r1, StatusChange)
      BY <1>1, <2>3 DEF FreeSlots
    <3>4. \A j \in Slot \ {1} : ~(\A k \in FreeSlots(r1, StatusChange) : j <= k)
      BY <1>0, <3>3 DEF Slot
    <3>5. \A j \in Slot \ {1} : r2[StatusChange][j] = NULL
      BY <1>0, <1>1, <2>3, <3>1, <3>3, <3>4 DEF RegCallback, RegLists
    <3>6. QED
      BY <2>1, <3>2, <3>5
  <2>4. QED
    BY <2>2, <2>3
<1> HIDE DEF r2
<1>3. /\ r3 \in RegLists /\ r3[StatusChange][1] = App /\ r3[StatusChange][2] = LocCb
      /\ \A t \in ReqType : r3[t] = reg[t]
  <2>1. /\ r3 \in RegLists /\ r3[StatusChange][1] = App
        /\ \A t \in ReqType : r3[t] = reg[t]
    BY <1>0, <1>2, RegKeeps
  <2>2. CASE r2[StatusChange][2] = LocCb
    BY <1>0, <1>2, <2>1, <2>2, RegKeeps
  <2>3. CASE \A j \in Slot \ {1} : r2[StatusChange][j] = NULL
    <3>1. LocCb \notin Registered(r2, StatusChange)
      BY <1>0, <1>2, <2>3 DEF Registered
    <3>2. r2[StatusChange][2] = NULL /\ \A k \in 1 .. 2 - 1 : r2[StatusChange][k] # NULL
      BY <1>0, <1>2, <2>3
    <3>3. r3[StatusChange][2] = LocCb
      BY <1>0, <1>2, <3>1, <3>2, RegKeeps
    <3>4. QED
      BY <2>1, <3>3
  <2>4. QED
    BY <1>2, <2>2, <2>3
<1>4. new = RegisterRequests(r3)
  BY DEF r1, r2
<1> HIDE DEF r3
<1>5. \A t \in ReqType : HearsOrEmpty(r3, t)
  BY <1>3 DEF HearsOrEmpty, Registered
<1>6. QED
  BY <1>3, <1>4, <1>5, RequestsRegistered

(***************************************************************************)
(* What a script does next is determined by its first step.                *)
(***************************************************************************)
LEMMA ScriptSteps ==
  ASSUME ScriptOK, script # <<>>
  PROVE  /\ Head(script) \in Status =>
              /\ Head(script) \in {"IDLE", "ACTIVE"}
              /\ \/ Tail(script) = <<>> /\ script = <<Head(script)>>
                 \/ Tail(script) = <<"dllc_on", "ACTIVE">>
              /\ ~BringsUp
         /\ Head(script) = "register" => script = <<"register">> /\ Tail(script) = <<>> /\ ~BringsUp
         /\ Head(script) = "bring_up" =>
              \E x \in {"IDLE", "ACTIVE"} :
                Tail(script) \in {<<x>>, <<x, "dllc_on", "ACTIVE">>}
         /\ Head(script) = "dllc_on" => Tail(script) = <<"ACTIVE">> /\ ~BringsUp
         /\ Head(script) = "dllc_off" => Tail(script) = <<"IDLE">> /\ ~BringsUp
         /\ Head(script) = "evproc_init" =>
              \/ /\ BringsUp
                 /\ \E x \in {"IDLE", "ACTIVE"} :
                      Tail(script) \in {<<"bring_up", x>>, <<"bring_up", x, "dllc_on", "ACTIVE">>}
              \/ ~BringsUp /\ Tail(script) = <<"dllc_off", "IDLE">>
         /\ Tail(script) # <<"register">>
<1>1. PICK x \in {"IDLE", "ACTIVE"} : script \in ScriptsFrom(x)
  BY DEF ScriptOK
<1>2. CASE script = <<"halt">>
  BY <1>2 DEF BringsUp, Status
<1>3. CASE script = <<"register">>
  BY <1>3 DEF BringsUp, Status
<1>4. CASE script = <<"evproc_init", "bring_up", x>>
  BY <1>4 DEF BringsUp, Status
<1>5. CASE script = <<"bring_up", x>>
  BY <1>5 DEF BringsUp, Status
<1>6. CASE script = <<x>>
  BY <1>6 DEF BringsUp, Status
<1>7. CASE script = <<"evproc_init", "bring_up", x, "dllc_on", "ACTIVE">>
  BY <1>7 DEF BringsUp, Status
<1>8. CASE script = <<"bring_up", x, "dllc_on", "ACTIVE">>
  BY <1>8 DEF BringsUp, Status
<1>9. CASE script = <<x, "dllc_on", "ACTIVE">>
  BY <1>9 DEF BringsUp, Status
<1>10. CASE script = <<"dllc_on", "ACTIVE">>
  BY <1>10 DEF BringsUp, Status
<1>11. CASE script = <<"ACTIVE">>
  BY <1>11 DEF BringsUp, Status
<1>12. CASE script = <<"evproc_init", "dllc_off", "IDLE">>
  BY <1>12 DEF BringsUp, Status
<1>13. CASE script = <<"dllc_off", "IDLE">>
  BY <1>13 DEF BringsUp, Status
<1>14. CASE script = <<"IDLE">>
  BY <1>14 DEF BringsUp, Status
<1>15. QED
  BY <1>1, <1>2, <1>3, <1>4, <1>5, <1>6, <1>7, <1>8, <1>9, <1>10, <1>11, <1>12, <1>13, <1>14 DEF ScriptsFrom

(***************************************************************************)
(* The scripts of emb6_init, emb6_start and emb6_stop.                     *)
(***************************************************************************)
LEMMA ScriptStarts ==
  \E x \in {"IDLE", "ACTIVE"} :
    /\ InitScript = <<"evproc_init", "bring_up", x>>
    /\ StartScript \in {<<>>, <<"evproc_init", "bring_up", x, "dllc_on", "ACTIVE">>}
<1>1. PICK x \in {"IDLE", "ACTIVE"} : InitScript = <<"evproc_init", "bring_up", x>>
  BY DEF InitScript
<1> DEFINE a == <<"evproc_init", "bring_up", x>>
           b == <<"dllc_on", "ACTIVE">>
           c == <<"evproc_init", "bring_up", x, "dllc_on", "ACTIVE">>
<1>2. a \o b = c
  <2>1. Len(a \o b) = 5 /\ Len(c) = 5
    OBVIOUS
  <2>2. \A i \in 1 .. 5 : (a \o b)[i] = c[i]
    OBVIOUS
  <2>3. a \o b = [i \in 1 .. 5 |-> (a \o b)[i]] /\ c = [i \in 1 .. 5 |-> c[i]]
    OBVIOUS
  <2> HIDE DEF a, b, c
  <2>4. QED
    BY <2>2, <2>3
<1>3. QED
  BY <1>1, <1>2 DEF StartScript

-----------------------------------------------------------------------------
(* Types.                                                                  *)

(***************************************************************************)
(* What a status report does to the queue.                                 *)
(***************************************************************************)
LEMMA SetStatusType ==
  ASSUME TypeOK, NEW s \in Status, SetStatus(s)
  PROVE  /\ pst_evList' \in Seq(Entry) /\ Len(pst_evList') <= EVPROC_QUEUE_SIZE
         /\ status' = s /\ lost' \in BOOLEAN
         /\ lost' \/ ReportPending'
<1>1. /\ pst_evList \in Seq(Entry) /\ Len(pst_evList) <= EVPROC_QUEUE_SIZE
      /\ StatusChange \in EventType /\ StatusPtr \in Data \cup {NULL}
  BY Emb6Assumption DEF TypeOK
<1>2. /\ status' = s /\ lost' = QueueFull(pst_evList)
      /\ pst_evList' = PutTail(pst_evList, StatusChange, StatusPtr)
  BY DEF SetStatus
<1>3. lost' \in BOOLEAN
  BY <1>2 DEF QueueFull
<1>4. lost' \/ ReportPending'
  BY <1>1, <1>2, PutTailReports DEF ReportPending
<1>5. QED
  BY <1>1, <1>2, <1>3, <1>4, PutType

(***************************************************************************)
(* Most steps of the life cycle are steps of the event processor or leave  *)
(* it alone.                                                               *)
(***************************************************************************)
LEMMA EventStep ==
  ASSUME LifeNext
  PROVE  \/ [Next]_evVars
         \/ ReportStatus \/ RegisterStep \/ BringUp \/ BringUpFails \/ CheckNetwork
<1>1. CASE \/ Boot \/ TakeEvent \/ Callbacks \/ Return \/ DllcOn \/ DllcOff
           \/ ResetBegin \/ ResetLoop \/ ResetEnd \/ Call \/ DagChange
  BY <1>1 DEF Boot, TakeEvent, Callbacks, Return, DllcOn, DllcOff, ResetBegin, ResetLoop,
              ResetEnd, Call, DagChange, Next
<1>2. ASSUME NEW t \in ReqType, Request(t) PROVE [Next]_evVars
  <2>1. t \in EventType
    BY Emb6Assumption DEF ReqType
  <2>2. QED
    BY <1>2, <2>1 DEF Request, Next
<1>3. ASSUME NEW e \in IsrEvent, Interrupt(e) PROVE [Next]_evVars
  BY <1>3 DEF Interrupt, Next
<1>4. QED
  BY <1>1, <1>2, <1>3 DEF LifeNext

(***************************************************************************)
(* Every step of the life cycle keeps its data well typed.                 *)
(***************************************************************************)
LEMMA LifeTypeStep ==
  ASSUME LifeTypeOK, [LifeNext]_vars
  PROVE  LifeTypeOK'
<1>0. TypeOK /\ pst_regList \in RegLists
  BY DEF LifeTypeOK, TypeOK, RegLists
<1>1. TypeOK'
  <2>1. CASE [Next]_evVars
    BY <1>0, <2>1, TypeStep
  <2>2. CASE ReportStatus
    BY <1>0, <2>2, SetStatusType DEF ReportStatus, TypeOK
  <2>3. CASE CheckNetwork
    <3>1. \/ SetStatus("NETWORK") \/ SetStatus("ACTIVE") \/ UNCHANGED pst_evList
      BY <2>3 DEF CheckNetwork
    <3>2. pst_evList' \in Seq(Entry) /\ Len(pst_evList') <= EVPROC_QUEUE_SIZE
      BY <1>0, <3>1, SetStatusType DEF Status, TypeOK
    <3>3. QED
      BY <1>0, <2>3, <3>2 DEF CheckNetwork, TypeOK
  <2>4. CASE BringUpFails
    <3>1. SetStatus("ERROR") \/ UNCHANGED pst_evList
      BY <2>4 DEF BringUpFails
    <3>2. pst_evList' \in Seq(Entry) /\ Len(pst_evList') <= EVPROC_QUEUE_SIZE
      BY <1>0, <3>1, SetStatusType DEF Status, TypeOK
    <3>3. QED
      BY <1>0, <2>4, <3>2 DEF BringUpFails, TypeOK
  <2>5. CASE RegisterStep \/ BringUp
    <3>1. /\ ReqInit \in EventType /\ ReqStart \in EventType /\ ReqStop \in EventType
          /\ AppEvent \in EventType /\ StatusChange \in EventType
          /\ LocCb \in Callback /\ App \in Callback
      BY Emb6Assumption
    <3>2. \A reg \in RegLists : RegisterRequests(reg) \in RegLists
      BY <3>1, RegKeeps DEF RegisterRequests
    <3>3. \A reg \in RegLists :
            RegCallback(RegCallback(RegCallback(reg, AppEvent, App), StatusChange, App),
                        StatusChange, LocCb) \in RegLists
      BY <3>1, RegKeeps
    <3>4. pst_regList' \in RegLists
      BY <1>0, <2>5, <3>2, <3>3 DEF RegisterStep, BringUp
    <3>5. QED
      BY <1>0, <2>5, <3>4 DEF RegisterStep, BringUp, TypeOK, RegLists
  <2>6. CASE UNCHANGED vars
    BY <1>0, <2>6, TypeStep DEF vars
  <2>7. QED
    BY <2>1, <2>2, <2>3, <2>4, <2>5, <2>6, EventStep
<1>2. /\ build' \in Build /\ status' \in Status /\ seen' \in Status
      /\ {radio', dag', lost'} \subseteq BOOLEAN /\ phase' \in {"event", "check"}
  <2>0. /\ build \in Build /\ status \in Status /\ seen \in Status
        /\ {radio, dag, lost} \subseteq BOOLEAN /\ phase \in {"event", "check"}
        /\ build.EMB6_INIT_ROOT \in BOOLEAN
    BY DEF LifeTypeOK, Build
  <2>1. CASE ReportStatus
    BY <1>0, <2>0, <2>1, SetStatusType DEF ReportStatus
  <2>2. CASE CheckNetwork
    <3>1. \/ SetStatus("NETWORK") \/ SetStatus("ACTIVE") \/ UNCHANGED <<status, lost>>
      BY <2>2 DEF CheckNetwork
    <3>2. status' \in Status /\ lost' \in BOOLEAN
      BY <1>0, <2>0, <3>1, SetStatusType DEF Status
    <3>3. QED
      BY <2>0, <2>2, <3>2 DEF CheckNetwork
  <2>3. CASE BringUpFails
    <3>1. SetStatus("ERROR") \/ UNCHANGED <<status, lost>>
      BY <2>3 DEF BringUpFails
    <3>2. status' \in Status /\ lost' \in BOOLEAN
      BY <1>0, <2>0, <3>1, SetStatusType DEF Status
    <3>3. QED
      BY <2>0, <2>3, <3>2 DEF BringUpFails
  <2>4. CASE Callbacks
    BY <2>0, <2>4 DEF Callbacks
  <2>5. CASE \/ RegisterStep \/ BringUp \/ DllcOn \/ DllcOff \/ TakeEvent \/ DagChange
    BY <2>0, <2>5 DEF RegisterStep, BringUp, DllcOn, DllcOff, TakeEvent, DagChange
  <2>6. CASE \/ Boot \/ Return \/ ResetBegin \/ ResetLoop \/ ResetEnd \/ Call
             \/ (\E t \in ReqType : Request(t)) \/ (\E e \in IsrEvent : Interrupt(e))
             \/ UNCHANGED vars
    BY <2>0, <2>6 DEF Boot, Return, ResetBegin, ResetLoop, ResetEnd, Call, Request, Interrupt,
                      lifeVars, vars
  <2>7. QED
    BY <2>1, <2>2, <2>3, <2>4, <2>5, <2>6 DEF LifeNext
<1>3. QED
  BY <1>1, <1>2 DEF LifeTypeOK

-----------------------------------------------------------------------------
(* Control: scripts, resets and activations.                               *)

(***************************************************************************)
(* The moves of a script: it is left alone, one of the entry points starts *)
(* it, it advances by one step, or an error replaces it.                   *)
(***************************************************************************)
ScriptMove ==
  \/ script' = script
  \/ /\ script = <<>>
     /\ script' \in {InitScript, StartScript, StopScript}
  \/ script = <<>> /\ script' = <<"register">>
  \/ script # <<>> /\ script' = Tail(script)
  \/ script # <<>> /\ Head(script) = "dllc_on" /\ script' = StopScript
  \/ script # <<>> /\ script' = <<"halt">>

LEMMA ScriptMoves ==
  ASSUME LifeTypeOK, ControlInv, [LifeNext]_vars
  PROVE  ScriptMove
<1> USE DEF ScriptMove
<1>1. CASE \/ TakeEvent \/ CheckNetwork \/ Return \/ ResetBegin \/ ResetLoop \/ DagChange
           \/ (\E t \in ReqType : Request(t)) \/ (\E e \in IsrEvent : Interrupt(e))
           \/ UNCHANGED vars
  BY <1>1 DEF TakeEvent, CheckNetwork, Return, ResetBegin, ResetLoop, DagChange, Request,
              Interrupt, lifeVars, vars
<1>2. CASE Boot \/ Call
  BY <1>2 DEF Boot, Call, AppRuns, InLoop
<1>3. CASE Callbacks
  <2>1. \A t : HandlerScript(t) \in {<<"register">>, InitScript, StartScript, StopScript, <<>>}
    BY DEF HandlerScript
  <2>2. QED
    BY <1>3, <2>1 DEF Callbacks
<1>4. CASE ReportStatus \/ RegisterStep \/ BringUp \/ DllcOff
  BY <1>4 DEF ReportStatus, RegisterStep, BringUp, DllcOff, Running
<1>5. CASE DllcOn \/ BringUpFails
  BY <1>5 DEF DllcOn, BringUpFails, Running
<1>6. CASE ResetEnd
  <2>1. Initialising
    BY <1>6, EvProcAssumption DEF ResetEnd, InitEnd, Initialising
  <2>2. QED
    BY <1>6, <2>1 DEF ResetEnd, ControlInv
<1>7. QED
  BY <1>1, <1>2, <1>3, <1>4, <1>5, <1>6 DEF LifeNext

(***************************************************************************)
(* Activations: who makes them, and that they never go below the loop.     *)
(***************************************************************************)
LEMMA FramesMove ==
  ASSUME LifeTypeOK, ControlInv, [LifeNext]_vars
  PROVE  \/ frames' = frames
         \/ TakeEvent /\ frames = <<>>
         \/ frames # <<>> /\ (Callbacks \/ Return)
         \/ ResetEnd /\ (frames' # <<>> => frames # <<>>)
<1>0. frames \in Seq(Frame)
  BY DEF LifeTypeOK, TypeOK
<1>1. CASE TakeEvent
  BY <1>1 DEF TakeEvent, InLoop, Idle
<1>2. CASE Callbacks \/ Return
  BY <1>2 DEF Callbacks, Return, CallNext, CallbackReturn, ProcessReturn
<1>3. CASE ResetEnd
  <2>1. frames' = Prune(frames, pst_regList')
    BY <1>3 DEF ResetEnd, InitEnd
  <2>2. frames = <<>> => frames' = <<>>
    <3>1. Prune(frames, pst_regList') \in Seq(Frame) /\ Len(Prune(frames, pst_regList')) = Len(frames)
      BY <1>0, PruneType
    <3>2. QED
      BY <1>0, <2>1, <3>1, EmptySeq
  <2>3. QED
    BY <1>3, <2>2
<1>4. CASE \/ CheckNetwork \/ ReportStatus \/ RegisterStep \/ BringUp \/ BringUpFails
           \/ ResetBegin \/ ResetLoop \/ (\E t \in ReqType : Request(t))
           \/ (\E e \in IsrEvent : Interrupt(e))
  BY <1>4 DEF CheckNetwork, ReportStatus, RegisterStep, BringUp, BringUpFails, ResetBegin,
              InitBegin, ResetLoop, InitClear, Request, MainPut, Interrupt, IsrPut
<1>5. CASE Boot \/ DllcOn \/ DllcOff \/ Call \/ DagChange \/ UNCHANGED vars
  BY <1>5 DEF Boot, DllcOn, DllcOff, Call, DagChange, vars, evVars
<1>6. QED
  BY <1>1, <1>2, <1>3, <1>4, <1>5 DEF LifeNext

(***************************************************************************)
(* The control invariant is inductive.                                     *)
(***************************************************************************)
LEMMA ControlStep ==
  ASSUME LifeTypeOK, ControlInv, [LifeNext]_vars
  PROVE  ControlInv'
<1>0. ScriptMove
  BY ScriptMoves
<1>1. ScriptOK'
  <2>0. ScriptOK
    BY DEF ControlInv
  <2>1. CASE script' = script
    BY <2>0, <2>1 DEF ScriptOK, ScriptsFrom
  <2>2. CASE script' \in {InitScript, StartScript, StopScript}
    BY <2>2, ScriptStarts DEF ScriptOK, ScriptsFrom, StopScript
  <2>3. CASE script' \in {<<"register">>, <<"halt">>}
    BY <2>3 DEF ScriptOK, ScriptsFrom
  <2>4. CASE script # <<>> /\ script' = Tail(script)
    <3>1. PICK x \in {"IDLE", "ACTIVE"} : script \in ScriptsFrom(x)
      BY <2>0 DEF ScriptOK
    <3>2. Tail(script) \in ScriptsFrom(x)
      <4>1. CASE script \in {<<"halt">>, <<"register">>, <<x>>, <<"ACTIVE">>, <<"IDLE">>}
        <5>1. PICK y : script = <<y>>
          BY <4>1
        <5>2. Tail(script) = <<>>
          BY <5>1
        <5>3. QED
          BY <5>2 DEF ScriptsFrom
      <4>2. CASE script = <<"evproc_init", "bring_up", x>>
        BY <4>2 DEF ScriptsFrom
      <4>3. CASE script = <<"bring_up", x>>
        BY <4>3 DEF ScriptsFrom
      <4>4. CASE script = <<"evproc_init", "bring_up", x, "dllc_on", "ACTIVE">>
        BY <4>4 DEF ScriptsFrom
      <4>5. CASE script = <<"bring_up", x, "dllc_on", "ACTIVE">>
        BY <4>5 DEF ScriptsFrom
      <4>6. CASE script = <<x, "dllc_on", "ACTIVE">>
        BY <4>6 DEF ScriptsFrom
      <4>7. CASE script = <<"dllc_on", "ACTIVE">>
        BY <4>7 DEF ScriptsFrom
      <4>8. CASE script = <<"evproc_init", "dllc_off", "IDLE">>
        BY <4>8 DEF ScriptsFrom
      <4>9. CASE script = <<"dllc_off", "IDLE">>
        BY <4>9 DEF ScriptsFrom
      <4>10. QED
        BY <2>4, <3>1, <4>1, <4>2, <4>3, <4>4, <4>5, <4>6, <4>7, <4>8, <4>9 DEF ScriptsFrom
    <3>3. QED
      BY <2>4, <3>2 DEF ScriptOK, ScriptsFrom
  <2>5. QED
    BY <1>0, <2>1, <2>2, <2>3, <2>4 DEF ScriptMove
<1>2. Initialising' => script' # <<>> /\ Head(script') = "evproc_init"
  <2>0. Initialising => script # <<>> /\ Head(script) = "evproc_init"
    BY DEF ControlInv
  <2>1. CASE ResetBegin
    BY <2>1 DEF ResetBegin, Running, lifeVars
  <2>2. CASE ResetEnd
    BY <2>2 DEF ResetEnd, InitEnd, Initialising
  <2>3. CASE ResetLoop
    <3>1. Initialising /\ script' = script
      BY <2>3 DEF ResetLoop, InitClear, Initialising, lifeVars
    <3>2. QED
      BY <2>0, <3>1
  <2>4. CASE (\E e \in IsrEvent : Interrupt(e)) \/ UNCHANGED vars
    <3>1. initIdx' = initIdx /\ script' = script
      BY <2>4 DEF Interrupt, IsrPut, lifeVars, vars, evVars
    <3>2. QED
      BY <2>0, <3>1 DEF Initialising
  <2>5. CASE \/ Boot \/ TakeEvent \/ CheckNetwork \/ Callbacks \/ Return
             \/ ReportStatus \/ RegisterStep \/ BringUp \/ BringUpFails \/ DllcOn \/ DllcOff
             \/ Call \/ DagChange \/ \E t \in ReqType : Request(t)
    <3>1. ~Initialising
      <4>1. CASE Boot
        BY <2>0, <4>1 DEF Boot
      <4>2. CASE TakeEvent \/ CheckNetwork
        BY <4>2 DEF TakeEvent, CheckNetwork, InLoop, Idle
      <4>3. CASE Callbacks \/ Return
        BY <4>3 DEF Callbacks, Return, CallNext, CallbackReturn, ProcessReturn
      <4>4. CASE ReportStatus \/ RegisterStep \/ BringUp \/ BringUpFails \/ DllcOn \/ DllcOff
        BY <4>4 DEF ReportStatus, RegisterStep, BringUp, BringUpFails, DllcOn, DllcOff, Running
      <4>5. CASE Call \/ DagChange \/ \E t \in ReqType : Request(t)
        BY <4>5 DEF Call, DagChange, Request, AppRuns, InLoop, Idle
      <4>6. QED
        BY <2>5, <4>1, <4>2, <4>3, <4>4, <4>5
    <3>2. initIdx' = initIdx
      BY <2>5 DEF Boot, TakeEvent, NextEvent, CheckNetwork, Callbacks, CallNext, Return,
                  CallbackReturn, ProcessReturn, ReportStatus, RegisterStep, BringUp,
                  BringUpFails, DllcOn, DllcOff, Call, DagChange, Request, MainPut, evVars
    <3>3. QED
      BY <3>1, <3>2 DEF Initialising
  <2>6. QED
    BY <2>1, <2>2, <2>3, <2>4, <2>5 DEF LifeNext
<1>3. status # "INIT_WAIT" => status' # "INIT_WAIT"
  <2>1. CASE ReportStatus
    <3>1. Head(script) \in {"IDLE", "ACTIVE"} /\ status' = Head(script)
      BY <2>1, ScriptSteps DEF ReportStatus, SetStatus, ControlInv
    <3>2. QED
      BY <3>1
  <2>2. CASE CheckNetwork \/ BringUpFails
    BY <2>2 DEF CheckNetwork, BringUpFails, SetStatus
  <2>3. CASE ~(ReportStatus \/ CheckNetwork \/ BringUpFails)
    BY <2>3 DEF LifeNext, Boot, TakeEvent, Callbacks, Return, RegisterStep, BringUp, DllcOn,
                DllcOff, ResetBegin, ResetLoop, ResetEnd, Call, DagChange, Request, Interrupt,
                lifeVars, vars
  <2>4. QED
    BY <2>1, <2>2, <2>3
<1>4. frames' # <<>> => phase' = "check" /\ status' # "INIT_WAIT"
  <2>0. frames # <<>> => phase = "check" /\ status # "INIT_WAIT"
    BY DEF ControlInv
  <2>1. CASE TakeEvent
    BY <2>1 DEF TakeEvent, InLoop
  <2>2. CASE CheckNetwork
    BY <2>2 DEF CheckNetwork, InLoop, Idle
  <2>3. CASE ~(TakeEvent \/ CheckNetwork)
    <3>1. phase' = phase
      BY <2>3 DEF LifeNext, Boot, Callbacks, Return, RegisterStep, BringUp, BringUpFails,
                  ReportStatus, DllcOn, DllcOff, ResetBegin, ResetLoop, ResetEnd, Call,
                  DagChange, Request, Interrupt, lifeVars, vars
    <3>2. frames' # <<>> => frames # <<>>
      BY <2>3, FramesMove
    <3>3. QED
      BY <1>3, <2>0, <3>1, <3>2
  <2>4. QED
    BY <2>1, <2>2, <2>3
<1>5. script' = <<"register">> => frames' # <<>>
  <2>0. script = <<"register">> => frames # <<>>
    BY DEF ControlInv
  <2>1. CASE Callbacks
    <3>1. frames # <<>> /\ frames \in Seq(Frame)
      BY <2>1 DEF Callbacks, CallNext, LifeTypeOK, TypeOK
    <3>2. frames' \in Seq(Frame)
      BY LifeTypeStep DEF LifeTypeOK, TypeOK
    <3>3. \E g : frames' = <<g>> \o Tail(frames)
      BY <2>1 DEF Callbacks, CallNext
    <3>4. QED
      BY <3>1, <3>3
  <2>2. CASE ~Callbacks /\ script' = <<"register">>
    <3>1. script = <<"register">>
      <4>1. CASE script = <<>> /\ script' \in {InitScript, StartScript, StopScript}
        BY <2>2, <4>1, ScriptStarts DEF StopScript
      <4>2. CASE script # <<>> /\ script' = Tail(script)
        <5>0. ScriptOK
          BY DEF ControlInv
        <5>1. Tail(script) # <<"register">>
          BY <4>2, <5>0, ScriptSteps
        <5>2. QED
          BY <2>2, <4>2, <5>1
      <4>3. CASE script' = StopScript \/ script' = <<"halt">>
        BY <2>2, <4>3 DEF StopScript
      <4>4. CASE script' = script
        BY <2>2, <4>4
      <4>5. CASE script = <<>> /\ script' = <<"register">>
        <5>1. Boot \/ Call
          BY <2>2, <4>5 DEF LifeNext, TakeEvent, CheckNetwork, Return, ReportStatus,
             RegisterStep, BringUp, BringUpFails, DllcOn, DllcOff, ResetBegin, ResetLoop,
             ResetEnd, InitEnd, DagChange, Request, Interrupt, lifeVars, vars, Running
        <5>2. QED
          BY <4>1, <4>5, <5>1 DEF Boot, Call
      <4>6. QED
        BY <1>0, <4>1, <4>2, <4>3, <4>4, <4>5 DEF ScriptMove
    <3>2. frames # <<>>
      BY <2>0, <3>1
    <3>3. ~Return
      BY <3>1 DEF Return
    <3>4. frames' # <<>>
      <4>1. CASE ResetEnd
        <5>1. Initialising
          BY <4>1, EvProcAssumption DEF ResetEnd, InitEnd, Initialising
        <5>2. Head(script) = "evproc_init"
          BY <5>1 DEF ControlInv
        <5>3. QED
          BY <3>1, <5>2
      <4>2. QED
        BY <2>2, <3>2, <3>3, <4>1, FramesMove
    <3>5. QED
      BY <3>4
  <2>3. QED
    BY <2>1, <2>2
<1>6. QED
  BY <1>1, <1>2, <1>4, <1>5 DEF ControlInv

(***************************************************************************)
(* A script that starts or that has still to reset, to bring the layers up *)
(* or to switch the data link layer is not settled.                        *)
(***************************************************************************)
LEMMA NotSettled ==
  /\ InitScript \notin {<<>>, <<"register">>, <<"halt">>, <<"ACTIVE">>}
  /\ StopScript \notin {<<>>, <<"register">>, <<"halt">>, <<"ACTIVE">>}
  /\ StartScript \notin {<<"register">>, <<"halt">>, <<"ACTIVE">>}
BY ScriptStarts DEF StopScript

(***************************************************************************)
(* The steps that end a reset, bring the layers up or switch them.         *)
(***************************************************************************)
LEMMA WorkSteps ==
  ASSUME LifeTypeOK, ControlInv,
         ResetBegin \/ ResetLoop \/ ResetEnd \/ BringUp \/ BringUpFails \/ DllcOn \/ DllcOff
  PROVE  /\ script' \notin {<<>>, <<"register">>}
         /\ script' = <<"ACTIVE">> => radio'
<1>0. ScriptOK
  BY DEF ControlInv
<1>1. CASE ResetBegin \/ ResetLoop \/ ResetEnd
  <2>1. script # <<>> /\ Head(script) = "evproc_init"
    <3>1. CASE ResetBegin
      BY <3>1 DEF ResetBegin, Running
    <3>2. CASE ResetLoop \/ ResetEnd
      <4>1. Initialising
        BY <3>2, EvProcAssumption DEF ResetLoop, ResetEnd, InitClear, InitEnd, Initialising
      <4>2. QED
        BY <4>1 DEF ControlInv
    <3>3. QED
      BY <1>1, <3>1, <3>2
  <2>2. CASE script' = script
    BY <2>1, <2>2
  <2>3. CASE script' = Tail(script)
    <3>1. Tail(script) \notin {<<>>, <<"register">>, <<"ACTIVE">>}
      BY <1>0, <2>1, ScriptSteps
    <3>2. QED
      BY <2>3, <3>1
  <2>4. QED
    BY <1>1, <2>2, <2>3 DEF ResetBegin, ResetLoop, ResetEnd, lifeVars
<1>2. CASE BringUp
  <2>1. script # <<>> /\ Head(script) = "bring_up" /\ script' = Tail(script) /\ radio' = TRUE
    BY <1>2 DEF BringUp, Running
  <2>2. Tail(script) \notin {<<>>, <<"register">>}
    BY <1>0, <2>1, ScriptSteps
  <2>3. QED
    BY <2>1, <2>2
<1>3. CASE BringUpFails
  BY <1>3 DEF BringUpFails
<1>4. CASE DllcOn
  <2>1. script # <<>> /\ Tail(script) = <<"ACTIVE">>
    BY <1>0, <1>4, ScriptSteps DEF DllcOn, Running
  <2>2. CASE script' = Tail(script) /\ radio' = TRUE
    BY <2>1, <2>2
  <2>3. CASE script' = StopScript
    BY <2>3, NotSettled
  <2>4. QED
    BY <1>4, <2>2, <2>3 DEF DllcOn
<1>5. CASE DllcOff
  <2>1. script # <<>> /\ Tail(script) = <<"IDLE">> /\ script' = Tail(script)
    BY <1>0, <1>5, ScriptSteps DEF DllcOff, Running
  <2>2. QED
    BY <2>1
<1>6. QED
  BY <1>1, <1>2, <1>3, <1>4, <1>5

-----------------------------------------------------------------------------
(* Radio and DAG.                                                          *)

(***************************************************************************)
(* No step leaves a settled, active stack with the data link layer off.    *)
(***************************************************************************)
LEMMA RadioStep ==
  ASSUME LifeTypeOK, ControlInv, RadioInv, [LifeNext]_vars
  PROVE  RadioInv'
<1>1. CASE \/ TakeEvent \/ Return \/ DagChange \/ (\E t \in ReqType : Request(t))
           \/ (\E e \in IsrEvent : Interrupt(e)) \/ UNCHANGED vars
  <2>1. UNCHANGED <<status, radio, script>>
    BY <1>1 DEF TakeEvent, Return, DagChange, Request, Interrupt, lifeVars, vars
  <2>2. QED
    BY <2>1 DEF RadioInv, Settled
<1>2. CASE Boot \/ Call
  <2>1. /\ script = <<>> /\ script' \in {InitScript, StartScript, StopScript}
        /\ UNCHANGED <<status, radio>>
    BY <1>2 DEF Boot, Call, AppRuns, InLoop
  <2>2. script' # <<"ACTIVE">>
    BY <2>1, NotSettled
  <2>3. QED
    BY <2>1, <2>2 DEF RadioInv, Settled
<1>3. CASE Callbacks
  <2>1. script = <<>> /\ UNCHANGED <<status, radio>>
    BY <1>3 DEF Callbacks
  <2>2. \A t : HandlerScript(t) \in {<<"register">>, InitScript, StartScript, StopScript, <<>>}
    BY DEF HandlerScript
  <2>3. script' # <<"ACTIVE">>
    <3>1. script' \in {<<"register">>, InitScript, StartScript, StopScript, <<>>}
      BY <1>3, <2>2 DEF Callbacks
    <3>2. QED
      BY <3>1, NotSettled
  <2>4. QED
    BY <2>1, <2>3 DEF RadioInv, Settled
<1>4. CASE CheckNetwork
  <2>1. script = <<>> /\ UNCHANGED <<radio, script>>
    BY <1>4 DEF CheckNetwork, InLoop
  <2>2. status' \in {"ACTIVE", "NETWORK"} => status \in {"ACTIVE", "NETWORK"}
    BY <1>4 DEF CheckNetwork, SetStatus
  <2>3. QED
    BY <2>1, <2>2 DEF RadioInv, Settled
<1>5. CASE ReportStatus
  <2>1. /\ script # <<>> /\ Head(script) \in Status /\ script' = Tail(script)
        /\ status' = Head(script) /\ radio' = radio
    BY <1>5 DEF ReportStatus, SetStatus
  <2>2. /\ Head(script) \in {"IDLE", "ACTIVE"}
        /\ \/ Tail(script) = <<>> /\ script = <<Head(script)>>
           \/ Tail(script) = <<"dllc_on", "ACTIVE">>
    BY <2>1, ScriptSteps DEF ControlInv
  <2>3. QED
    BY <2>1, <2>2 DEF RadioInv, Settled
<1>6. CASE RegisterStep
  <2>1. script = <<"register">> /\ script' = <<>> /\ UNCHANGED <<status, radio>>
    BY <1>6, ScriptSteps DEF RegisterStep, Running, ControlInv
  <2>2. QED
    BY <2>1 DEF RadioInv, Settled
<1>7. CASE ResetBegin \/ ResetLoop \/ ResetEnd \/ BringUp \/ BringUpFails \/ DllcOn \/ DllcOff
  BY <1>7, WorkSteps DEF RadioInv, Settled
<1>8. QED
  BY <1>1, <1>2, <1>3, <1>4, <1>5, <1>6, <1>7 DEF LifeNext

(***************************************************************************)
(* No step leaves a connected stack without a DAG at the start of a turn.  *)
(***************************************************************************)
LEMMA DagStep ==
  ASSUME LifeTypeOK, ControlInv, DagInv, [LifeNext]_vars
  PROVE  DagInv'
<1>1. CASE \/ Return \/ (\E t \in ReqType : Request(t))
           \/ (\E e \in IsrEvent : Interrupt(e)) \/ UNCHANGED vars
  <2>1. UNCHANGED <<status, dag, script, phase, build>>
    BY <1>1 DEF Return, Request, Interrupt, lifeVars, vars
  <2>2. QED
    BY <2>1 DEF DagInv, Connected
<1>2. CASE Boot \/ Call
  <2>1. script = <<>> /\ UNCHANGED <<status, dag, phase, build>>
    BY <1>2 DEF Boot, Call, AppRuns, InLoop
  <2>2. QED
    BY <2>1 DEF DagInv, Connected
<1>3. CASE TakeEvent \/ Callbacks \/ DagChange \/ RegisterStep
  <2>1. phase' = "check"
    <3>1. CASE TakeEvent
      BY <3>1 DEF TakeEvent
    <3>2. CASE Callbacks \/ DagChange
      BY <3>2 DEF Callbacks, CallNext, DagChange, ControlInv
    <3>3. CASE RegisterStep
      BY <3>3, ScriptSteps DEF RegisterStep, Running, ControlInv
    <3>4. QED
      BY <1>3, <3>1, <3>2, <3>3
  <2>2. QED
    BY <2>1 DEF DagInv
<1>4. CASE CheckNetwork
  <2>1. status' = "NETWORK" => Connected
    BY <1>4 DEF CheckNetwork, SetStatus
  <2>2. UNCHANGED <<dag, build>>
    BY <1>4 DEF CheckNetwork
  <2>3. QED
    BY <2>1, <2>2 DEF DagInv, Connected
<1>5. CASE ReportStatus
  <2>1. status' \in {"IDLE", "ACTIVE"}
    BY <1>5, ScriptSteps DEF ReportStatus, SetStatus, ControlInv
  <2>2. QED
    BY <2>1 DEF DagInv
<1>6. CASE ResetBegin \/ ResetLoop \/ ResetEnd \/ BringUp \/ BringUpFails \/ DllcOn \/ DllcOff
  BY <1>6, WorkSteps DEF DagInv
<1>7. QED
  BY <1>1, <1>2, <1>3, <1>4, <1>5, <1>6 DEF LifeNext

-----------------------------------------------------------------------------
(* Who listens to the events.                                              *)

(***************************************************************************)
(* Only registrations and the end of a reset change the callback lists.    *)
(***************************************************************************)
LEMMA RegMove ==
  ASSUME [LifeNext]_vars
  PROVE  UNCHANGED <<pst_regList, c_isInit>> \/ RegisterStep \/ BringUp \/ ResetEnd
<1>1. CASE \/ Boot \/ DllcOn \/ DllcOff \/ Call \/ DagChange \/ UNCHANGED vars
  BY <1>1 DEF Boot, DllcOn, DllcOff, Call, DagChange, vars, evVars
<1>2. CASE \/ TakeEvent \/ Callbacks \/ Return \/ CheckNetwork \/ ReportStatus \/ BringUpFails
           \/ ResetBegin \/ ResetLoop
           \/ (\E t \in ReqType : Request(t)) \/ (\E e \in IsrEvent : Interrupt(e))
  BY <1>2 DEF TakeEvent, NextEvent, Callbacks, CallNext, Return, CallbackReturn, ProcessReturn,
              CheckNetwork, ReportStatus, BringUpFails, ResetBegin, InitBegin, ResetLoop,
              InitClear, Request, MainPut, Interrupt, IsrPut, evVars
<1>3. QED
  BY <1>1, <1>2 DEF LifeNext

(***************************************************************************)
(* Once the stack has a status, the application and the stack stay         *)
(* registered for status changes, in the first two slots.                  *)
(***************************************************************************)
LEMMA UpStep ==
  ASSUME LifeTypeOK, ControlInv, UpInv, HeardInv, [LifeNext]_vars
  PROVE  UpInv' /\ \A t \in ReqType : HearsOrEmpty(pst_regList', t)
<1>0. ScriptOK /\ pst_regList \in RegLists /\ StatusChange \in EventType
  BY Emb6Assumption DEF ControlInv, LifeTypeOK, TypeOK, RegLists
<1>2. CASE RegisterStep
  <2>1. script = <<"register">> /\ script' = <<>> /\ Up
    BY <1>0, <1>2, ScriptSteps DEF RegisterStep, Running, UpInv
  <2>2. /\ pst_regList'[StatusChange] = pst_regList[StatusChange] /\ c_isInit' = c_isInit
        /\ \A t \in ReqType : LocCb \in Registered(pst_regList', t)
    BY <1>0, <1>2, RequestsRegistered DEF RegisterStep, HeardInv
  <2>3. Up'
    BY <2>1, <2>2 DEF Up
  <2>4. QED
    BY <2>1, <2>2, <2>3 DEF UpInv, HearsOrEmpty
<1>3. CASE BringUp
  <2>1. script # <<>> /\ Head(script) = "bring_up" /\ script' = Tail(script)
    BY <1>3 DEF BringUp, Running
  <2>2. c_isInit /\ c_isInit' = c_isInit
    BY <1>3, <2>1 DEF BringUp, UpInv
  <2>3. /\ pst_regList'[StatusChange][1] = App /\ pst_regList'[StatusChange][2] = LocCb
        /\ \A t \in ReqType : LocCb \in Registered(pst_regList', t)
    <3>1. \/ pst_regList[StatusChange][1] = App /\ pst_regList[StatusChange][2] = LocCb
          \/ \A j \in Slot : pst_regList[StatusChange][j] = NULL
      BY DEF UpInv, Up
    <3>2. pst_regList' =
            RegisterRequests(RegCallback(RegCallback(RegCallback(pst_regList, AppEvent, App),
                                                     StatusChange, App), StatusChange, LocCb))
      BY <1>3 DEF BringUp
    <3>3. \A t \in ReqType : HearsOrEmpty(pst_regList, t)
      BY DEF HeardInv
    <3>4. QED
      BY <1>0, <3>1, <3>2, <3>3, ListenersRegistered
  <2>4. Up'
    BY <2>2, <2>3 DEF Up
  <2>5. QED
    BY <2>2, <2>3, <2>4 DEF UpInv, HearsOrEmpty
<1>4. CASE ResetEnd
  <2>1. script # <<>> /\ Head(script) = "evproc_init" /\ script' = Tail(script)
    <3>1. Initialising
      BY <1>4, EvProcAssumption DEF ResetEnd, InitEnd, Initialising
    <3>2. QED
      BY <1>4, <3>1 DEF ResetEnd, ControlInv
  <2>2. /\ c_isInit' = TRUE /\ pst_regList' = ClearCallbacks(pst_regList, ~c_isInit)
        /\ status' = status
    BY <1>4 DEF ResetEnd, InitEnd
  <2>3. /\ \A t \in ReqType, j \in Slot : pst_regList'[t][j] = NULL
        /\ c_isInit => pst_regList'[StatusChange] = pst_regList[StatusChange]
        /\ ~c_isInit => \A j \in Slot : pst_regList'[StatusChange][j] = NULL
    <3>1. ReqType \subseteq EventType \ {StatusChange}
      BY Emb6Assumption DEF ReqType
    <3>2. QED
      BY <1>0, <2>2, <3>1 DEF ClearCallbacks
  <2>4. Up => Up'
    BY <2>2, <2>3 DEF Up
  <2>5. Up' \/ \A j \in Slot : pst_regList'[StatusChange][j] = NULL
    BY <2>3, <2>4 DEF UpInv
  <2>6. BringsUp' \/ Up'
    <3>1. CASE BringsUp
      <4>1. PICK x \in {"IDLE", "ACTIVE"} :
              script' \in {<<"bring_up", x>>, <<"bring_up", x, "dllc_on", "ACTIVE">>}
        BY <1>0, <2>1, <3>1, ScriptSteps
      <4>2. script' # <<>> /\ Head(script') = "bring_up"
        BY <4>1
      <4>3. QED
        BY <4>2 DEF BringsUp
    <3>2. CASE ~BringsUp
      <4>1. script \notin {<<>>, <<"halt">>}
        BY <2>1
      <4>2. QED
        BY <2>4, <3>2, <4>1 DEF UpInv
    <3>3. QED
      BY <3>1, <3>2
  <2>7. QED
    BY <2>2, <2>3, <2>4, <2>5, <2>6 DEF UpInv, HearsOrEmpty
<1>5. CASE UNCHANGED <<pst_regList, c_isInit>>
  <2>1. Up' <=> Up
    BY <1>5 DEF Up
  <2>2. CASE BringUp \/ ResetEnd
    BY <1>3, <1>4, <2>2
  <2>3. CASE ~BringUp /\ ~ResetEnd
    <3>1. status' # "INIT_WAIT" => Up
      <4>1. CASE ReportStatus
        <5>1. script # <<>> /\ Head(script) \in Status
          BY <4>1 DEF ReportStatus
        <5>2. script \notin {<<>>, <<"halt">>} /\ ~BringsUp
          BY <1>0, <5>1, ScriptSteps DEF Status
        <5>3. QED
          BY <5>2 DEF UpInv
      <4>2. CASE CheckNetwork
        BY <4>2 DEF CheckNetwork, InLoop, UpInv
      <4>3. CASE BringUpFails
        BY <4>3 DEF BringUpFails, UpInv
      <4>4. CASE ~(ReportStatus \/ CheckNetwork \/ BringUpFails)
        <5>1. status' = status
          BY <2>3, <4>4 DEF LifeNext, Boot, TakeEvent, Callbacks, Return, RegisterStep, DllcOn,
             DllcOff, ResetBegin, ResetLoop, Call, DagChange, Request, Interrupt, lifeVars, vars
        <5>2. QED
          BY <5>1 DEF UpInv
      <4>5. QED
        BY <4>1, <4>2, <4>3, <4>4
    <3>2. script' \in {<<>>, <<"halt">>} \/ BringsUp' \/ Up
      <4>1. CASE script' = script
        BY <4>1 DEF UpInv, BringsUp
      <4>2. CASE script = <<>> /\ script' \in {InitScript, StartScript}
        <5>1. PICK x \in {"IDLE", "ACTIVE"} :
                script' \in {<<>>, <<"evproc_init", "bring_up", x>>,
                             <<"evproc_init", "bring_up", x, "dllc_on", "ACTIVE">>}
          BY <4>2, ScriptStarts
        <5>2. CASE script' = <<>>
          BY <5>2
        <5>3. CASE script' = <<"evproc_init", "bring_up", x>>
          BY <5>3 DEF BringsUp
        <5>4. CASE script' = <<"evproc_init", "bring_up", x, "dllc_on", "ACTIVE">>
          BY <5>4 DEF BringsUp
        <5>5. QED
          BY <5>1, <5>2, <5>3, <5>4
      <4>3. CASE script = <<>> /\ script' \in {StopScript, <<"register">>}
        <5>1. Boot => script' = InitScript
          BY DEF Boot
        <5>2. CASE ~Boot /\ script' # script
          <6>1. Callbacks \/ Call
            BY <2>3, <4>3, <5>2 DEF LifeNext, TakeEvent, CheckNetwork, Return, ReportStatus,
               RegisterStep, BringUpFails, DllcOn, DllcOff, ResetBegin, ResetLoop,
               DagChange, Request, Interrupt, lifeVars, vars, Running
          <6>2. status # "INIT_WAIT"
            BY <6>1 DEF Callbacks, CallNext, Call, AppRuns, InLoop, ControlInv
          <6>3. QED
            BY <6>2 DEF UpInv
        <5>3. QED
          BY <4>1, <4>2, <4>3, <5>1, <5>2
      <4>4. CASE script # <<>> /\ script' = Tail(script) /\ script' # script
        <5>1. ReportStatus \/ RegisterStep \/ DllcOn \/ DllcOff \/ BringUpFails
          BY <2>3, <4>4 DEF LifeNext, Boot, TakeEvent, CheckNetwork, Callbacks, Return,
             ResetBegin, ResetLoop, Call, AppRuns, InLoop, DagChange, Request, Interrupt,
             lifeVars, vars
        <5>2. CASE BringUpFails
          BY <5>2 DEF BringUpFails
        <5>3. CASE ReportStatus \/ RegisterStep \/ DllcOn \/ DllcOff
          <6>1. Head(script) \in Status \cup {"register", "dllc_on", "dllc_off"}
            BY <5>3 DEF ReportStatus, RegisterStep, DllcOn, DllcOff, Running
          <6>2. ~BringsUp /\ script # <<"halt">>
            BY <1>0, <4>4, <6>1, ScriptSteps DEF Status
          <6>3. QED
            BY <4>4, <6>2 DEF UpInv
        <5>4. QED
          BY <5>1, <5>2, <5>3
      <4>5. CASE script # <<>> /\ Head(script) = "dllc_on"
        <5>1. ~BringsUp /\ script # <<"halt">>
          BY <1>0, <4>5, ScriptSteps
        <5>2. QED
          BY <4>5, <5>1 DEF UpInv
      <4>6. CASE script' = <<"halt">>
        BY <4>6
      <4>7. QED
        BY <4>1, <4>2, <4>3, <4>4, <4>5, <4>6, ScriptMoves DEF ScriptMove
    <3>3. script' # <<>> /\ Head(script') = "bring_up" => c_isInit'
      <4>1. CASE script' = script
        BY <1>5, <4>1 DEF UpInv
      <4>2. CASE script' \in {InitScript, StartScript, StopScript, <<"register">>, <<"halt">>}
        <5>1. PICK x \in {"IDLE", "ACTIVE"} :
                script' \in {<<>>, <<"register">>, <<"halt">>, <<"evproc_init", "dllc_off", "IDLE">>,
                             <<"evproc_init", "bring_up", x>>,
                             <<"evproc_init", "bring_up", x, "dllc_on", "ACTIVE">>}
          BY <4>2, ScriptStarts DEF StopScript
        <5>2. CASE script' \in {<<>>, <<"register">>, <<"halt">>}
          <6>1. CASE script' = <<>>
            BY <6>1
          <6>2. CASE script' = <<"register">>
            BY <6>2
          <6>3. CASE script' = <<"halt">>
            BY <6>3
          <6>4. QED
            BY <5>2, <6>1, <6>2, <6>3
        <5>3. CASE script' = <<"evproc_init", "dllc_off", "IDLE">>
          BY <5>3
        <5>4. CASE script' = <<"evproc_init", "bring_up", x>>
          BY <5>4
        <5>5. CASE script' = <<"evproc_init", "bring_up", x, "dllc_on", "ACTIVE">>
          BY <5>5
        <5>6. QED
          BY <5>1, <5>2, <5>3, <5>4, <5>5
      <4>3. CASE script # <<>> /\ script' = Tail(script) /\ script' # script
        <5>1. ReportStatus \/ RegisterStep \/ DllcOn \/ DllcOff \/ BringUpFails
          BY <2>3, <4>3 DEF LifeNext, Boot, TakeEvent, CheckNetwork, Callbacks, Return,
             ResetBegin, ResetLoop, Call, AppRuns, InLoop, DagChange, Request, Interrupt,
             lifeVars, vars
        <5>2. CASE BringUpFails
          BY <5>2 DEF BringUpFails
        <5>3. CASE ReportStatus \/ RegisterStep \/ DllcOn \/ DllcOff
          <6>1. Head(script) \in Status \cup {"register", "dllc_on", "dllc_off"}
            BY <5>3 DEF ReportStatus, RegisterStep, DllcOn, DllcOff, Running
          <6>2. Tail(script) \in {<<>>, <<"dllc_on", "ACTIVE">>, <<"ACTIVE">>, <<"IDLE">>}
            BY <1>0, <4>3, <6>1, ScriptSteps
          <6>3. CASE script' = <<>>
            BY <6>3
          <6>4. CASE script' = <<"dllc_on", "ACTIVE">>
            BY <6>4
          <6>5. CASE script' = <<"ACTIVE">>
            BY <6>5
          <6>6. CASE script' = <<"IDLE">>
            BY <6>6
          <6>7. QED
            BY <4>3, <6>2, <6>3, <6>4, <6>5, <6>6
        <5>4. QED
          BY <5>1, <5>2, <5>3
      <4>4. QED
        BY <4>1, <4>2, <4>3, ScriptMoves DEF ScriptMove
    <3>4. Up \/ \A j \in Slot : pst_regList'[StatusChange][j] = NULL
      BY <1>5 DEF UpInv
    <3>5. \A t \in ReqType : HearsOrEmpty(pst_regList', t)
      BY <1>5 DEF HeardInv
    <3>6. QED
      BY <2>1, <3>1, <3>2, <3>3, <3>4, <3>5 DEF UpInv
  <2>4. QED
    BY <2>2, <2>3
<1>6. QED
  BY <1>2, <1>3, <1>4, <1>5, RegMove

-----------------------------------------------------------------------------
(* Status reports.                                                         *)

(***************************************************************************)
(* An activation that has still to call the callbacks of the first slots   *)
(* of a status change calls the application, then loc_event_callback, and  *)
(* does not return before.                                                 *)
(***************************************************************************)
LEMMA ReportDispatch ==
  ASSUME LifeTypeOK, Up, Reporting(2)
  PROVE  LET f == Head(frames) IN
         /\ f \in Frame /\ f.j \in {1, 2}
         /\ SlotAt(f) = IF f.j = 1 THEN App ELSE LocCb
         /\ SlotAt(f) # NULL
<1> DEFINE f == Head(frames)
<1>1. frames \in Seq(Frame) /\ frames # <<>>
  BY DEF LifeTypeOK, TypeOK, Reporting
<1>2. f \in Frame
  BY <1>1, HeadTailProperties
<1>3. f.ev = StatusChange /\ f.j <= 2 /\ f.j \in 1 .. MAX_CALLBACK_COUNT + 1
  BY <1>2 DEF Reporting, Frame
<1>4. f.j \in {1, 2}
  BY <1>3, EvProcAssumption
<1>5. f.ev # NONE /\ ~(f.j > MAX_CALLBACK_COUNT)
  BY <1>3, <1>4, Emb6Assumption, EvProcAssumption
<1>6. SlotAt(f) = pst_regList[StatusChange][f.j]
  BY <1>3, <1>5 DEF SlotAt
<1>7. SlotAt(f) = IF f.j = 1 THEN App ELSE LocCb
  BY <1>4, <1>6 DEF Up
<1>8. App # NULL /\ LocCb # NULL
  BY Emb6Assumption, EvProcAssumption
<1>9. QED
  BY <1>2, <1>4, <1>7, <1>8

(***************************************************************************)
(* Between a status change and the moment the application has seen it and  *)
(* the request callbacks are registered, a report is queued or under way.  *)
(***************************************************************************)
LEMMA ReportStep ==
  ASSUME LifeTypeOK, ControlInv, UpInv, InformedInv, HeardInv, [LifeNext]_vars,
         \A t \in ReqType : HearsOrEmpty(pst_regList', t)
  PROVE  InformedInv' /\ HeardInv'
<1> DEFINE AllHear == \A t \in ReqType : Hears(t)
<1>0. ScriptOK /\ TypeOK /\ frames \in Seq(Frame) /\ pst_evList \in Seq(Entry)
  BY DEF ControlInv, LifeTypeOK, TypeOK
<1>a. SUFFICES ASSUME status' # "INIT_WAIT", Settled'
               PROVE  /\ lost' \/ seen' = status' \/ ReportPending' \/ Reporting(1)'
                      /\ \/ lost' \/ AllHear' \/ ReportPending'
                         \/ Reporting(2)' \/ script' = <<"register">>
  BY DEF InformedInv, HeardInv
<1>b. ASSUME status # "INIT_WAIT", Settled
      PROVE  /\ lost \/ seen = status \/ ReportPending \/ Reporting(1)
             /\ \/ lost \/ AllHear \/ ReportPending
                \/ Reporting(2) \/ script = <<"register">>
  BY <1>b DEF InformedInv, HeardInv
<1>c. status # "INIT_WAIT" => Up
  BY DEF UpInv
<1>1. CASE ReportStatus
  BY <1>0, <1>1, SetStatusType DEF ReportStatus
<1>2. CASE CheckNetwork
  <2>1. CASE SetStatus("NETWORK") \/ SetStatus("ACTIVE")
    BY <1>0, <2>1, SetStatusType DEF Status
  <2>2. CASE UNCHANGED <<status, pst_evList, lost>>
    <3>1. UNCHANGED <<pst_regList, frames, script, seen>> /\ status # "INIT_WAIT" /\ Settled
      BY <1>2 DEF CheckNetwork, InLoop, Settled
    <3>2. QED
      BY <1>b, <2>2, <3>1 DEF ReportPending, Reporting, Hears
  <2>3. QED
    BY <1>2, <2>1, <2>2 DEF CheckNetwork
<1>3. CASE TakeEvent
  <2>0. /\ UNCHANGED <<status, script, seen, lost>> /\ status # "INIT_WAIT" /\ Settled
        /\ frames = <<>> /\ pst_regList' = pst_regList /\ script = <<>>
    BY <1>3 DEF TakeEvent, InLoop, Idle, Settled, NextEvent, evVars
  <2>1. CASE pst_evList = <<>>
    <3>1. UNCHANGED <<pst_evList, frames>>
      BY <1>3, <2>1 DEF TakeEvent, evVars
    <3>2. QED
      BY <1>b, <2>0, <3>1 DEF ReportPending, Reporting, Hears
  <2>2. CASE pst_evList # <<>>
    <3> DEFINE n == Len(pst_evList)
    <3>1. /\ pst_evList' = SubSeq(pst_evList, 1, n - 1)
          /\ frames' = <<NewFrame(pst_evList[n].c_event)>>
      BY <1>3, <2>2 DEF TakeEvent, NextEvent
    <3>2. ASSUME ReportPending PROVE ReportPending' \/ Reporting(1)'
      <4>1. PICK i \in 1 .. n : /\ pst_evList[i].c_event = StatusChange
                                /\ pst_evList[i].p_data = StatusPtr
        BY <3>2 DEF ReportPending, LookupEvent
      <4>2. CASE i = n
        <5>1. frames' = <<NewFrame(StatusChange)>>
          BY <3>1, <4>1, <4>2
        <5>2. NewFrame(StatusChange).ev = StatusChange /\ NewFrame(StatusChange).j = 1
          BY DEF NewFrame
        <5> HIDE DEF n
        <5>3. frames' # <<>> /\ Head(frames') = NewFrame(StatusChange)
          BY <5>1
        <5>4. QED
          BY <5>2, <5>3 DEF Reporting
      <4>3. CASE i # n
        <5>1. n \in Nat /\ i \in 1 .. n - 1
          BY <1>0, <4>3
        <5>2. Len(pst_evList') = n - 1 /\ pst_evList'[i] = pst_evList[i]
          BY <1>0, <3>1, <5>1
        <5>3. QED
          BY <4>1, <5>1, <5>2 DEF ReportPending, LookupEvent
      <4>4. QED
        BY <4>2, <4>3
    <3>3. Reporting(1)' => Reporting(2)'
      <4>1. ASSUME Reporting(1)' PROVE Reporting(2)'
        <5>1. frames' # <<>> /\ frames' \in Seq(Frame)
          BY <4>1, LifeTypeStep DEF Reporting, LifeTypeOK, TypeOK
        <5>2. Head(frames').j \in Int
          <6>1. Head(frames') \in Frame
            BY <5>1, HeadTailProperties
          <6>2. QED
            BY <6>1, EvProcAssumption DEF Frame
        <5>3. QED
          BY <4>1, <5>2 DEF Reporting
      <4>2. QED
        BY <4>1
    <3>4. ~Reporting(1) /\ ~Reporting(2) /\ script # <<"register">>
      BY <2>0 DEF Reporting
    <3>5. QED
      BY <1>b, <2>0, <3>2, <3>3, <3>4 DEF Hears
  <2>3. QED
    BY <2>1, <2>2
<1>4. CASE Callbacks
  <2> DEFINE f == Head(frames)
             g == [f EXCEPT !.run = SlotAt(f), !.j = @ + 1, !.called = @ \cup {SlotAt(f)}]
  <2>1. /\ script = <<>> /\ frames # <<>> /\ frames' = <<g>> \o Tail(frames)
        /\ UNCHANGED <<pst_evList, pst_regList, status, lost>>
    BY <1>4 DEF Callbacks, CallNext
  <2>2. status # "INIT_WAIT" /\ Settled /\ Up
    BY <1>c, <2>1 DEF ControlInv, Settled
  <2>3. f \in Frame /\ Tail(frames) \in Seq(Frame)
    BY <1>0, <2>1, HeadTailProperties
  <2>4. g.run = SlotAt(f) /\ g.ev = f.ev /\ g.j = f.j + 1
    BY <2>3 DEF Frame
  <2>5. Head(frames') = g /\ frames' # <<>>
    <3> HIDE DEF g
    <3>1. QED
      BY <2>1, <2>3
  <2>6. /\ script' = IF SlotAt(f) = LocCb THEN HandlerScript(f.ev) ELSE <<>>
        /\ seen' = IF SlotAt(f) = App /\ f.ev = StatusChange THEN status ELSE seen
    <3> HIDE DEF g, f
    <3>1. QED
      BY <1>4, <2>4, <2>5 DEF Callbacks
  <2> HIDE DEF g
  <2>7. ReportPending' = ReportPending /\ AllHear' = AllHear
    BY <2>1 DEF ReportPending, Hears
  <2>8. CASE Reporting(1)
    <3>1. Reporting(2) /\ f.ev = StatusChange /\ f.j = 1
      BY <2>3, <2>8, EvProcAssumption DEF Reporting, Frame
    <3>2. SlotAt(f) = App
      BY <2>2, <3>1, ReportDispatch
    <3>3. seen' = status' /\ script' = <<>>
      BY <2>1, <2>6, <3>1, <3>2, Emb6Assumption
    <3>4. Reporting(2)'
      BY <2>4, <2>5, <3>1 DEF Reporting
    <3>5. QED
      BY <3>3, <3>4
  <2>9. CASE Reporting(2) /\ ~Reporting(1)
    <3>1. f.ev = StatusChange /\ f.j = 2 /\ SlotAt(f) = LocCb
      <4>1. f.j \in {1, 2} /\ SlotAt(f) = (IF f.j = 1 THEN App ELSE LocCb) /\ f.ev = StatusChange
        BY <2>2, <2>9, ReportDispatch DEF Reporting
      <4>2. f.j # 1
        BY <2>1, <2>9, <4>1 DEF Reporting
      <4>3. QED
        BY <4>1, <4>2
    <3>2. script' = <<"register">>
      <4>1. HandlerScript(StatusChange) = <<"register">>
        BY Emb6Assumption DEF HandlerScript, ReqType
      <4>2. QED
        BY <2>6, <3>1, <4>1
    <3>3. seen' = seen
      BY <2>6, <3>1, Emb6Assumption
    <3>4. QED
      BY <1>b, <2>1, <2>2, <2>7, <2>9, <3>2, <3>3
  <2>10. CASE ~Reporting(2) /\ ~Reporting(1)
    <3>1. seen' = seen \/ seen' = status
      BY <2>6
    <3>2. QED
      BY <1>b, <2>1, <2>2, <2>7, <2>10, <3>1
  <2>11. QED
    BY <2>8, <2>9, <2>10
<1>5. CASE Return
  <2>1. /\ script = <<>> /\ frames # <<>> /\ UNCHANGED <<pst_evList, pst_regList>>
        /\ UNCHANGED <<status, script, seen, lost>>
    BY <1>5 DEF Return, CallbackReturn, ProcessReturn, lifeVars
  <2>2. status # "INIT_WAIT" /\ Settled /\ Up
    BY <1>c, <2>1 DEF ControlInv, Settled
  <2>3. ReportPending' = ReportPending /\ AllHear' = AllHear
    BY <2>1 DEF ReportPending, Hears
  <2>4. CASE CallbackReturn
    <3> DEFINE f == Head(frames)
               g == [f EXCEPT !.run = NULL]
    <3>1. f \in Frame /\ Tail(frames) \in Seq(Frame) /\ frames' = <<g>> \o Tail(frames)
      BY <1>0, <2>1, <2>4, HeadTailProperties DEF CallbackReturn
    <3>2. g.ev = f.ev /\ g.j = f.j
      BY <3>1 DEF Frame
    <3> HIDE DEF g
    <3>3. Head(frames') = g /\ frames' # <<>>
      BY <3>1
    <3>4. Reporting(1)' = Reporting(1) /\ Reporting(2)' = Reporting(2)
      BY <2>1, <3>2, <3>3 DEF Reporting
    <3>5. QED
      BY <1>b, <2>1, <2>2, <2>3, <3>4
  <2>5. CASE ProcessReturn
    <3>1. SlotAt(Head(frames)) = NULL
      BY <2>5 DEF ProcessReturn
    <3>2. ~Reporting(2)
      BY <2>2, <3>1, ReportDispatch
    <3>3. ~Reporting(1)
      <4>1. Reporting(1) => Reporting(2)
        <5>1. Head(frames).j \in Int
          <6>1. Head(frames) \in Frame
            BY <1>0, <2>1, HeadTailProperties
          <6>2. QED
            BY <6>1, EvProcAssumption DEF Frame
        <5>2. QED
          BY <5>1 DEF Reporting
      <4>2. QED
        BY <3>2, <4>1
    <3>4. QED
      BY <1>b, <2>1, <2>2, <2>3, <3>2, <3>3
  <2>6. QED
    BY <1>5, <2>4, <2>5 DEF Return
<1>6. CASE RegisterStep
  <2>1. script = <<"register">> /\ Settled
    BY <1>0, <1>6, ScriptSteps DEF RegisterStep, Running, Settled
  <2>2. UNCHANGED <<pst_evList, frames, status, seen, lost>>
    BY <1>6 DEF RegisterStep
  <2>3. AllHear'
    <3>1. pst_regList \in RegLists /\ \A t \in ReqType : HearsOrEmpty(pst_regList, t)
      BY DEF HeardInv, LifeTypeOK, TypeOK, RegLists
    <3>2. pst_regList' = RegisterRequests(pst_regList)
      BY <1>6 DEF RegisterStep
    <3>3. \A t \in ReqType : LocCb \in Registered(pst_regList', t)
      BY <3>1, <3>2, RequestsRegistered
    <3>4. QED
      BY <3>3 DEF Hears
  <2>4. QED
    BY <1>a, <1>b, <2>1, <2>2, <2>3 DEF ReportPending, Reporting
<1>7. CASE ResetBegin \/ ResetLoop \/ ResetEnd \/ BringUp \/ BringUpFails \/ DllcOn \/ DllcOff
  BY <1>7, <1>a, WorkSteps DEF Settled
<1>8. CASE Boot \/ Call \/ DagChange \/ UNCHANGED vars
  <2>1. UNCHANGED <<evVars, status, seen, lost>>
    BY <1>8 DEF Boot, Call, DagChange, vars, lifeVars
  <2>2. script = <<>> \/ script' = script
    BY <1>8 DEF Boot, Call, AppRuns, InLoop, DagChange, vars, lifeVars
  <2>3. Settled
    BY <1>a, <2>2 DEF Settled
  <2>4. script = <<"register">> => script' = <<"register">>
    BY <2>2
  <2>5. QED
    BY <1>a, <1>b, <2>1, <2>3, <2>4 DEF evVars, ReportPending, Reporting, Hears
<1>9. CASE (\E t \in ReqType : Request(t)) \/ (\E e \in IsrEvent : Interrupt(e))
  <2>1. UNCHANGED <<pst_regList, frames, status, script, seen, lost>>
    BY <1>9 DEF Request, MainPut, Interrupt, IsrPut, lifeVars
  <2>2. ReportPending => ReportPending'
    <3>1. ASSUME NEW t \in ReqType, Request(t), ReportPending PROVE ReportPending'
      <4>1. t \in EventType /\ NULL \in Data \cup {NULL}
        BY Emb6Assumption DEF ReqType
      <4>2. pst_evList' = PutHead(pst_evList, t, NULL) \/ pst_evList' = PutTail(pst_evList, t, NULL)
        BY <3>1 DEF Request, MainPut
      <4>3. QED
        BY <1>0, <3>1, <4>1, <4>2, PutKeeps DEF ReportPending
    <3>2. ASSUME NEW e \in IsrEvent, Interrupt(e), ReportPending PROVE ReportPending'
      <4>1. e[1] \in EventType /\ e[2] \in Data \cup {NULL}
        BY EvProcAssumption
      <4>2. pst_evList' = PutHead(pst_evList, e[1], e[2])
        BY <3>2 DEF Interrupt, IsrPut
      <4>3. QED
        BY <1>0, <3>2, <4>1, <4>2, PutKeeps DEF ReportPending
    <3>3. QED
      BY <1>9, <3>1, <3>2
  <2>3. QED
    BY <1>a, <1>b, <2>1, <2>2 DEF Settled, Reporting, Hears
<1>10. QED
  BY <1>1, <1>2, <1>3, <1>4, <1>5, <1>6, <1>7, <1>8, <1>9 DEF LifeNext

-----------------------------------------------------------------------------
(* Theorems.                                                               *)

(***************************************************************************)
(* The invariant holds in every reachable state.                           *)
(***************************************************************************)
THEOREM LifeInvariant == LifeSpec => []LifeInv
<1>1. LifeInit => LifeInv
  <2> SUFFICES ASSUME LifeInit PROVE LifeInv
    OBVIOUS
  <2>1. TypeOK
    <3>1. EmptyReg \in [EventType -> [Slot -> Callback \cup {NULL}]]
      BY DEF EmptyReg
    <3>2. <<>> \in Seq(Entry) /\ Len(<<>>) = 0 /\ <<>> \in Seq(Frame)
      OBVIOUS
    <3>3. 0 <= EVPROC_QUEUE_SIZE /\ 0 \in 0 .. EVPROC_QUEUE_SIZE + 1
      BY EvProcAssumption
    <3>4. QED
      BY <3>1, <3>2, <3>3, Zenon DEF LifeInit, Init, TypeOK
  <2>2. LifeTypeOK
    BY <2>1 DEF LifeInit, LifeTypeOK, Status
  <2>3. ControlInv
    BY DEF LifeInit, Init, ControlInv, ScriptOK, ScriptsFrom, Initialising
  <2>4. RadioInv /\ DagInv
    BY DEF LifeInit, RadioInv, DagInv, Settled
  <2>5. \A t \in EventType, j \in Slot : pst_regList[t][j] = NULL
    BY DEF LifeInit, Init, EmptyReg
  <2>6. UpInv
    BY <2>5, Emb6Assumption DEF LifeInit, UpInv
  <2>7. InformedInv
    BY DEF LifeInit, InformedInv
  <2>8. HeardInv
    <3>1. ReqType \subseteq EventType
      BY Emb6Assumption DEF ReqType
    <3>2. QED
      BY <2>5, <3>1 DEF LifeInit, HeardInv, HearsOrEmpty
  <2>9. QED
    BY <2>2, <2>3, <2>4, <2>6, <2>7, <2>8 DEF LifeInv
<1>2. LifeInv /\ [LifeNext]_vars => LifeInv'
  <2> SUFFICES ASSUME LifeInv, [LifeNext]_vars PROVE LifeInv'
    OBVIOUS
  <2>0. LifeTypeOK /\ ControlInv /\ RadioInv /\ DagInv /\ UpInv /\ InformedInv /\ HeardInv
    BY DEF LifeInv
  <2>1. LifeTypeOK' /\ ControlInv' /\ RadioInv' /\ DagInv'
    BY <2>0, LifeTypeStep, ControlStep, RadioStep, DagStep
  <2>2. UpInv' /\ \A t \in ReqType : HearsOrEmpty(pst_regList', t)
    BY <2>0, UpStep
  <2>3. InformedInv' /\ HeardInv'
    BY <2>0, <2>2, ReportStep
  <2>4. QED
    BY <2>1, <2>2, <2>3 DEF LifeInv
<1>3. QED
  BY <1>1, <1>2, PTL DEF LifeSpec

(***************************************************************************)
(* The data of the stack and of its event processor keep their types.      *)
(***************************************************************************)
THEOREM LifeTypes == LifeSpec => []LifeTypeOK
<1>1. LifeInv => LifeTypeOK
  BY DEF LifeInv
<1>2. QED
  BY <1>1, LifeInvariant, PTL

(***************************************************************************)
(* Between two turns of emb6_process the stack can be asked to stop, start *)
(* or initialise, or a queued report will make that possible; only a       *)
(* report that a full queue rejected can leave it deaf.                    *)
(***************************************************************************)
THEOREM StackHearsRequests == LifeSpec => []RequestsHeard
<1>1. LifeInv => RequestsHeard
  <2> SUFFICES ASSUME LifeInv, InLoop
               PROVE  lost \/ (\A t \in ReqType : Hears(t)) \/ (ReportPending /\ Hears(StatusChange))
    BY DEF RequestsHeard
  <2>1. status # "INIT_WAIT" /\ script = <<>> /\ frames = <<>> /\ Settled
    BY DEF InLoop, Idle, Settled
  <2>2. lost \/ (\A t \in ReqType : Hears(t)) \/ ReportPending
    BY <2>1 DEF LifeInv, HeardInv, Reporting
  <2>3. Hears(StatusChange)
    <3>1. Up
      BY <2>1 DEF LifeInv, UpInv
    <3>2. 2 \in Slot /\ LocCb # NULL
      BY Emb6Assumption, EvProcAssumption DEF Slot
    <3>3. QED
      BY <3>1, <3>2 DEF Up, Hears, Registered
  <2>4. QED
    BY <2>2, <2>3
<1>2. QED
  BY <1>1, LifeInvariant, PTL

(***************************************************************************)
(* Between two turns the application has seen the current status, or a     *)
(* report is queued, although several changes share one report.            *)
(***************************************************************************)
THEOREM ApplicationKnowsStatus == LifeSpec => []ApplicationInformed
<1>1. LifeInv => ApplicationInformed
  BY DEF LifeInv, InformedInv, ApplicationInformed, InLoop, Idle, Settled, Reporting
<1>2. QED
  BY <1>1, LifeInvariant, PTL

(***************************************************************************)
(* Between two turns an active stack has its data link layer on, whichever *)
(* dllc->on of emb6_init and emb6_start failed.                            *)
(***************************************************************************)
THEOREM ActiveStackHasRadio == LifeSpec => []ActiveImpliesRadio
<1>1. LifeInv => ActiveImpliesRadio
  BY DEF LifeInv, RadioInv, ActiveImpliesRadio, InLoop, Settled
<1>2. QED
  BY <1>1, LifeInvariant, PTL

(***************************************************************************)
(* A stack that starts a turn connected is a root or has joined a DAG.     *)
(***************************************************************************)
THEOREM ConnectedStackHasDag == LifeSpec => []NetworkImpliesDag
<1>1. LifeInv => NetworkImpliesDag
  BY DEF LifeInv, DagInv, NetworkImpliesDag, InLoop
<1>2. QED
  BY <1>1, LifeInvariant, PTL

=============================================================================
