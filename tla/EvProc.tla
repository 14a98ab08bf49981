------------------------------- MODULE EvProc -------------------------------
(***************************************************************************)
(* The event processor of the stack (utils/src/evproc.c): the queue of     *)
(* pending events and the per-type lists of callbacks.  Two contexts touch *)
(* it: the main loop, which takes events and runs callbacks to completion, *)
(* and interrupt handlers, which may put an event between any two steps of *)
(* the main loop except inside bsp_enterCritical .. bsp_exitCritical.      *)
(*                                                                         *)
(* pst_evList[1 .. c_queueSize] is the sequence pst_evList, so c_queueSize *)
(* is its length; the entries above c_queueSize are never read.  The next  *)
(* event is taken from the high end: "head" puts append, "tail" puts       *)
(* prepend.                                                                *)
(***************************************************************************)
EXTENDS Integers, Sequences, FiniteSets

CONSTANTS
  EventType,       \* event types 0 .. EVENT_TYPE_MAX - 1
  Oblig,           \* the types >= OBLIG_EVENT_PRIOR, never coalesced
  StatusChange,    \* EVENT_TYPE_STATUS_CHANGE, whose callbacks survive a re-init
  Data,            \* what p_data may point to
  Callback,        \* callback functions
  IsrEvent,        \* events <<type, data>> that interrupt handlers put
  NONE,            \* EVENT_TYPE_NONE
  NULL,            \* the null pointer
  EVPROC_QUEUE_SIZE,
  MAX_CALLBACK_COUNT,
  MaxDepth         \* bound on nested E_EVPROC_EXEC calls

ASSUME EvProcAssumption ==
  /\ EVPROC_QUEUE_SIZE \in Nat \ {0}
  /\ MAX_CALLBACK_COUNT \in Nat \ {0}
  /\ MaxDepth \in Nat \ {0}
  /\ Oblig \subseteq EventType
  /\ StatusChange \in EventType
  /\ NONE \notin EventType
  /\ NULL \notin Callback
  /\ IsrEvent \subseteq EventType \X (Data \cup {NULL})

VARIABLES
  pst_evList,   \* the pending events, next one last
  pst_regList,  \* the callback slots of each event type
  c_isInit,     \* has _evproc_init run?
  frames,       \* call stack of _evproc_processEvent, innermost first
  initIdx       \* next index the loop of _evproc_init clears, 0 outside it

evVars == <<pst_evList, pst_regList, c_isInit, frames, initIdx>>

Slot == 1 .. MAX_CALLBACK_COUNT

(***************************************************************************)
(* A queue entry.  "old" is a history field: the entry was pending when    *)
(* the running _evproc_init was entered.                                   *)
(***************************************************************************)
Entry == [c_event: EventType \cup {NONE}, p_data: Data \cup {NULL}, old: BOOLEAN]

Event(t, d) == [c_event |-> t, p_data |-> d, old |-> FALSE]

Cleared == Event(NONE, NULL)

(***************************************************************************)
(* An activation of _evproc_processEvent: the event, the slot to look at   *)
(* next and the callback that is running (NULL between two callbacks).     *)
(* "must" and "called" are history fields: the callbacks that have been    *)
(* registered for the event ever since the activation began, and the ones  *)
(* it has called.                                                          *)
(***************************************************************************)
Frame == [ev: EventType \cup {NONE}, j: 1 .. MAX_CALLBACK_COUNT + 1,
          run: Callback \cup {NULL}, must: SUBSET Callback, called: SUBSET Callback]

-----------------------------------------------------------------------------
(* The queue.                                                              *)

\* mutant: the search stops one entry early
LookupEventShort(q, t, d) ==
  \E i \in 1 .. Len(q) - 1 : q[i].c_event = t /\ q[i].p_data = d

\* _evproc_lookupEvent: is the event with the same data already pending?
LookupEvent(q, t, d) ==
  \E i \in 1 .. Len(q) : q[i].c_event = t /\ q[i].p_data = d

\* a low-priority event that is already pending is not queued again
Coalesced(q, t, d) == t \notin Oblig /\ LookupEvent(q, t, d)

\* mutant: the limit is tested one entry late
QueueFullLate(q) == Len(q) = EVPROC_QUEUE_SIZE + 1

QueueFull(q) == Len(q) = EVPROC_QUEUE_SIZE

PutHead(q, t, d) ==
  IF QueueFull(q) \/ Coalesced(q, t, d) THEN q ELSE Append(q, Event(t, d))

PutTail(q, t, d) ==
  IF QueueFull(q) \/ Coalesced(q, t, d) THEN q ELSE <<Event(t, d)>> \o q

-----------------------------------------------------------------------------
(* The callback lists.                                                     *)

Registered(reg, t) == {reg[t][j] : j \in Slot} \ {NULL}

FreeSlots(reg, t) == {j \in Slot : reg[t][j] = NULL}

\* mutant: no search for the function before the free slot is taken
RegCallbackTwice(reg, t, f) ==
  IF FreeSlots(reg, t) = {}
    THEN reg
    ELSE [reg EXCEPT ![t] = [j \in Slot |->
            IF j \in FreeSlots(reg, t) /\ \A k \in FreeSlots(reg, t) : j <= k
              THEN f ELSE reg[t][j]]]

\* evproc_regCallback: first free slot, unless the function is registered
RegCallback(reg, t, f) ==
  IF f \in Registered(reg, t) \/ FreeSlots(reg, t) = {}
    THEN reg
    ELSE [reg EXCEPT ![t] = [j \in Slot |->
            IF j \in FreeSlots(reg, t) /\ \A k \in FreeSlots(reg, t) : j <= k
              THEN f ELSE reg[t][j]]]

\* mutant: the later slots move down to close the gap
UnregCallbackCompact(reg, t, f) ==
  LET passed(j) == \E k \in 1 .. j : reg[t][k] = f IN
  [reg EXCEPT ![t] = [j \in Slot |->
     IF ~passed(j) THEN reg[t][j]
     ELSE IF j = MAX_CALLBACK_COUNT THEN NULL ELSE reg[t][j + 1]]]

\* evproc_unregCallback: the slot becomes NULL, the later ones stay in place
UnregCallback(reg, t, f) ==
  [reg EXCEPT ![t] = [j \in Slot |->
     IF reg[t][j] = f /\ \A k \in 1 .. j - 1 : reg[t][k] # f
       THEN NULL ELSE reg[t][j]]]

\* the second loop of _evproc_init
ClearCallbacks(reg, first) ==
  [t \in EventType |-> IF first \/ t # StatusChange
                         THEN [j \in Slot |-> NULL] ELSE reg[t]]

EmptyReg == [t \in EventType |-> [j \in Slot |-> NULL]]

\* the activations keep in "must" only what stays registered
Prune(fs, reg) ==
  [i \in 1 .. Len(fs) |->
     [fs[i] EXCEPT !.must =
        IF fs[i].ev = NONE THEN {} ELSE @ \cap Registered(reg, fs[i].ev)]]

-----------------------------------------------------------------------------
(* The control of the main context.                                        *)

Initialising == initIdx # 0

\* between two events: evproc_nextEvent may be called
Idle == frames = <<>> /\ ~Initialising

\* some code of a client runs: a callback, or the main loop itself
ClientRuns == ~Initialising /\ (frames # <<>> => Head(frames).run # NULL)

NewFrame(t) ==
  [ev |-> t, j |-> 1, run |-> NULL, called |-> {},
   must |-> IF t = NONE THEN {} ELSE Registered(pst_regList, t)]

-----------------------------------------------------------------------------
(* Operations.                                                             *)

\* evproc_putEvent(E_EVPROC_HEAD, ..) from an interrupt handler
IsrPut(t, d) ==
  /\ pst_evList' = PutHead(pst_evList, t, d)
  /\ UNCHANGED <<pst_regList, c_isInit, frames, initIdx>>

\* evproc_putEvent(E_EVPROC_HEAD / E_EVPROC_TAIL, ..) from the main context
MainPut(t, d) ==
  /\ ClientRuns
  /\ \/ pst_evList' = PutHead(pst_evList, t, d)
     \/ pst_evList' = PutTail(pst_evList, t, d)
  /\ UNCHANGED <<pst_regList, c_isInit, frames, initIdx>>

\* evproc_putEvent(E_EVPROC_EXEC, ..): the callbacks run now, nested
Exec(t) ==
  /\ ClientRuns
  /\ Len(frames) < MaxDepth
  /\ frames' = <<NewFrame(t)>> \o frames
  /\ UNCHANGED <<pst_evList, pst_regList, c_isInit, initIdx>>

\* evproc_nextEvent takes the event at the high end and processes it
NextEvent ==
  /\ Idle
  /\ pst_evList # <<>>
  /\ pst_evList' = SubSeq(pst_evList, 1, Len(pst_evList) - 1)
  /\ frames' = <<NewFrame(pst_evList[Len(pst_evList)].c_event)>>
  /\ UNCHANGED <<pst_regList, c_isInit, initIdx>>

\* slot j of the event's list as the loop of _evproc_processEvent sees it
SlotAt(f) ==
  IF f.ev = NONE \/ f.j > MAX_CALLBACK_COUNT THEN NULL ELSE pst_regList[f.ev][f.j]

\* _evproc_processEvent: the loop calls the callback in the next slot
CallNext ==
  /\ frames # <<>> /\ ~Initialising
  /\ LET f == Head(frames) IN
     /\ f.run = NULL
     /\ SlotAt(f) # NULL
     /\ frames' = <<[f EXCEPT !.run = SlotAt(f), !.j = @ + 1,
                              !.called = @ \cup {SlotAt(f)}]>> \o Tail(frames)
  /\ UNCHANGED <<pst_evList, pst_regList, c_isInit, initIdx>>

\* the callback returns to the loop
CallbackReturn ==
  /\ frames # <<>> /\ ~Initialising
  /\ Head(frames).run # NULL
  /\ frames' = <<[Head(frames) EXCEPT !.run = NULL]>> \o Tail(frames)
  /\ UNCHANGED <<pst_evList, pst_regList, c_isInit, initIdx>>

\* _evproc_processEvent returns: first NULL slot, end of the list, or an
\* event type it does not know
ProcessReturn ==
  /\ frames # <<>> /\ ~Initialising
  /\ Head(frames).run = NULL
  /\ SlotAt(Head(frames)) = NULL
  /\ frames' = Tail(frames)
  /\ UNCHANGED <<pst_evList, pst_regList, c_isInit, initIdx>>

\* evproc_regCallback of an initialised module
Register(t, f) ==
  /\ ClientRuns
  /\ c_isInit
  /\ pst_regList' = RegCallback(pst_regList, t, f)
  /\ UNCHANGED <<pst_evList, c_isInit, frames, initIdx>>

\* mutant: the function is not registered again
ReRegisterForgets(t, f) ==
  /\ ClientRuns
  /\ c_isInit
  /\ pst_regList' = UnregCallback(pst_regList, t, f)
  /\ frames' = Prune(frames, pst_regList')
  /\ UNCHANGED <<pst_evList, c_isInit, initIdx>>

\* the only caller of evproc_unregCallback, udp_socket_register, registers
\* the same function again at once
ReRegister(t, f) ==
  /\ ClientRuns
  /\ c_isInit
  /\ pst_regList' = RegCallback(UnregCallback(pst_regList, t, f), t, f)
  /\ frames' = Prune(frames, pst_regList')
  /\ UNCHANGED <<pst_evList, c_isInit, initIdx>>

\* mutant: the loop starts with the second entry
InitBeginSecond ==
  /\ ClientRuns
  /\ initIdx' = 2
  /\ pst_evList' = [i \in 1 .. Len(pst_evList) |->
                      [pst_evList[i] EXCEPT !.old = TRUE]]
  /\ UNCHANGED <<pst_regList, c_isInit, frames>>

\* evproc_init / the implicit initialisation of evproc_regCallback: enter
\* the loop that overwrites the queue, which is not a critical section
InitBegin ==
  /\ ClientRuns
  /\ initIdx' = 1
  /\ pst_evList' = [i \in 1 .. Len(pst_evList) |->
                      [pst_evList[i] EXCEPT !.old = TRUE]]
  /\ UNCHANGED <<pst_regList, c_isInit, frames>>

\* one iteration of the loop; c_queueSize is left alone
InitClear ==
  /\ initIdx \in 1 .. EVPROC_QUEUE_SIZE
  /\ initIdx' = initIdx + 1
  /\ pst_evList' = IF initIdx <= Len(pst_evList)
                     THEN [pst_evList EXCEPT ![initIdx] = Cleared] ELSE pst_evList
  /\ UNCHANGED <<pst_regList, c_isInit, frames>>

\* the loop over the callback lists and the end of _evproc_init
InitEnd ==
  /\ initIdx = EVPROC_QUEUE_SIZE + 1
  /\ initIdx' = 0
  /\ pst_regList' = ClearCallbacks(pst_regList, ~c_isInit)
  /\ frames' = Prune(frames, pst_regList')
  /\ c_isInit' = TRUE
  /\ UNCHANGED pst_evList

-----------------------------------------------------------------------------
Init ==
  /\ pst_evList = <<>>
  /\ pst_regList = EmptyReg
  /\ c_isInit = FALSE
  /\ frames = <<>>
  /\ initIdx = 0

\* clients that use the whole interface, in any order
Next ==
  \/ \E e \in IsrEvent : IsrPut(e[1], e[2])
  \/ \E t \in EventType, d \in Data \cup {NULL} : MainPut(t, d)
  \/ \E t \in EventType : Exec(t)
  \/ \E t \in EventType, f \in Callback : Register(t, f) \/ ReRegister(t, f)
  \/ NextEvent
  \/ CallNext
  \/ CallbackReturn
  \/ ProcessReturn
  \/ InitBegin
  \/ InitClear
  \/ InitEnd

Spec == Init /\ [][Next]_evVars

-----------------------------------------------------------------------------
(* Properties.                                                             *)

\* The state has the shape of the C data: at most EVPROC_QUEUE_SIZE entries,
\* MAX_CALLBACK_COUNT slots per type.
TypeOK ==
  /\ pst_evList \in Seq(Entry) /\ Len(pst_evList) <= EVPROC_QUEUE_SIZE
  /\ pst_regList \in [EventType -> [Slot -> Callback \cup {NULL}]]
  /\ c_isInit \in BOOLEAN
  /\ frames \in Seq(Frame)
  /\ initIdx \in 0 .. EVPROC_QUEUE_SIZE + 1

\* A low-priority event is pending at most once for the same data, whatever
\* mixture of head puts, tail puts, interrupts and re-initialisations led
\* there (evproc_putEvent, "Event has low priority and already in a queue").
NoDuplicatePending ==
  \A i, k \in 1 .. Len(pst_evList) :
    /\ pst_evList[i].c_event = pst_evList[k].c_event
    /\ pst_evList[i].p_data = pst_evList[k].p_data
    /\ pst_evList[i].c_event \notin Oblig \cup {NONE}
    => i = k

\* No callback list has a NULL slot before a used one: _evproc_processEvent
\* stops at the first NULL, so a hole would silence every later callback.
NoHoles ==
  \A t \in EventType : \A j, k \in Slot :
    pst_regList[t][j] = NULL /\ j <= k => pst_regList[t][k] = NULL

\* No function is registered twice for one event type, so one event never
\* calls it twice through two slots (evproc_regCallback, E_FUNC_IN_LIST).
NoDoubleRegistration ==
  \A t \in EventType : \A j, k \in Slot :
    pst_regList[t][j] = pst_regList[t][k] /\ pst_regList[t][j] # NULL => j = k

\* Once evproc_init has returned, no event that was pending when it was
\* called is left, although interrupt handlers shift and extend the queue
\* while its unprotected loop runs (evproc.h: "pending events will not be
\* executed").
ResetErasesPending ==
  ~Initialising => \A i \in 1 .. Len(pst_evList) : ~pst_evList[i].old

\* When _evproc_processEvent is about to return, it has called every function
\* that was registered for the event during the whole activation, even if
\* callbacks registered, re-registered or re-initialised in between.
EveryRegisteredCalled ==
  frames # <<>> /\ ~Initialising =>
    LET f == Head(frames) IN
    f.run = NULL /\ SlotAt(f) = NULL => f.must \subseteq f.called

-----------------------------------------------------------------------------
(* What a comment promises.                                                *)

\* _evproc_init "resets the internal queue and the registered callbacks": with
\* no interrupt in between, the queue is empty when it returns.
ResetEmptiesQueue == [][InitEnd => pst_evList' = <<>>]_evVars

=============================================================================
