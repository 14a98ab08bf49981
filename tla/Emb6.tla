-------------------------------- MODULE Emb6 --------------------------------
(***************************************************************************)
(* The life cycle of the stack (emb6/emb6.c): initialisation, start, stop  *)
(* and the status reports, running on the event processor of EvProc.       *)
(*                                                                         *)
(* The main context executes "script", the steps that emb6_init,           *)
(* emb6_start or emb6_stop have still to do.  Only evproc_init and         *)
(* loc_set_status touch the queue that interrupt handlers share, so        *)
(* everything between two of them is one step.                             *)
(***************************************************************************)
EXTENDS EvProc

CONSTANTS
  ReqInit, ReqStart, ReqStop,   \* EVENT_TYPE_REQ_INIT, _START, _STOP
  AppEvent,                     \* an event whose callback is the application
  LocCb,                        \* loc_event_callback
  App,                          \* a callback of the application
  StatusPtr                     \* &ps_stack->status

ReqType == {ReqInit, ReqStart, ReqStop}

\* (MAX_CALLBACK_COUNT is 13 in evproc.h; the five events are distinct members of
\* the enumeration there.)
ASSUME Emb6Assumption ==
  /\ {ReqInit, ReqStart, ReqStop, AppEvent, StatusChange} \subseteq EventType \ Oblig
  /\ StatusChange \notin ReqType \cup {AppEvent} /\ AppEvent \notin ReqType
  /\ ReqInit # ReqStart /\ ReqInit # ReqStop /\ ReqStart # ReqStop
  /\ MAX_CALLBACK_COUNT >= 2
  /\ {LocCb, App} \subseteq Callback /\ LocCb # App
  /\ StatusPtr \in Data

VARIABLES
  build,    \* the flags EMB6_NO_AUTOSTART and EMB6_INIT_ROOT it was built with
  status,   \* ps_stack->status, INIT_WAIT while ps_stack is NULL
  radio,    \* has dllc->on succeeded since the last dllc->off?
  dag,      \* rpl_get_any_dag() # NULL
  script,   \* what the running emb6_init, emb6_start or emb6_stop has to do;
            \* <<"halt">> when emb6_errorHandler spins
  phase,    \* the loop of emb6_process: "event" or "check"
  seen,     \* history: the status the application saw last
  lost      \* history: the last status report was rejected by a full queue

lifeVars == <<build, status, radio, dag, script, phase, seen, lost>>
vars == <<evVars, lifeVars>>

Build == [EMB6_NO_AUTOSTART: BOOLEAN, EMB6_INIT_ROOT: BOOLEAN]

Status == {"INIT_WAIT", "IDLE", "ACTIVE", "NETWORK", "ERROR"}

-----------------------------------------------------------------------------
(* The scripts of the three entry points.                                  *)

InitScript ==
  <<"evproc_init", "bring_up", IF build.EMB6_NO_AUTOSTART THEN "IDLE" ELSE "ACTIVE">>

StopScript == <<"evproc_init", "dllc_off", "IDLE">>

\* emb6_start does nothing when the stack is already active
StartScript == IF status = "ACTIVE" THEN <<>> ELSE InitScript \o <<"dllc_on", "ACTIVE">>

\* mutant: the request callbacks are not registered again on a status change
HandlerScriptNoReg(t) ==
  CASE t = ReqInit -> InitScript
    [] t = ReqStart -> StartScript
    [] t = ReqStop -> StopScript
    [] OTHER -> <<>>

\* loc_event_callback
HandlerScript(t) ==
  CASE t = StatusChange -> <<"register">>
    [] t = ReqInit -> InitScript
    [] t = ReqStart -> StartScript
    [] t = ReqStop -> StopScript
    [] OTHER -> <<>>

-----------------------------------------------------------------------------
(* Steps of the scripts.                                                   *)

Running(step) == script # <<>> /\ ~Initialising /\ Head(script) = step

\* loc_set_status: the result of evproc_putEvent is ignored
SetStatus(s) ==
  /\ status' = s
  /\ pst_evList' = PutTail(pst_evList, StatusChange, StatusPtr)
  /\ lost' = QueueFull(pst_evList)

ReportStatus ==
  /\ script # <<>> /\ ~Initialising /\ Head(script) \in Status
  /\ SetStatus(Head(script))
  /\ script' = Tail(script)
  /\ UNCHANGED <<pst_regList, c_isInit, frames, initIdx, radio, dag, phase, seen, build>>

RegisterRequests(reg) ==
  RegCallback(RegCallback(RegCallback(reg, ReqInit, LocCb), ReqStart, LocCb), ReqStop, LocCb)

\* the STATUS_CHANGE branch of loc_event_callback
RegisterStep ==
  /\ Running("register")
  /\ pst_regList' = RegisterRequests(pst_regList)
  /\ script' = Tail(script)
  /\ UNCHANGED <<pst_evList, c_isInit, frames, initIdx, status, radio, dag, phase, seen, lost, build>>

\* the middle of emb6_init: the layers, the demos and dllc->on succeed and the
\* callbacks are registered; rpl_init forgets every DAG, a root creates one
BringUp ==
  /\ Running("bring_up")
  /\ LET reg == RegCallback(RegCallback(pst_regList, AppEvent, App), StatusChange, App)
     IN pst_regList' = RegisterRequests(RegCallback(reg, StatusChange, LocCb))
  /\ script' = Tail(script)
  /\ radio' = TRUE /\ dag' = build.EMB6_INIT_ROOT
  /\ UNCHANGED <<pst_evList, c_isInit, frames, initIdx, status, phase, seen, lost, build>>

\* a layer fails: emb6_errorHandler reports and never returns
BringUpFails ==
  /\ Running("bring_up")
  /\ script' = <<"halt">>
  /\ IF status = "INIT_WAIT" THEN UNCHANGED <<status, pst_evList, lost>>
                             ELSE SetStatus("ERROR")
  /\ UNCHANGED <<pst_regList, c_isInit, frames, initIdx, radio, dag, phase, seen, build>>

\* mutant: the result of dllc->on is not looked at
DllcOnUnchecked ==
  /\ Running("dllc_on")
  /\ script' = Tail(script) /\ radio' \in BOOLEAN
  /\ UNCHANGED <<evVars, status, dag, phase, seen, lost, build>>

\* the second dllc->on of emb6_start; when it fails the stack is stopped
DllcOn ==
  /\ Running("dllc_on")
  /\ \/ script' = Tail(script) /\ radio' = TRUE
     \/ script' = StopScript /\ radio' = FALSE
  /\ UNCHANGED <<evVars, status, dag, phase, seen, lost, build>>

\* dllc->off of emb6_stop
DllcOff ==
  /\ Running("dllc_off")
  /\ script' = Tail(script) /\ radio' = FALSE
  /\ UNCHANGED <<evVars, status, dag, phase, seen, lost, build>>

\* evproc_init called from a script
ResetBegin ==
  /\ Running("evproc_init")
  /\ InitBegin
  /\ UNCHANGED lifeVars

ResetLoop == InitClear /\ UNCHANGED lifeVars

ResetEnd ==
  /\ InitEnd
  /\ script' = Tail(script)
  /\ UNCHANGED <<status, radio, dag, phase, seen, lost, build>>

-----------------------------------------------------------------------------
(* The main loop and its callbacks.                                        *)

InLoop == status # "INIT_WAIT" /\ script = <<>> /\ Idle

\* the application calls emb6_init for the first time
Boot ==
  /\ status = "INIT_WAIT" /\ script = <<>>
  /\ script' = InitScript
  /\ UNCHANGED <<evVars, status, radio, dag, phase, seen, lost, build>>

\* one turn of emb6_process: at most one event ...
TakeEvent ==
  /\ InLoop /\ phase = "event"
  /\ phase' = "check"
  /\ IF pst_evList = <<>> THEN UNCHANGED evVars ELSE NextEvent
  /\ UNCHANGED <<status, radio, dag, script, seen, lost, build>>

Connected == build.EMB6_INIT_ROOT \/ dag

\* mutant: losing the DAG is not noticed
CheckNetworkOnce ==
  /\ InLoop /\ phase = "check"
  /\ phase' = "event"
  /\ IF status = "ACTIVE" /\ Connected THEN SetStatus("NETWORK")
     ELSE UNCHANGED <<status, pst_evList, lost>>
  /\ UNCHANGED <<pst_regList, c_isInit, frames, initIdx, radio, dag, script, seen, build>>

\* mutant: the change back to ACTIVE is assigned without a report
CheckNetworkSilent ==
  /\ InLoop /\ phase = "check"
  /\ phase' = "event"
  /\ CASE status = "ACTIVE" /\ Connected -> SetStatus("NETWORK")
       [] status = "NETWORK" /\ ~Connected -> status' = "ACTIVE" /\ UNCHANGED <<pst_evList, lost>>
       [] OTHER -> UNCHANGED <<status, pst_evList, lost>>
  /\ UNCHANGED <<pst_regList, c_isInit, frames, initIdx, radio, dag, script, seen, build>>

\* ... then the check whether RPL has joined or left a DAG
CheckNetwork ==
  /\ InLoop /\ phase = "check"
  /\ phase' = "event"
  /\ CASE status = "ACTIVE" /\ Connected -> SetStatus("NETWORK")
       [] status = "NETWORK" /\ ~Connected -> SetStatus("ACTIVE")
       [] OTHER -> UNCHANGED <<status, pst_evList, lost>>
  /\ UNCHANGED <<pst_regList, c_isInit, frames, initIdx, radio, dag, script, seen, build>>

\* the loop of _evproc_processEvent calls loc_event_callback or the application
Callbacks ==
  /\ script = <<>> /\ CallNext
  /\ LET f == Head(frames') IN
     /\ script' = IF f.run = LocCb THEN HandlerScript(f.ev) ELSE <<>>
     /\ seen' = IF f.run = App /\ f.ev = StatusChange THEN status ELSE seen
  /\ UNCHANGED <<status, radio, dag, phase, lost, build>>

\* code of the application runs: one of its callbacks, or its own loop when
\* it calls emb6_process turn by turn
AppRuns ==
  \/ InLoop /\ phase = "event"
  \/ frames # <<>> /\ ~Initialising /\ script = <<>> /\ Head(frames).run = App

\* the application asks to initialise, start or stop the stack
Request(t) ==
  /\ AppRuns
  /\ MainPut(t, NULL)
  /\ UNCHANGED lifeVars

\* the application calls emb6_stop or emb6_start itself
Call ==
  /\ AppRuns
  /\ script' \in {StopScript, StartScript}
  /\ UNCHANGED <<evVars, status, radio, dag, phase, seen, lost, build>>

Return == script = <<>> /\ (CallbackReturn \/ ProcessReturn) /\ UNCHANGED lifeVars

\* RPL joins or leaves a DAG in some callback
DagChange ==
  /\ status \in {"ACTIVE", "NETWORK"} /\ frames # <<>> /\ ~Initialising /\ script = <<>>
  /\ dag' = ~dag
  /\ UNCHANGED <<evVars, status, radio, script, phase, seen, lost, build>>

\* an interrupt handler of the initialised hardware puts its event
Interrupt(e) ==
  /\ status # "INIT_WAIT"
  /\ IsrPut(e[1], e[2])
  /\ UNCHANGED lifeVars

-----------------------------------------------------------------------------
LifeInit ==
  /\ Init
  /\ build \in Build
  /\ status = "INIT_WAIT" /\ radio = FALSE /\ dag = FALSE
  /\ script = <<>> /\ phase = "event"
  /\ seen = "INIT_WAIT" /\ lost = FALSE

LifeNext ==
  \/ Boot \/ TakeEvent \/ CheckNetwork \/ Callbacks \/ Return
  \/ ReportStatus \/ RegisterStep \/ BringUp \/ BringUpFails \/ DllcOn \/ DllcOff
  \/ ResetBegin \/ ResetLoop \/ ResetEnd
  \/ Call \/ DagChange
  \/ \E t \in ReqType : Request(t)
  \/ \E e \in IsrEvent : Interrupt(e)

LifeSpec == LifeInit /\ [][LifeNext]_vars

-----------------------------------------------------------------------------
(* Properties.                                                             *)

ReportPending == LookupEvent(pst_evList, StatusChange, StatusPtr)

Hears(t) == LocCb \in Registered(pst_regList, t)

\* The state has the shape of the C data.
LifeTypeOK ==
  /\ TypeOK
  /\ build \in Build
  /\ status \in Status /\ seen \in Status
  /\ {radio, dag, lost} \subseteq BOOLEAN
  /\ phase \in {"event", "check"}

\* Between two turns of the main loop the stack can be asked to stop, start or
\* initialise again, or a status report is queued whose callback will make
\* that possible; only a rejected report (lost) can leave it deaf.
RequestsHeard ==
  InLoop => lost \/ (\A t \in ReqType : Hears(t)) \/ (ReportPending /\ Hears(StatusChange))

\* The application's view of the status is current, or a report is queued,
\* although the reports carry only a pointer and several changes share one.
ApplicationInformed == InLoop => lost \/ seen = status \/ ReportPending

\* Between two turns the stack is reported active or connected only while the
\* data link layer is on, also when the second dllc->on of emb6_start failed.
ActiveImpliesRadio == InLoop /\ status \in {"ACTIVE", "NETWORK"} => radio

\* A stack whose status is connected has a DAG whenever the loop starts a turn.
NetworkImpliesDag ==
  InLoop /\ phase = "event" /\ status = "NETWORK" => Connected

-----------------------------------------------------------------------------
(* What a comment promises.                                                *)

\* emb6_init: "register to initialization request events": a request that is
\* taken from the queue finds loc_event_callback registered for it.
RequestsServed ==
  [][TakeEvent /\ pst_evList # <<>> =>
       LET t == pst_evList[Len(pst_evList)].c_event IN t \in ReqType => Hears(t)]_vars

=============================================================================
