------------------------------- MODULE Timers -------------------------------
(***************************************************************************)
(* Event timers and callback timers (utils/src/timer.c, etimer.c,          *)
(* ctimer.c) over the event queue, as the main loop of emb6_process drives *)
(* them: take one event, run its callback, poll the timers.                *)
(*                                                                         *)
(* An etimer that expires leaves its list and puts a TIMER_EXP event that  *)
(* carries the address of the timer; the callback runs when the event is   *)
(* taken, which may be much later.  Everything in between can see a timer  *)
(* that has expired but has not been announced.                            *)
(*                                                                         *)
(* The tick counter is W bits wide.  Ticks come only while no timer that   *)
(* still has to be served is more than MaxLate ticks overdue (the main     *)
(* loop turns much faster than the 32-bit counter), so a difference of two *)
(* ticks has one signed meaning, Elapsed.                                  *)
(***************************************************************************)
EXTENDS Integers, Sequences, FiniteSets, SequencesExt

CONSTANTS
  CTimer,             \* callback timers (struct ctimer, with their etimer)
  ETimer,             \* plain event timers, handled as tcpip.c does
  Interval,           \* intervals clients use
  W,                  \* width of clock_time_t
  MaxLate,            \* bound: how late the main loop may be
  EVPROC_QUEUE_SIZE,
  IsrEvent,           \* other events, put at the head by interrupt handlers
  NONE

Timer == CTimer \cup ETimer
Tick == 0 .. 2^W - 1

ASSUME TimersAssumption ==
  /\ W \in Nat \ {0}
  /\ 2^W \in Nat /\ 2^(W - 1) \in Nat /\ 2^W = 2 * 2^(W - 1)
  /\ MaxLate \in Nat
  /\ Interval \subseteq Nat \ {0}
  /\ \A i \in Interval \cup {0} : i + MaxLate + 1 < 2^(W - 1)
  /\ EVPROC_QUEUE_SIZE \in Nat \ {0}
  /\ CTimer \cap ETimer = {} /\ NONE \notin Timer
  /\ IsrEvent \cap Timer = {}

VARIABLES
  now,       \* bsp_getTick()
  start,     \* timer.start of each timer
  interval,  \* timer.interval
  active,    \* the etimer's flag
  etimList,  \* gp_etimList
  ctimList,  \* gp_ctimList
  evList,    \* pending events, next one last; a TIMER_EXP event is its timer
  pc,        \* the main context: "init", "event", "callback" or "poll"
  running,   \* the event whose callback runs in "callback"
  toPoll,    \* timers the running etimer_request_poll has still to visit
  lost,      \* history: timers whose TIMER_EXP event was rejected
  stale,     \* history: timers started while an older event was pending
  stopped,   \* history: timers stopped and not started since
  calls      \* history: callback runs since the timer was armed or stopped

vars == <<now, start, interval, active, etimList, ctimList, evList, pc,
          running, toPoll, lost, stale, stopped, calls>>
history == <<lost, stale, stopped, calls>>

-----------------------------------------------------------------------------
(* timer.c                                                                 *)

\* mutant: the tick counter is assumed never to wrap
TimerExpiredNoWrap(t) == interval[t] < now - start[t]

\* mutant: expired as soon as the interval has elapsed
TimerExpiredEarly(t) ==
  interval[t] <= IF now >= start[t] THEN now - start[t]
                                    ELSE (2^W - 1) - start[t] + now + 1

\* timer_expired: the elapsed time, read modulo the width, exceeds the interval
TimerExpired(t) ==
  interval[t] < IF now >= start[t] THEN now - start[t]
                                   ELSE (2^W - 1) - start[t] + now + 1

\* ticks really elapsed since start, negative when it lies in the future
Elapsed(t) == ((now - start[t] + 2^(W - 1)) % 2^W) - 2^(W - 1)

-----------------------------------------------------------------------------
(* Lists and queue.                                                        *)

\* list_remove unlinks the first occurrence
ListRemove(l, x) == RemoveFirst(l, x)

\* list_add: an element already in the list moves to its end
ListAdd(l, x) == Append(ListRemove(l, x), x)

InList(l, x) == \E i \in 1 .. Len(l) : l[i] = x

Pending(x) == InList(evList, x)

QueueFull == Len(evList) = EVPROC_QUEUE_SIZE

\* evproc_putEvent(E_EVPROC_TAIL, ..) and (E_EVPROC_HEAD, ..)
PutTail(x) == evList' = IF QueueFull \/ Pending(x) THEN evList ELSE <<x>> \o evList
PutHead(x) == evList' = IF QueueFull \/ Pending(x) THEN evList ELSE Append(evList, x)

-----------------------------------------------------------------------------
(* Operations of client code, which runs in the callback of an event or,    *)
(* before the main loop starts, in the initialisation of the modules.      *)

ClientRuns == pc \in {"init", "callback"}

\* the history of a timer that is armed
Armed(t) ==
  /\ lost' = lost \ {t}
  /\ calls' = [calls EXCEPT ![t] = 0]

\* a timer started from now is stale if an older event of it is still queued
StartNow(t) ==
  /\ start' = [start EXCEPT ![t] = now]
  /\ stale' = IF Pending(t) THEN stale \cup {t} ELSE stale \ {t}
  /\ stopped' = stopped \ {t}

\* a callback timer goes to the end of its own list as well
AddCtimer(t) == ctimList' = IF t \in CTimer THEN ListAdd(ctimList, t) ELSE ctimList

\* _etimer_addTimer
AddTimer(t) ==
  /\ etimList' = ListAdd(etimList, t)
  /\ active' = [active EXCEPT ![t] = TRUE]
  /\ AddCtimer(t)

\* etimer_set / ctimer_set
Set(t, i) ==
  /\ ClientRuns
  /\ interval' = [interval EXCEPT ![t] = i]
  /\ StartNow(t)
  /\ AddTimer(t)
  /\ Armed(t)
  /\ UNCHANGED <<now, evList, pc, running, toPoll>>

\* etimer_restart / ctimer_restart of a timer that has been set before
Restart(t) ==
  /\ ClientRuns
  /\ interval[t] # 0
  /\ StartNow(t)
  /\ AddTimer(t)
  /\ Armed(t)
  /\ UNCHANGED <<now, interval, evList, pc, running, toPoll>>

\* timer_reset: the next period begins where the last one ended
NextStart(t) == (start[t] + interval[t]) % 2^W

\* etimer_reset / ctimer_reset: every caller is the callback of the timer,
\* which has not armed the timer before
Reset(t) ==
  /\ pc = "callback" /\ running = t /\ calls[t] = 1
  /\ start' = [start EXCEPT ![t] = NextStart(t)]
  /\ AddTimer(t)
  /\ Armed(t)
  /\ UNCHANGED <<now, interval, evList, pc, running, toPoll, stale, stopped>>

\* mutant: ctimer_stop leaves the timer in the list of callback timers
StopKeepsCtimer(t) ==
  /\ ClientRuns
  /\ etimList' = ListRemove(etimList, t)
  /\ active' = [active EXCEPT ![t] = FALSE]
  /\ stopped' = stopped \cup {t} /\ calls' = [calls EXCEPT ![t] = 0]
  /\ UNCHANGED <<now, start, interval, ctimList, evList, pc, running, toPoll, lost, stale>>

\* the second half of ctimer_stop
RemoveCtimer(t) == ctimList' = ListRemove(ctimList, t)

\* etimer_stop / ctimer_stop: a TIMER_EXP event already queued stays there
Stop(t) ==
  /\ ClientRuns
  /\ etimList' = ListRemove(etimList, t)
  /\ RemoveCtimer(t)
  /\ active' = [active EXCEPT ![t] = FALSE]
  /\ stopped' = stopped \cup {t} /\ calls' = [calls EXCEPT ![t] = 0]
  /\ UNCHANGED <<now, start, interval, evList, pc, running, toPoll, lost, stale>>

-----------------------------------------------------------------------------
(* The main loop.                                                          *)

\* mutant: the callback timer stays in its list while its callback runs
FireKeepsListed(t) ==
  /\ InList(ctimList, t)
  /\ calls' = [calls EXCEPT ![t] = @ + 1]
  /\ UNCHANGED ctimList

\* _ctimer_refresh: the timer is unlinked and its function called, if listed
Fire(t) ==
  /\ InList(ctimList, t)
  /\ ctimList' = ListRemove(ctimList, t)
  /\ calls' = [calls EXCEPT ![t] = @ + 1]

\* mutant: the handler trusts the event and does not ask etimer_expired
HandleUnchecked(t) ==
  /\ calls' = [calls EXCEPT ![t] = @ + 1]
  /\ UNCHANGED ctimList

\* etimer_expired: a stopped timer reads as expired too
EtimerExpired(t) == ~active[t]

\* eventhandler of tcpip.c: the event's timer must also read as expired
Handle(t) ==
  /\ EtimerExpired(t)
  /\ calls' = [calls EXCEPT ![t] = @ + 1]
  /\ UNCHANGED ctimList

\* evproc_nextEvent takes the event at the high end
TakeEvent ==
  /\ pc = "event" /\ evList # <<>>
  /\ evList' = Front(evList)
  /\ UNCHANGED <<now, start, interval, active, etimList, toPoll, lost, stale, stopped>>

RunCallback(x) == pc' = "callback" /\ running' = x

\* a TIMER_EXP event that the callback of its timer acts on
Expire(t) ==
  /\ TakeEvent
  /\ Last(evList) = t
  /\ IF t \in CTimer THEN Fire(t) ELSE Handle(t)
  /\ RunCallback(t)

\* a TIMER_EXP event that no callback acts on
Ignore ==
  /\ TakeEvent
  /\ LET x == Last(evList) IN
     \/ x \in CTimer /\ ~InList(ctimList, x)
     \/ x \in ETimer /\ ~EtimerExpired(x)
  /\ pc' = "poll"
  /\ UNCHANGED <<ctimList, running, calls>>

\* any other event: its callbacks are clients too
OtherEvent ==
  /\ TakeEvent
  /\ Last(evList) \in IsrEvent
  /\ RunCallback(Last(evList))
  /\ UNCHANGED <<ctimList, calls>>

\* evproc_nextEvent with an empty queue, E_QUEUE_EMPTY
NoEvent ==
  /\ pc = "event" /\ evList = <<>>
  /\ pc' = "poll"
  /\ UNCHANGED <<now, start, interval, active, etimList, ctimList, evList, running, toPoll, history>>

\* the modules are initialised and emb6_process begins, or a callback is over
ClientReturn ==
  /\ ClientRuns
  /\ pc' = IF pc = "init" THEN "event" ELSE "poll"
  /\ running' = NONE
  /\ UNCHANGED <<now, start, interval, active, etimList, ctimList, evList, toPoll, history>>

\* etimer_request_poll starts with the head of the list
PollBegin ==
  /\ pc = "poll" /\ toPoll = <<>>
  /\ toPoll' = etimList
  /\ pc' = IF etimList = <<>> THEN "event" ELSE "poll"
  /\ UNCHANGED <<now, start, interval, active, etimList, ctimList, evList, running, history>>

\* one iteration of its loop; the result of evproc_putEvent is ignored
PollOne ==
  /\ pc = "poll" /\ toPoll # <<>>
  /\ toPoll' = Tail(toPoll)
  /\ pc' = IF Len(toPoll) = 1 THEN "event" ELSE "poll"
  /\ LET t == Head(toPoll) IN
     IF TimerExpired(t)
       THEN /\ PutTail(t)
            /\ etimList' = ListRemove(etimList, t)
            /\ active' = [active EXCEPT ![t] = FALSE]
            /\ lost' = IF QueueFull THEN lost \cup {t} ELSE lost
       ELSE UNCHANGED <<evList, etimList, active, lost>>
  /\ UNCHANGED <<now, start, interval, ctimList, running, stale, stopped, calls>>

-----------------------------------------------------------------------------
(* The environment.                                                        *)

\* timers that still have to be served: listed, announced or in a callback
ToServe ==
  {t \in Timer : InList(etimList, t) \/ Pending(t) \/ (pc = "callback" /\ running = t)}

\* the tick interrupt
ClockTick ==
  /\ \A t \in ToServe : Elapsed(t) <= interval[t] + MaxLate
  /\ now' = (now + 1) % 2^W
  /\ UNCHANGED <<start, interval, active, etimList, ctimList, evList, pc, running, toPoll, history>>

\* another interrupt puts its event
IsrPut(x) ==
  /\ PutHead(x)
  /\ UNCHANGED <<now, start, interval, active, etimList, ctimList, pc, running, toPoll, history>>

-----------------------------------------------------------------------------
Init ==
  /\ now = 0
  /\ start = [t \in Timer |-> 0]
  /\ interval = [t \in Timer |-> 0]
  /\ active = [t \in Timer |-> FALSE]
  /\ etimList = <<>> /\ ctimList = <<>> /\ evList = <<>>
  /\ pc = "init" /\ running = NONE /\ toPoll = <<>>
  /\ lost = {} /\ stale = {} /\ stopped = {}
  /\ calls = [t \in Timer |-> 0]

Client == \E t \in Timer : (\E i \in Interval : Set(t, i)) \/ Restart(t) \/ Reset(t) \/ Stop(t)

MainLoop ==
  \/ \E t \in Timer : Expire(t)
  \/ Ignore
  \/ OtherEvent
  \/ NoEvent
  \/ ClientReturn
  \/ PollBegin
  \/ PollOne

Next == Client \/ MainLoop \/ ClockTick \/ \E x \in IsrEvent : IsrPut(x)

Spec == Init /\ [][Next]_vars

(***************************************************************************)
(* The main loop keeps turning and the tick interrupt keeps coming (SF:     *)
(* the bound MaxLate may hold ticks back for a while).                     *)
(* Interrupt handlers put their events in front of the timers' events, so  *)
(* a processor saturated with interrupts would starve every timer: again   *)
(* and again the loop finds the queue without interrupt events, and not    *)
(* every time is a new one put before the loop takes the timer's event.    *)
(***************************************************************************)
InterruptsPause == []<>(pc = "event" /\ \A x \in IsrEvent : ~Pending(x))

FairSpec ==
  /\ Spec
  /\ SF_vars(ClockTick)
  /\ WF_vars(MainLoop)
  /\ SF_vars(Ignore)
  /\ \A t \in Timer : SF_vars(Expire(t))
  /\ InterruptsPause

-----------------------------------------------------------------------------
(* Properties.                                                             *)

\* The state has the shape of the C data; a list never holds a timer twice.
TypeOK ==
  /\ now \in Tick /\ start \in [Timer -> Tick]
  /\ interval \in [Timer -> Interval \cup {0}]
  /\ active \in [Timer -> BOOLEAN]
  /\ etimList \in Seq(Timer) /\ IsInjective(etimList)
  /\ ctimList \in Seq(CTimer) /\ IsInjective(ctimList)
  /\ evList \in Seq(Timer \cup IsrEvent) /\ Len(evList) <= EVPROC_QUEUE_SIZE
  /\ pc \in {"init", "event", "callback", "poll"}
  /\ running \in Timer \cup IsrEvent \cup {NONE}
  /\ toPoll \in Seq(Timer)

\* An armed callback timer is never forgotten: it is counting, or its event
\* is queued, or the queue rejected the event (etimer_request_poll).
NotForgotten ==
  \A t \in CTimer : InList(ctimList, t) =>
    InList(etimList, t) \/ Pending(t) \/ t \in lost

\* A callback timer's function runs before the interval is over only if the
\* timer was started while an older TIMER_EXP event of it was queued, or has
\* been reset ever since such an early run.
EarlyOnlyIfStale ==
  [][\A t \in CTimer :
       Expire(t) /\ Elapsed(t) <= interval[t] => t \in stale]_vars

\* A handler that also asks etimer_expired never acts before the interval of
\* the last arming is over, whatever older events are still queued, unless
\* the timer had been stopped (which etimer_expired cannot tell from expired).
HandlerNeverEarly ==
  [][\A t \in ETimer :
       Expire(t) /\ t \notin stopped => interval[t] < Elapsed(t)]_vars

\* One arming of a callback timer leads to at most one run of its function,
\* although an older event and the real expiry may both be delivered.
AtMostOneCallPerArming == \A t \in CTimer : calls[t] <= 1

\* After ctimer_stop the function is not called until the timer is armed
\* again, even when the TIMER_EXP event was already queued (ctimer.h: "will
\* not call the callback function").
StoppedCtimerSilent ==
  [][\A t \in CTimer : Expire(t) => t \notin stopped]_vars

\* A callback timer that is armed, and not started over and over again, is
\* eventually served or stopped, unless the queue rejected its event.
ArmedIsServed ==
  \A t \in CTimer :
    \/ []<><<Restart(t) \/ \E i \in Interval : Set(t, i)>>_vars
    \/ InList(ctimList, t) ~> (~InList(ctimList, t) \/ t \in lost)

-----------------------------------------------------------------------------
(* What the documentation promises.                                        *)

\* ctimer.h on ctimer_restart: the timer "will start at the current time", so
\* its function must not run before the interval has passed again.
NeverEarly ==
  [][\A t \in CTimer : Expire(t) => interval[t] < Elapsed(t)]_vars

=============================================================================
