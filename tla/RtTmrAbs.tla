------------------------------ MODULE RtTmrAbs ------------------------------
(***************************************************************************)
(* What the real-time timer service (utils/src/rt_tmr.c) promises to its   *)
(* users, without lists: a running timer has a number of ticks left; every *)
(* tick of the clock triggers exactly the running timers that have none    *)
(* left, the most overdue first, and their callbacks may create, start and *)
(* stop timers themselves.                                                 *)
(***************************************************************************)
EXTENDS Integers

CONSTANTS
  Tmr,       \* timer objects
  Period,    \* periods that users ask for
  NONE

VARIABLES
  state,     \* operating state of each timer
  periodic,  \* is the timer periodic?
  period,    \* its period
  left,      \* ticks left of a running timer
  updating   \* is the tick being processed?

absVars == <<state, periodic, period, left, updating>>

State == {"INIT", "CREATED", "RUNNING", "STOPPED"}

AbsInit ==
  /\ state = [t \in Tmr |-> "INIT"]
  /\ periodic = [t \in Tmr |-> FALSE]
  /\ period = [t \in Tmr |-> 0]
  /\ left = [t \in Tmr |-> 0]
  /\ updating = FALSE

Running == {t \in Tmr : state[t] = "RUNNING"}

Due == {t \in Running : left[t] <= 0}

Create(t, per, p) ==
  /\ state[t] \in {"INIT", "STOPPED"}
  /\ state' = [state EXCEPT ![t] = "CREATED"]
  /\ periodic' = [periodic EXCEPT ![t] = per]
  /\ period' = [period EXCEPT ![t] = p]
  /\ left' = [left EXCEPT ![t] = 0]
  /\ UNCHANGED updating

Start(t) ==
  /\ state[t] \in {"CREATED", "STOPPED"}
  /\ state' = [state EXCEPT ![t] = "RUNNING"]
  /\ left' = [left EXCEPT ![t] = period[t]]
  /\ UNCHANGED <<periodic, period, updating>>

Stop(t) ==
  /\ state' = [state EXCEPT ![t] = "STOPPED"]
  /\ left' = [left EXCEPT ![t] = 0]
  /\ UNCHANGED <<periodic, period, updating>>

\* the clock ticks
ClockTick ==
  /\ ~updating
  /\ updating' = TRUE
  /\ left' = [t \in Tmr |-> IF t \in Running THEN left[t] - 1 ELSE left[t]]
  /\ UNCHANGED <<state, periodic, period>>

\* a due timer triggers; a periodic one runs again at once
Trigger(t) ==
  /\ updating
  /\ t \in Due
  /\ \A u \in Running : left[t] <= left[u]
  /\ state' = [state EXCEPT ![t] = IF periodic[t] THEN "RUNNING" ELSE "STOPPED"]
  /\ left' = [left EXCEPT ![t] = IF periodic[t] THEN period[t] ELSE 0]
  /\ UNCHANGED <<periodic, period, updating>>

\* the tick is over only when no running timer is due
TickDone ==
  /\ updating
  /\ Due = {}
  /\ updating' = FALSE
  /\ UNCHANGED <<state, periodic, period, left>>

AbsNext ==
  \/ \E t \in Tmr : Start(t) \/ Stop(t) \/ Trigger(t)
  \/ \E t \in Tmr, per \in BOOLEAN, p \in Period : Create(t, per, p)
  \/ ClockTick
  \/ TickDone

AbsSpec == AbsInit /\ [][AbsNext]_absVars

=============================================================================
