------------------------------- MODULE RtTmr --------------------------------
(***************************************************************************)
(* The real-time timers (utils/src/rt_tmr.c): a doubly linked list of the  *)
(* running timers, ordered by the tick at which they expire, that the main *)
(* context changes in critical sections and the tick interrupt walks.      *)
(*                                                                         *)
(* Pointers are modelled as they are: head, tail, pnext and pprev are      *)
(* timers or NULL, and every assignment through a pointer is one EXCEPT.   *)
(* The tick counter and the timers' counters are W bits wide; ticks stop   *)
(* at MaxTick.                                                             *)
(***************************************************************************)
EXTENDS Integers, Sequences, FiniteSets

CONSTANTS
  Tmr,       \* timer objects
  Period,    \* periods that users ask for
  W,         \* width of rt_tmr_tick_t
  MaxTick,   \* bound on TmrCurTick
  NULL       \* the null pointer

\* (2^W \in Nat is a fact of arithmetic that the provers do not know.)
ASSUME RtTmrAssumption ==
  /\ IsFiniteSet(Tmr)
  /\ Period \subseteq Nat \ {0}
  /\ W \in Nat \ {0} /\ 2^W \in Nat /\ MaxTick \in 0 .. 2^W - 1
  /\ NULL \notin Tmr

VARIABLES
  pTmrListHead, pTmrListTail, TmrListQty, TmrCurTick,
  pnext, pprev, periodic, period, counter, state,
  updating,  \* rt_tmr_update, the tick interrupt, is in its loop
  callback   \* the timer whose callback it is running, or NULL

links == <<pTmrListHead, pTmrListTail, TmrListQty, pnext, pprev>>
vars == <<links, TmrCurTick, periodic, period, counter, state, updating,
          callback>>

Ptr == Tmr \cup {NULL}

-----------------------------------------------------------------------------
(* rt_tmr_link and rt_tmr_unlink.  A list is [head, tail, qty, next, prev]. *)

TheList ==
  [head |-> pTmrListHead, tail |-> pTmrListTail, qty |-> TmrListQty,
   next |-> pnext, prev |-> pprev]

\* the node reached from p by i steps along nxt
Walk(nxt, p, n) ==
  LET at[i \in 0 .. n] ==
        IF i = 0 THEN p ELSE IF at[i - 1] = NULL THEN NULL ELSE nxt[at[i - 1]]
  IN at

\* mutant: the search stops at the second node
InsertionPlaceShort(l, ctr, c) ==
  LET at == Walk(l.next, l.head, l.qty)
      ends == {i \in 0 .. l.qty : i \in {1, l.qty} \/ ctr[at[i]] >= c}
  IN at[CHOOSE i \in ends : \A k \in ends : i <= k]

\* the search loop of rt_tmr_link: the first node that is not earlier than c
InsertionPlace(l, ctr, c) ==
  LET at == Walk(l.next, l.head, l.qty)
      ends == {i \in 0 .. l.qty : i = l.qty \/ ctr[at[i]] >= c}
  IN at[CHOOSE i \in ends : \A k \in ends : i <= k]

\* mutant: linking in the middle forgets the back pointer of the right neighbour
LinkNoBack(l, ctr, new) ==
  LET found == InsertionPlace(l, ctr, ctr[new]) IN
  CASE l.head = NULL ->
         [l EXCEPT !.head = new, !.tail = new, !.qty = @ + 1]
    [] l.head # NULL /\ found = NULL ->
         [l EXCEPT !.next[l.tail] = new, !.prev[new] = l.tail, !.tail = new, !.qty = @ + 1]
    [] l.head # NULL /\ found = l.head ->
         [l EXCEPT !.next[new] = l.head, !.prev[l.head] = new, !.head = new, !.qty = @ + 1]
    [] OTHER ->
         [l EXCEPT !.next = [@ EXCEPT ![l.prev[found]] = new, ![new] = found],
                   !.prev = [@ EXCEPT ![new] = l.prev[found]],
                   !.qty = @ + 1]

\* rt_tmr_link
Link(l, ctr, new) ==
  LET found == InsertionPlace(l, ctr, ctr[new]) IN
  CASE l.head = NULL ->
         [l EXCEPT !.head = new, !.tail = new, !.qty = @ + 1]
    [] l.head # NULL /\ found = NULL ->
         [l EXCEPT !.next[l.tail] = new, !.prev[new] = l.tail, !.tail = new, !.qty = @ + 1]
    [] l.head # NULL /\ found = l.head ->
         [l EXCEPT !.next[new] = l.head, !.prev[l.head] = new, !.head = new, !.qty = @ + 1]
    [] OTHER ->
         [l EXCEPT !.next = [@ EXCEPT ![l.prev[found]] = new, ![new] = found],
                   !.prev = [@ EXCEPT ![new] = l.prev[found], ![found] = new],
                   !.qty = @ + 1]

\* the removed node no longer points into the list
Detach(l, rem) == [l EXCEPT !.next[rem] = NULL, !.prev[rem] = NULL, !.qty = @ - 1]

\* rt_tmr_unlink
Unlink(l, rem) ==
  Detach(CASE rem = l.head /\ l.next[rem] = NULL ->
                [l EXCEPT !.head = NULL, !.tail = NULL]
           [] rem = l.head /\ l.next[rem] # NULL ->
                [l EXCEPT !.head = l.next[rem], !.prev[l.next[rem]] = NULL]
           [] rem # l.head /\ rem = l.tail ->
                [l EXCEPT !.tail = l.prev[rem], !.next[l.prev[rem]] = NULL]
           [] OTHER ->
                [l EXCEPT !.next[l.prev[rem]] = l.next[rem],
                          !.prev[l.next[rem]] = l.prev[rem]],
         rem)

SetList(l) ==
  /\ pTmrListHead' = l.head /\ pTmrListTail' = l.tail /\ TmrListQty' = l.qty
  /\ pnext' = l.next /\ pprev' = l.prev

-----------------------------------------------------------------------------
(* Operations, called by the main context or by a timer callback.          *)

UserRuns == updating => callback # NULL

\* rt_tmr_create
Create(t, per, p) ==
  /\ UserRuns
  /\ state[t] \in {"INIT", "STOPPED"}
  /\ state' = [state EXCEPT ![t] = "CREATED"]
  /\ periodic' = [periodic EXCEPT ![t] = per]
  /\ period' = [period EXCEPT ![t] = p]
  /\ counter' = [counter EXCEPT ![t] = 0]
  /\ pnext' = [pnext EXCEPT ![t] = NULL] /\ pprev' = [pprev EXCEPT ![t] = NULL]
  /\ UNCHANGED <<pTmrListHead, pTmrListTail, TmrListQty, TmrCurTick, updating, callback>>

Expiry(t) == (TmrCurTick + period[t]) % 2^W

\* mutant: a running timer may be started again
StartTwice(t) ==
  /\ UserRuns
  /\ state[t] # "INIT"
  /\ counter' = [counter EXCEPT ![t] = Expiry(t)]
  /\ SetList(Link(TheList, counter', t))
  /\ state' = [state EXCEPT ![t] = "RUNNING"]
  /\ UNCHANGED <<TmrCurTick, periodic, period, updating, callback>>

\* rt_tmr_start
Start(t) ==
  /\ UserRuns
  /\ state[t] \in {"CREATED", "STOPPED"}
  /\ counter' = [counter EXCEPT ![t] = Expiry(t)]
  /\ SetList(Link(TheList, counter', t))
  /\ state' = [state EXCEPT ![t] = "RUNNING"]
  /\ UNCHANGED <<TmrCurTick, periodic, period, updating, callback>>

\* rt_tmr_stop
Stop(t) ==
  /\ UserRuns
  /\ IF state[t] = "RUNNING" THEN SetList(Unlink(TheList, t)) ELSE UNCHANGED links
  /\ state' = [state EXCEPT ![t] = "STOPPED"]
  /\ UNCHANGED <<TmrCurTick, periodic, period, counter, updating, callback>>

-----------------------------------------------------------------------------
(* The tick interrupt.                                                     *)

\* rt_tmr_update is entered
UpdateBegin ==
  /\ ~updating /\ TmrCurTick < MaxTick
  /\ updating' = TRUE
  /\ TmrCurTick' = TmrCurTick + 1
  /\ UNCHANGED <<links, periodic, period, counter, state, callback>>

\* mutant: a timer that expires in this very tick waits for the next one
HeadDueLate == pTmrListHead # NULL /\ counter[pTmrListHead] < TmrCurTick

HeadDue == pTmrListHead # NULL /\ counter[pTmrListHead] <= TmrCurTick

\* one turn of its loop: the head is unlinked, a periodic timer linked again,
\* then the callback is called (its operations are separate steps)
UpdateFire ==
  /\ updating /\ callback = NULL /\ HeadDue
  /\ callback' = pTmrListHead
  /\ LET t == pTmrListHead
         l == Unlink(TheList, t)
     IN IF periodic[t]
          THEN /\ counter' = [counter EXCEPT ![t] = Expiry(t)]
               /\ SetList(Link(l, counter', t))
               /\ UNCHANGED state
          ELSE /\ SetList(l)
               /\ state' = [state EXCEPT ![t] = "STOPPED"]
               /\ UNCHANGED counter
  /\ UNCHANGED <<TmrCurTick, periodic, period, updating>>

CallbackReturn ==
  /\ callback # NULL
  /\ callback' = NULL
  /\ UNCHANGED <<links, TmrCurTick, periodic, period, counter, state, updating>>

\* the loop ends at an empty list or at a head that is not due
UpdateEnd ==
  /\ updating /\ callback = NULL /\ ~HeadDue
  /\ updating' = FALSE
  /\ UNCHANGED <<links, TmrCurTick, periodic, period, counter, state, callback>>

-----------------------------------------------------------------------------
Init ==
  /\ pTmrListHead = NULL /\ pTmrListTail = NULL /\ TmrListQty = 0 /\ TmrCurTick = 0
  /\ pnext = [t \in Tmr |-> NULL] /\ pprev = [t \in Tmr |-> NULL]
  /\ periodic = [t \in Tmr |-> FALSE] /\ period = [t \in Tmr |-> 0]
  /\ counter = [t \in Tmr |-> 0] /\ state = [t \in Tmr |-> "INIT"]
  /\ updating = FALSE /\ callback = NULL

Next ==
  \/ \E t \in Tmr, per \in BOOLEAN, p \in Period : Create(t, per, p)
  \/ \E t \in Tmr : Start(t) \/ Stop(t)
  \/ UpdateBegin
  \/ UpdateFire
  \/ CallbackReturn
  \/ UpdateEnd

Spec == Init /\ [][Next]_vars

\* the interrupt handler keeps running and every callback returns
FairSpec == Spec /\ WF_vars(UpdateFire) /\ WF_vars(CallbackReturn) /\ WF_vars(UpdateEnd)

-----------------------------------------------------------------------------
(* Properties.                                                             *)

Linked == {t \in Tmr : state[t] = "RUNNING"}

\* The state has the shape of the C data.
TypeOK ==
  /\ {pTmrListHead, pTmrListTail} \subseteq Ptr
  /\ TmrListQty \in 0 .. Cardinality(Tmr) /\ TmrCurTick \in 0 .. 2^W - 1
  /\ pnext \in [Tmr -> Ptr] /\ pprev \in [Tmr -> Ptr]
  /\ periodic \in [Tmr -> BOOLEAN] /\ period \in [Tmr -> Period \cup {0}]
  /\ counter \in [Tmr -> 0 .. 2^W - 1]
  /\ state \in [Tmr -> {"INIT", "CREATED", "RUNNING", "STOPPED"}]
  /\ updating \in BOOLEAN /\ callback \in Ptr

\* After any sequence of starts, stops and expiries, also from callbacks inside
\* rt_tmr_update, the nodes reached forward from the head and backward from
\* the tail are exactly the running timers, TmrListQty counts them, and the
\* two directions mirror each other (rt_tmr_link, rt_tmr_unlink).
DoublyLinked ==
  LET fwd == Walk(pnext, pTmrListHead, TmrListQty)
      bwd == Walk(pprev, pTmrListTail, TmrListQty)
      n == TmrListQty
  IN /\ Linked = {fwd[i] : i \in 0 .. n - 1}
     /\ n = Cardinality(Linked)
     /\ fwd[n] = NULL /\ bwd[n] = NULL
     /\ \A i \in 0 .. n - 1 : bwd[i] = fwd[n - 1 - i]

\* The list is ordered by expiry, so that rt_tmr_update may stop at the first
\* timer that is not due.
Ordered ==
  \A t \in Linked : pnext[t] # NULL => counter[t] <= counter[pnext[t]]

\* Refinement: as long as the tick counter does not wrap, the linked list
\* implements the service of RtTmrAbs - no expiry is missed, early or out of
\* order, whatever callbacks do.
left == [t \in Tmr |-> IF state[t] = "RUNNING" THEN counter[t] - TmrCurTick ELSE 0]

Abs == INSTANCE RtTmrAbs WITH NONE <- NULL

ImplementsService == Abs!AbsSpec

-----------------------------------------------------------------------------
(* What comments say.                                                      *)

\* rt_tmr_update "should be called at rate of UTIL_TMR_TICK_FREQ_IN_HZ": one
\* call is over before the next.
UpdateTerminates == updating ~> ~updating

=============================================================================
