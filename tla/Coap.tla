------------------------------- MODULE Coap -------------------------------
(***************************************************************************)
(* The CoAP engine of src/emb6/src/apl/er-coap: the pool of open           *)
(* transactions with its retransmissions (er-coap-transactions.c), the     *)
(* observers and their notifications (er-coap-observe.c) and the receive   *)
(* function (er-coap-engine.c), driven by the resources of rest-engine.c.  *)
(*                                                                         *)
(* Every action is one event that evproc delivers: a datagram, an          *)
(* EVENT_TYPE_TIMER_EXP, or a call of the application.  Payloads, options  *)
(* and tokens are left out; a token stands for the URL it was sent with.   *)
(*                                                                         *)
(* A message identifier of this node is a name, only ever compared.        *)
(* coap_get_mid counts modulo 2^16 and no transaction outlives 2^16        *)
(* messages, so a new identifier differs from all that are still known.    *)
(* Identifier b is the one of the open transaction in block b; when that   *)
(* transaction is over, the observer that remembers it as its last_mid     *)
(* remembers it under a name of its own, Past(i).                          *)
(***************************************************************************)
EXTENDS Integers, FiniteSets, SequencesExt

CONSTANTS
    Peer,            \* remote endpoints: address and port
    Mortal,          \* the peers that may vanish
    Url,             \* observable resources, none of them the prefix of another
    MaxOpen,         \* COAP_MAX_OPEN_TRANSACTIONS
    MaxObservers,    \* COAP_MAX_OBSERVERS
    MaxRetransmit,   \* COAP_MAX_RETRANSMIT
    RefreshInterval, \* COAP_OBSERVE_REFRESH_INTERVAL
    MaxEvents        \* bound: requests of the application, stray and malformed
                     \* datagrams, and failures of a resource's handler

ASSUME CoapAssumption ==
    /\ MaxOpen \in Nat \ {0} /\ MaxObservers \in Nat \ {0}
    /\ MaxRetransmit \in Nat \ {0} /\ RefreshInterval \in Nat \ {0}
    /\ MaxEvents \in Nat /\ Mortal \subseteq Peer
    /\ Peer # {} /\ Url # {}

VARIABLES
    tr,          \* transactions_memb and transactions_list
    ob,          \* observers_memb and observers_list
    transaction, \* the static pointer of coap_receive; 0 is NULL
    alive,       \* does the peer still send anything?
    budget       \* how many of MaxEvents are left

vars == <<tr, ob, transaction, alive, budget>>

Block == 1..MaxOpen
Slot == 1..MaxObservers
Past(i) == MaxOpen + i
Mid == 0..(MaxOpen + MaxObservers)   \* 0 is obs->last_mid before a notification

Transaction == [addr : Peer, retr : 0..MaxRetransmit, active : BOOLEAN]
Observer == [addr : Peer, url : Url, last_mid : Mid, counter : 0..(RefreshInterval - 1)]

-----------------------------------------------------------------------------
(* Pools.  A freed block keeps its content; only the counter of an observer *)
(* is read again before it is overwritten, the rest gets a fixed value.     *)

\* A pool that hands out one block too many.
AllocPastEnd(pool, used) == Min((pool \cup {Cardinality(pool) + 1}) \ used)

memb_alloc(pool, used) == IF pool \subseteq used THEN 0 ELSE Min(pool \ used)

SomePeer == CHOOSE p \in Peer : TRUE
SomeUrl == CHOOSE u \in Url : TRUE

Freed == [addr |-> SomePeer, retr |-> 0, active |-> FALSE]
Vacant(n) == [addr |-> SomePeer, url |-> SomeUrl, last_mid |-> 0, counter |-> n]

Init ==
    /\ tr = [blk |-> [b \in Block |-> Freed], list |-> <<>>, used |-> {}]
    /\ ob = [slot |-> [i \in Slot |-> Vacant(0)], list |-> <<>>, used |-> {}]
    /\ transaction = 0
    /\ alive = [p \in Peer |-> TRUE]
    /\ budget = MaxEvents

-----------------------------------------------------------------------------
(* er-coap-transactions.c *)

\* The operators below work on a pair s of the two tables, s.t and s.o.
coap_new_transaction(s, b, addr) ==
    [t |-> [s.t EXCEPT !.used = @ \cup {b}, !.list = Append(@, b),
                       !.blk[b] = [addr |-> addr, retr |-> 0, active |-> FALSE]],
     o |-> s.o]

RenamePast(o, b) ==
    [o EXCEPT !.slot = [i \in Slot |-> IF i \in o.used /\ @[i].last_mid = b
                                       THEN [@[i] EXCEPT !.last_mid = Past(i)] ELSE @[i]]]

\* Without memb_free.
NotFreed(s, b) ==
    [t |-> [s.t EXCEPT !.list = RemoveFirst(@, b), !.blk[b] = Freed], o |-> RenamePast(s.o, b)]

\* Also called with the block of a transaction that is over already, and then it
\* frees whatever has taken the block since.
coap_clear_transaction(s, b) ==
    IF b = 0 THEN s
    ELSE [t |-> [s.t EXCEPT !.used = @ \ {b}, !.list = RemoveFirst(@, b), !.blk[b] = Freed],
          o |-> RenamePast(s.o, b)]

\* The first transmission: only a confirmable message keeps its transaction.
coap_send_transaction(s, b, con) ==
    IF con THEN [s EXCEPT !.t.blk[b].active = TRUE] ELSE coap_clear_transaction(s, b)

coap_get_transaction_by_mid(t, mid) == IF mid \in t.used THEN mid ELSE 0

-----------------------------------------------------------------------------
(* er-coap-observe.c.  coap_remove_observer clears obs->next, so each of    *)
(* the removal loops ends with the first observer it removes.               *)

coap_remove_observer(o, matching) ==
    LET i == SelectInSeq(o.list, LAMBDA x : x \in matching)
    IN  IF i = 0 THEN o
        ELSE [o EXCEPT !.used = @ \ {o.list[i]}, !.list = RemoveAt(@, i),
                       !.slot[o.list[i]] = Vacant(@.counter)]

\* A time-out that leaves the observers alone.
ForgetNobody(o, p) == o

coap_remove_observer_by_client(o, p) ==
    coap_remove_observer(o, {i \in o.used : o.slot[i].addr = p})

\* by_token and by_uri: no URL is a prefix of another, and a token stands for a URL.
coap_remove_observer_by_uri(o, p, u) ==
    coap_remove_observer(o, {i \in o.used : o.slot[i].addr = p /\ o.slot[i].url = u})

\* A reset that ends the relation of whoever was sent this identifier.
AnyonesMid(o, p, mid) ==
    coap_remove_observer(o, {i \in o.used : o.slot[i].last_mid = mid})

coap_remove_observer_by_mid(o, p, mid) ==
    coap_remove_observer(o, {i \in o.used : o.slot[i].addr = p /\ o.slot[i].last_mid = mid})

\* A registration that does not look for an older one.
AddOnly(o, p, u) ==
    LET s == memb_alloc(Slot, o.used)
    IN  IF s = 0 THEN o
        ELSE [o EXCEPT !.used = @ \cup {s}, !.list = Append(@, s),
                       !.slot[s] = [addr |-> p, url |-> u, last_mid |-> 0,
                                    counter |-> (@.counter + 1) % RefreshInterval]]

\* A new relation replaces the old one.  Its counter is not reset and goes on from the
\* count of the slot's last owner; the response to the registration counts as one.
add_observer(o, p, u) ==
    LET kept == coap_remove_observer_by_uri(o, p, u)
        s    == memb_alloc(Slot, kept.used)
    IN  IF s = 0 THEN kept
        ELSE [kept EXCEPT !.used = @ \cup {s}, !.list = Append(@, s),
                          !.slot[s] = [addr |-> p, url |-> u, last_mid |-> 0,
                                       counter |-> (@.counter + 1) % RefreshInterval]]

\* The elements of a set of numbers, the smallest first.
Ascending(S) ==
    CHOOSE f \in [1..Cardinality(S) -> S] : \A i, j \in DOMAIN f : i < j => f[i] < f[j]

\* The loop of coap_notify_observers, as a plan of who gets what.  The type of the one
\* notification packet is non-confirmable until an observer is due for a refresh, and
\* confirmable for it and for all behind it; a non-confirmable notification gives its
\* block back at once, a confirmable one keeps it; who finds no block is skipped.
NotifyPlan(s, u) ==
    LET at(k)   == s.o.slot[s.o.list[k]]
        match   == {k \in DOMAIN s.o.list : at(k).url = u}
        refresh == {k \in match : \E j \in match : j <= k /\ at(j).counter = 0}
        free    == Ascending(Block \ s.t.used)
        rank(k) == Cardinality({j \in refresh : j <= k})
    IN  [con |-> {[to |-> s.o.list[k], blk |-> free[rank(k)]] :
                     k \in {j \in refresh : rank(j) <= Len(free)}},
         blk |-> SubSeq(free, 1, Min({Len(free), Cardinality(refresh)})),
         non |-> IF free = <<>> THEN {} ELSE {s.o.list[k] : k \in match \ refresh}]

\* obs was notified.  ok: the resource has a representation, and the observe option
\* counts on.
Notified(obs, mid, ok) ==
    [obs EXCEPT !.last_mid = mid, !.counter = IF ok THEN (@ + 1) % RefreshInterval ELSE @]

coap_notify_observers(s, plan, ok) ==
    [t |-> [used |-> s.t.used \cup ToSet(plan.blk), list |-> s.t.list \o plan.blk,
            blk  |-> [b \in Block |->
                IF \E c \in plan.con : c.blk = b
                THEN [addr |-> s.o.slot[(CHOOSE c \in plan.con : c.blk = b).to].addr,
                      retr |-> 0, active |-> TRUE]
                ELSE s.t.blk[b]]],
     o |-> [s.o EXCEPT !.slot = [i \in Slot |->
                IF i \in plan.non THEN Notified(@[i], Past(i), ok)
                ELSE IF \E c \in plan.con : c.to = i
                THEN Notified(@[i], (CHOOSE c \in plan.con : c.to = i).blk, ok)
                ELSE @[i]]]]

-----------------------------------------------------------------------------
(* The client side of er-coap-engine.c, as far as it takes blocks: each      *)
(* block of a transfer is one confirmable request, sent by the application   *)
(* or from the callback of the answer before it.                             *)

Tables == [t |-> tr, o |-> ob]

Becomes(s) == \E x \in {s} : tr' = x.t /\ ob' = x.o

\* Without a free block nothing is sent, and nobody is told.
_coap_nonblocking_request_start(p) ==
    /\ budget > 0
    /\ budget' = budget - 1
    /\ LET b == memb_alloc(Block, tr.used)
       IN  Becomes(IF b = 0 THEN Tables
                   ELSE coap_send_transaction(coap_new_transaction(Tables, b, p), b, TRUE))
    /\ UNCHANGED <<transaction, alive>>

-----------------------------------------------------------------------------
(* coap_receive *)

\* A request.  Whatever the handler does, the block that held the response is free
\* again when coap_receive returns, and the static pointer still points to it.
\* "plain" is a response, an error or a separate response; "notify" a handler that
\* changes the resource and calls REST.notify_subscribers.
Request(p, u, what) ==
    /\ alive[p]
    /\ \E b \in {memb_alloc(Block, tr.used)} :
        /\ transaction' = b
        /\ IF b = 0 THEN UNCHANGED <<tr, ob>>
           ELSE CASE what = "plain"   -> UNCHANGED <<tr, ob>>
                  [] what = "observe" -> ob' = add_observer(ob, p, u) /\ UNCHANGED tr
                  [] what = "cancel"  -> ob' = coap_remove_observer_by_uri(ob, p, u) /\ UNCHANGED tr
                  [] what = "notify"  ->
                       \E s \in {coap_new_transaction(Tables, b, p)} :
                       \E n \in {coap_notify_observers(s, NotifyPlan(s, u), TRUE)} :
                           Becomes(coap_clear_transaction(n, b))
    /\ UNCHANGED <<alive, budget>>

\* Everything that is no request: acknowledgement, reset, ping or separate response.
\* The transaction is found by its identifier alone, whoever sent the message.
Receive(p, rst, mid) ==
    /\ alive[p]
    /\ transaction' = 0
    /\ Becomes(coap_clear_transaction(
           [t |-> tr, o |-> IF rst THEN coap_remove_observer_by_mid(ob, p, mid) ELSE ob],
           coap_get_transaction_by_mid(tr, mid)))
    /\ UNCHANGED alive

\* The identifiers a peer has seen: of what was sent to it and of its notifications.
SentTo(p) ==
    {b \in tr.used : tr.blk[b].addr = p} \cup
    {ob.slot[i].last_mid : i \in {j \in ob.used : ob.slot[j].addr = p /\ ob.slot[j].last_mid # 0}}

\* The peer answers something this node sent to it.
Answer(p, rst, mid) ==
    /\ mid \in SentTo(p)
    /\ Receive(p, rst, mid)
    /\ UNCHANGED budget

\* The message carries an identifier of the peer's own, which may be anybody's here.
Stray(p, rst, mid) ==
    /\ budget > 0
    /\ budget' = budget - 1
    /\ Receive(p, rst, mid)

\* coap_parse_message fails: the error path clears the transaction of the last
\* request once more.
Malformed(p) ==
    /\ alive[p]
    /\ budget > 0
    /\ budget' = budget - 1
    /\ Becomes(coap_clear_transaction(Tables, transaction))
    /\ UNCHANGED <<transaction, alive>>

-----------------------------------------------------------------------------
(* Timers *)

\* The etimer of a transaction elapses; it is served at the next TIMER_EXP.
Expire(b) ==
    /\ b \in tr.used /\ tr.blk[b].active
    /\ tr' = [tr EXCEPT !.blk[b].active = FALSE]
    /\ UNCHANGED <<ob, transaction, alive, budget>>

Expired(b) == b \in tr.used /\ ~tr.blk[b].active
Final(b) == Expired(b) /\ tr.blk[b].retr + 1 >= MaxRetransmit

\* The loop of coap_check_transactions: what is sent again, and the transaction that
\* timed out.  coap_clear_transaction clears t->next, so the loop ends with it and
\* the expired transactions behind it wait for another TIMER_EXP.
coap_check_transactions(t) ==
    LET Late(b) == ~t.blk[b].active
        TimesOut(b) == Late(b) /\ t.blk[b].retr + 1 >= MaxRetransmit
        stop    == SelectInSeq(t.list, TimesOut)
        seen    == IF stop = 0 THEN t.list ELSE SubSeq(t.list, 1, stop - 1)
    IN  [resent |-> {b \in ToSet(seen) : Late(b)},
         over   |-> IF stop = 0 THEN 0 ELSE t.list[stop]]

SentAgain(t) == [t EXCEPT !.retr = @ + 1, !.active = TRUE]

\* EVENT_TYPE_TIMER_EXP, of whichever etimer, reaches coap_engine_callback.  The last
\* retransmission and the time-out are the same step: its answer is not waited for.
TimerEvent ==
    /\ \E b \in Block : Expired(b)
    /\ UNCHANGED <<transaction, alive, budget>>
    /\ \E c \in {coap_check_transactions(tr)} :
       \E t \in {[tr EXCEPT !.blk = [b \in Block |->
                    IF b \in c.resent THEN SentAgain(@[b]) ELSE @[b]]]} :
        Becomes(IF c.over = 0 THEN [t |-> t, o |-> ob]
                ELSE coap_clear_transaction(
                    [t |-> t, o |-> coap_remove_observer_by_client(ob, tr.blk[c.over].addr)],
                    c.over))

\* The timer of a periodic resource, or the application, notifies the observers.
Notify(u, ok) ==
    /\ UNCHANGED <<transaction, alive>>
    /\ ok \/ budget > 0
    /\ budget' = IF ok THEN budget ELSE budget - 1
    /\ \E plan \in {NotifyPlan(Tables, u)} : Becomes(coap_notify_observers(Tables, plan, ok))

\* A peer is switched off or leaves the network.
Crash(p) ==
    /\ alive[p]
    /\ alive' = [alive EXCEPT ![p] = FALSE]
    /\ UNCHANGED <<tr, ob, transaction, budget>>

Next ==
    \/ \E p \in Peer : _coap_nonblocking_request_start(p)
    \/ \E p \in Peer, u \in Url, what \in {"plain", "observe", "cancel", "notify"} :
           Request(p, u, what)
    \/ \E p \in Peer, rst \in BOOLEAN, mid \in Mid : Answer(p, rst, mid)
    \/ \E p \in Peer, rst \in BOOLEAN, mid \in Mid : Stray(p, rst, mid)
    \/ \E p \in Peer : Malformed(p)
    \/ \E b \in Block : Expire(b)
    \/ TimerEvent
    \/ \E u \in Url, ok \in BOOLEAN : Notify(u, ok)
    \/ \E p \in Mortal : Crash(p)

Spec == Init /\ [][Next]_vars

\* An armed etimer elapses, TIMER_EXP recurs as the stack always has a periodic etimer
\* running, and every resource is notified again and again, as a periodic resource is.
Fairness ==
    /\ \A b \in Block : WF_vars(Expire(b))
    /\ WF_vars(TimerEvent)
    /\ \A u \in Url : WF_vars(Notify(u, TRUE))

FairSpec == Spec /\ Fairness

-----------------------------------------------------------------------------
(* Properties *)

\* Every value is within its C type, list and pool bounds included.
TypeOK ==
    /\ tr \in [blk : [Block -> Transaction], list : Seq(Block), used : SUBSET Block]
    /\ ob \in [slot : [Slot -> Observer], list : Seq(Slot), used : SUBSET Slot]
    /\ transaction \in Block \cup {0}
    /\ alive \in [Peer -> BOOLEAN] /\ budget \in 0..MaxEvents

\* Between two events no block of transactions_memb is lost: each allocated block is
\* in transactions_list, once, with a retransmission still to come, so that something
\* will free it; and an identifier an observer waits for names a transaction with it.
OpenTransactions ==
    /\ ToSet(tr.list) = tr.used /\ Len(tr.list) = Cardinality(tr.used)
    /\ \A b \in tr.used : tr.blk[b].retr < MaxRetransmit
    /\ \A i \in ob.used : ob.slot[i].last_mid \in Block =>
          ob.slot[i].last_mid \in tr.used /\ tr.blk[ob.slot[i].last_mid].addr = ob.slot[i].addr

\* A client that registers again and again, with cancellations, resets and time-outs
\* in between, never has two relations for one resource (it would be notified twice
\* and cancel only one), and no slot of observers_memb is lost.
OneObserverPerResource ==
    /\ ToSet(ob.list) = ob.used /\ Len(ob.list) = Cardinality(ob.used)
    /\ \A i, j \in ob.used :
          ob.slot[i].addr = ob.slot[j].addr /\ ob.slot[i].url = ob.slot[j].url => i = j

Relations(p) == {i \in ob.used : ob.slot[i].addr = p}

\* The observe relations of a client get fewer only by what the client itself sends
\* or by a time-out of a transaction with that client: no other client's reset, and
\* no other client's silence, ends them.
EndedByOwnClient ==
    [][\A p \in Peer :
         Cardinality(Relations(p)') < Cardinality(Relations(p)) =>
            \/ \E b \in Block : Final(b) /\ tr.blk[b].addr = p /\ TimerEvent
            \/ \E u \in Url : Request(p, u, "cancel")
            \/ \E mid \in Mid : /\ alive[p]
                                /\ \E i \in Relations(p) : ob.slot[i].last_mid = mid
                                /\ Receive(p, TRUE, mid)
      ]_vars

\* A client that vanishes without a reset is forgotten: sooner or later each of its
\* relations gets a confirmable notification, which times out and removes it, although
\* one time-out removes only one relation and a full pool skips observers.
DeadClientForgotten == \A p \in Mortal : ~alive[p] ~> (Relations(p) = {})
=============================================================================
