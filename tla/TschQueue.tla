----------------------------- MODULE TschQueue -----------------------------
(***************************************************************************)
(* The transmission side of TSCH: neighbour queues (tsch-queue.c over      *)
(* ringbufindex.c), the schedule of links (tsch-schedule.c), the slot      *)
(* operation (tsch-slot-operation.c) and the processing of sent packets    *)
(* and of losing the network (tsch.c).                                     *)
(*                                                                         *)
(* Two contexts share the queues.  The slot operation runs to completion   *)
(* in a timer interrupt, as the action Slot.  The main context can be      *)
(* interrupted between any two of its accesses to shared data, so every    *)
(* operation of it is a sequence of steps, and main.at names the next one. *)
(*                                                                         *)
(* Time is left out: which link comes up next is a choice among the links  *)
(* of the schedule, and so is what becomes of a transmission.              *)
(***************************************************************************)
EXTENDS Naturals, Sequences, FiniteSets, SequencesExt

CONSTANTS
  Addr,                            \* unicast neighbours
  Broadcast, Eb,                   \* addresses of n_broadcast and n_eb
  TSCH_QUEUE_NUM_PER_NEIGHBOR,     \* size of a neighbour's ring buffer
  TSCH_QUEUE_MAX_NEIGHBOR_QUEUES,  \* blocks of neighbor_memb
  QUEUEBUF_NUM,                    \* blocks of packet_memb
  TSCH_DEQUEUED_ARRAY_SIZE,        \* size of dequeued_ringbuf
  TSCH_MAC_MAX_FRAME_RETRIES,
  TSCH_MAC_MIN_BE, TSCH_MAC_MAX_BE,
  TSCH_SCHEDULE_MAX_LINKS,         \* blocks of link_memb
  tsch_current_eb_period,          \* 0: no EBs are sent
  tsch_is_coordinator,             \* no time source, never leaves
  Kinds,                           \* links that are added and removed
  LinkChanges,                     \* bound: how often the schedule changes
  NONE                             \* a NULL pointer

NbrAddr == Addr \cup {Broadcast, Eb}
Packet  == 1 .. QUEUEBUF_NUM
Block   == 1 .. TSCH_SCHEDULE_MAX_LINKS

\* struct tsch_link: link_options, link_type and addr.
Link == [addr : NbrAddr, tx : BOOLEAN, rx : BOOLEAN, shared : BOOLEAN,
         type : {"normal", "advertising", "advertising_only"}]

\* The link of the 6TiSCH minimal schedule.
MinimalLink ==
  [addr |-> Broadcast, tx |-> TRUE, rx |-> TRUE, shared |-> TRUE, type |-> "advertising"]

ASSUME TschAssumption ==
  /\ Broadcast \notin Addr /\ Eb \notin Addr /\ Broadcast # Eb
  /\ TSCH_QUEUE_NUM_PER_NEIGHBOR \in Nat \ {0, 1}
  /\ QUEUEBUF_NUM \in Nat \ {0}
  /\ TSCH_DEQUEUED_ARRAY_SIZE \in Nat \ {0, 1}
  /\ TSCH_QUEUE_MAX_NEIGHBOR_QUEUES \in Nat \ {0, 1}
  /\ TSCH_SCHEDULE_MAX_LINKS \in Nat \ {0}
  /\ TSCH_MAC_MAX_FRAME_RETRIES \in Nat
  /\ TSCH_MAC_MIN_BE \in Nat /\ TSCH_MAC_MAX_BE \in Nat
  /\ TSCH_MAC_MIN_BE <= TSCH_MAC_MAX_BE
  /\ \A be \in 0 .. TSCH_MAC_MAX_BE : 2^be \in Nat \ {0}
  /\ tsch_is_coordinator \in BOOLEAN /\ tsch_current_eb_period \in Nat
  /\ Kinds \subseteq Link
  /\ LinkChanges \in Nat
  /\ NONE \notin NbrAddr \cup Nat

VARIABLES
  list,      \* neighbor_list, as addresses
  nbr,       \* the neighbours: tx_ringbuf with tx_array, backoff, counters
  pkts,      \* allocated blocks of packet_memb
  tx,        \* transmissions of each packet
  deq,       \* dequeued_ringbuf with dequeued_array
  lock,      \* tsch_lock_requested, tsch_locked: "free", "requested", "held"
  assoc,     \* tsch_is_associated
  armed,     \* slot_operation_timer is set
  events,    \* posted events: a subset of {"process", "pending"}
  sched,     \* links of the slotframes
  link,      \* contents of link_memb
  cur, bak,  \* current_link, backup_link
  changes,   \* how often the schedule changed
  main       \* the main context: next step, its locals, where to go after

vars == <<list, nbr, pkts, tx, deq, lock, assoc, armed, events, sched, link, cur,
          bak, changes, main>>

schedVars == <<sched, link, cur, bak, changes>>

----------------------------------------------------------------------------
(* ringbufindex.c: indexes modulo the size, one place always empty.        *)

RingInit(size) == [put |-> 0, get |-> 0, arr |-> [i \in 0 .. size - 1 |-> NONE]]

RingSize(r) == Cardinality(DOMAIN r.arr)

Elements(r) == (r.put + RingSize(r) - r.get) % RingSize(r)

Full(r) == Elements(r) = RingSize(r) - 1

\* ringbufindex_put after the element was stored.
RingPut(r) == [r EXCEPT !.put = (@ + 1) % RingSize(r)]

\* The element is forgotten with its index: nobody reads it any more.
RingGet(r) == [r EXCEPT !.get = (@ + 1) % RingSize(r), !.arr[r.get] = NONE]

Store(r, p) == [r EXCEPT !.arr[r.put] = p]

First(r) == r.arr[r.get]

\* The elements in order.
Contents(r) == [i \in 1 .. Elements(r) |-> r.arr[(r.get + i - 1) % RingSize(r)]]

----------------------------------------------------------------------------
(* tsch-queue.c                                                            *)

\* tsch_queue_free_packet
FreePackets(S) ==
  /\ pkts' = pkts \ S
  /\ tx' = [p \in Packet |-> IF p \in S THEN 0 ELSE tx[p]]

NewNbr ==
  [ring |-> RingInit(TSCH_QUEUE_NUM_PER_NEIGHBOR), win |-> 0, be |-> TSCH_MAC_MIN_BE,
   links |-> 0, src |-> FALSE]

OnList(a) == a \in ToSet(list)

IsEmpty(a) == Elements(nbr[a].ring) = 0

\* The links over which a is sent to: what tx_links_count counts.
TxLinks(a) == {b \in sched : link[b].tx /\ link[b].addr = a}

\* Mutant: the links to the neighbour are not looked at.
UnusedLinked(a) == a \in Addr /\ ~nbr[a].src /\ IsEmpty(a)

Unused(a) ==
  a \in Addr /\ ~nbr[a].src /\ nbr[a].links = 0 /\ IsEmpty(a)

\* tsch_queue_get_packet_for_nbr: the first packet, unless the neighbour is
\* in backoff and the link is shared.
PacketFor(a, l) ==
  IF OnList(a) /\ ~IsEmpty(a) /\ (l.shared => nbr[a].win = 0)
  THEN First(nbr[a].ring) ELSE NONE

\* tsch_queue_get_unicast_packet_for_any: the places of neighbor_list that
\* have one.
UnicastForAny(l) ==
  {i \in DOMAIN list : /\ list[i] \in Addr /\ nbr[list[i]].links = 0
                       /\ PacketFor(list[i], l) # NONE}

\* get_packet_and_neighbor_for_link: the neighbour whose first packet is
\* sent, NONE when there is none.
NeighborFor(l) ==
  IF lock = "held" \/ ~l.tx THEN NONE
  ELSE IF l.type # "normal" /\ PacketFor(Eb, l) # NONE THEN Eb
  ELSE IF l.type = "advertising_only" THEN NONE
  ELSE IF PacketFor(l.addr, l) # NONE THEN l.addr
  ELSE IF l.addr = Broadcast /\ UnicastForAny(l) # {} THEN list[Min(UnicastForAny(l))]
  ELSE NONE

\* Mutant: neighbours without a link of their own are forgotten.
UpdateBackoffLinked(l, n) ==
  IF lock = "held" \/ ~(l.tx /\ l.shared) THEN n
  ELSE [a \in NbrAddr |->
          IF OnList(a) /\ n[a].win # 0 /\ n[a].links > 0 /\ l.addr = a
          THEN [n[a] EXCEPT !.win = @ - 1] ELSE n[a]]

\* tsch_queue_update_all_backoff_windows at the end of a slot.
UpdateBackoff(l, n) ==
  IF lock = "held" \/ ~(l.tx /\ l.shared) THEN n
  ELSE [a \in NbrAddr |->
          IF /\ OnList(a) /\ n[a].win # 0
             /\ \/ n[a].links = 0 /\ l.addr = Broadcast
                \/ n[a].links > 0 /\ l.addr = a
          THEN [n[a] EXCEPT !.win = @ - 1] ELSE n[a]]

----------------------------------------------------------------------------
(* The slot operation, in interrupt context.                               *)

\* update_neighbor_state: the new neighbour, given whether the transmission
\* succeeded, whether the packet leaves the queue and the random window.
AfterTx(a, l, ok, leaves, w) ==
  LET n == IF leaves THEN [nbr[a] EXCEPT !.ring = RingGet(@)] ELSE nbr[a]
      be == IF n.be < TSCH_MAC_MAX_BE THEN n.be + 1 ELSE TSCH_MAC_MAX_BE
  IN IF a \notin Addr THEN n
     ELSE IF ok
     THEN IF l.shared \/ Elements(n.ring) = 0
          THEN [n EXCEPT !.win = 0, !.be = TSCH_MAC_MIN_BE] ELSE n
     ELSE IF l.shared THEN [n EXCEPT !.be = be, !.win = (w % 2^be) + 1] ELSE n

\* Mutant: one transmission too many.
LeavesLate(ok, tries) == ok \/ tries > TSCH_MAC_MAX_FRAME_RETRIES + 1

\* tsch_tx_slot dequeues a packet that was sent or tried often enough.
Leaves(ok, tries) == ok \/ tries >= TSCH_MAC_MAX_FRAME_RETRIES + 1

\* tsch_schedule_get_next_active_link: any link may be next; the backup is a
\* link of the same time with the Rx flag, and Tx links go first.
NextLink ==
  IF lock = "held" \/ sched = {} THEN cur' = NONE /\ bak' = NONE
  ELSE \E c \in sched :
         /\ cur' = c
         /\ bak' \in {NONE} \cup {b \in sched \ {c} :
                                  link[b].rx /\ (link[b].tx => link[c].tx)}

\* The end of tsch_slot_operation on link c: the next slot is set up, or the
\* network is left when the last synchronisation is too long ago.
EndSlot(c, n, posted) ==
  \/ /\ nbr' = IF c = NONE THEN n ELSE UpdateBackoff(link[c], n)
     /\ NextLink
     /\ events' = posted /\ UNCHANGED <<assoc, armed>>
  \/ /\ ~tsch_is_coordinator /\ assoc' = FALSE /\ armed' = FALSE
     /\ events' = posted \cup {"process"}
     /\ nbr' = n /\ cur' = c /\ UNCHANGED bak

\* tsch_tx_slot with room in dequeued_ringbuf.
TxSlot(a, c) ==
  \E p \in {First(nbr[a].ring)}, ok \in BOOLEAN, w \in 0 .. 2^TSCH_MAC_MAX_BE - 1 :
    \E leaves \in {Leaves(ok, tx[p] + 1)} :
      /\ w > 0 => ~ok /\ link[c].shared /\ a \in Addr
      /\ tx' = [tx EXCEPT ![p] = @ + 1]
      /\ deq' = IF leaves THEN RingPut(Store(deq, p)) ELSE deq
      /\ \E n \in {[nbr EXCEPT ![a] = AfterTx(a, link[c], ok, leaves, w)]} :
           EndSlot(c, n, events \cup {"pending"})

\* tsch_slot_operation does nothing: there is no link, the lock is being
\* requested, or the time of the slot was missed.
SlotSkipped ==
  /\ assoc /\ armed
  /\ EndSlot(cur, nbr, events)
  /\ UNCHANGED <<list, pkts, tx, deq, lock, sched, link, changes, main>>

\* The link of this slot: the backup when there is nothing to send.
SlotLink ==
  IF NeighborFor(link[cur]) = NONE /\ ~link[cur].rx /\ bak # NONE THEN bak ELSE cur

\* Mutant: no test for room in dequeued_ringbuf.
SlotTxNoRoom ==
  /\ assoc /\ armed /\ cur # NONE /\ lock # "requested"
  /\ \E c \in {SlotLink}, a \in NbrAddr : a = NeighborFor(link[c]) /\ TxSlot(a, c)
  /\ UNCHANGED <<list, pkts, lock, sched, link, changes, main>>

\* tsch_slot_operation with a packet to send.
SlotTx ==
  /\ assoc /\ armed /\ cur # NONE /\ lock # "requested"
  /\ \E c \in {SlotLink}, a \in NbrAddr :
       /\ a = NeighborFor(link[c])
       /\ \/ Full(deq) /\ EndSlot(c, nbr, events) /\ UNCHANGED <<tx, deq>>
          \/ ~Full(deq) /\ TxSlot(a, c)
  /\ UNCHANGED <<list, pkts, lock, sched, link, changes, main>>

\* tsch_slot_operation without one: tsch_rx_slot listens and may receive a
\* frame.  A link that only sends is idle.
SlotRx ==
  /\ assoc /\ armed /\ cur # NONE /\ lock # "requested"
  /\ \E c \in {SlotLink}, got \in BOOLEAN :
       /\ NeighborFor(link[c]) = NONE /\ (got => link[c].rx)
       /\ EndSlot(c, nbr, IF got THEN events \cup {"pending"} ELSE events)
  /\ UNCHANGED <<list, pkts, tx, deq, lock, sched, link, changes, main>>

\* The timer expires after the main context left the network.
SlotStops ==
  /\ ~assoc /\ armed /\ armed' = FALSE
  /\ UNCHANGED <<list, nbr, pkts, tx, deq, lock, assoc, events, schedVars, main>>

----------------------------------------------------------------------------
(* The main context.                                                       *)

At(step) == main.at = step

Go(step) == main' = [main EXCEPT !.at = step]

Idle == [at |-> "idle", op |-> "none", then |-> "idle", a |-> NONE, p |-> NONE,
         l |-> NONE, rest |-> << >>, after |-> "idle"]

Done == main' = Idle

\* tsch_get_lock: no other context takes the lock, so it is granted.
LockFor(m, op, then) == [m EXCEPT !.at = "request", !.op = op, !.then = then]

\* tsch_queue_add_nbr for main.a, then step `then`.
WithNbr(m, then) ==
  IF OnList(m.a) THEN [m EXCEPT !.at = then] ELSE LockFor(m, "add_nbr", then)

\* tsch_get_lock sets tsch_lock_requested ...
Request ==
  /\ At("request") /\ lock' = "requested" /\ Go("take")
  /\ UNCHANGED <<list, nbr, pkts, tx, deq, assoc, armed, events, schedVars>>

\* ... and then tsch_locked, after which tsch_lock_requested is clear again.
Take ==
  /\ At("take") /\ lock' = "held" /\ Go("critical")
  /\ UNCHANGED <<list, nbr, pkts, tx, deq, assoc, armed, events, schedVars>>

\* tsch_release_lock.  A slot operation that falls into a critical section
\* reads neither the neighbours nor the schedule and leaves no current link,
\* so that it is the same whether it comes before or after what the section
\* changes: the section is one step with its release.
Release(then) ==
  /\ lock' = "free"
  /\ main' = IF then = "idle" THEN Idle ELSE [main EXCEPT !.at = then, !.op = "none", !.then = "idle"]

\* tsch_queue_add_nbr
AddNbr ==
  /\ At("critical") /\ main.op = "add_nbr" /\ Release(main.then)
  /\ IF Len(list) < TSCH_QUEUE_MAX_NEIGHBOR_QUEUES
     THEN list' = Append(list, main.a) /\ nbr' = [nbr EXCEPT ![main.a] = NewNbr]
     ELSE UNCHANGED <<list, nbr>>
  /\ UNCHANGED <<pkts, tx, deq, assoc, armed, events, schedVars>>

\* tsch_queue_remove_nbr up to the release of the lock.
RemoveNbr ==
  /\ At("critical") /\ main.op = "remove_nbr" /\ Release(main.then)
  /\ list' = RemoveFirst(list, main.a)
  /\ UNCHANGED <<nbr, pkts, tx, deq, assoc, armed, events, schedVars>>

\* tsch_schedule_add_link; no room is possible too.
AddLink ==
  /\ At("critical") /\ main.op = "add_link"
  /\ IF sched = Block
     THEN Release("idle") /\ UNCHANGED <<sched, link>>
     ELSE LET b == Min(Block \ sched)
          IN sched' = sched \cup {b} /\ link' = [link EXCEPT ![b] = main.l] /\ Release(main.then)
  /\ UNCHANGED <<list, nbr, pkts, tx, deq, assoc, armed, events, cur, bak, changes>>

\* Mutant: the link stays current.
RemoveLinkCurrent ==
  /\ At("critical") /\ main.op = "remove_link" /\ Release(main.then)
  /\ sched' = sched \ {main.p}
  /\ UNCHANGED <<list, nbr, pkts, tx, deq, assoc, armed, events, link, cur, bak, changes>>

\* tsch_schedule_remove_link: a link that is scheduled next is aborted.  The
\* block keeps its contents until it is used again.
RemoveLink ==
  /\ At("critical") /\ main.op = "remove_link" /\ Release(main.then)
  /\ sched' = sched \ {main.p}
  /\ cur' = IF cur = main.p THEN NONE ELSE cur
  /\ UNCHANGED <<list, nbr, pkts, tx, deq, assoc, armed, events, link, bak, changes>>

(* Sending.                                                                *)

\* send_packet: tsch_queue_packet_count adds the neighbour.
Send(a) ==
  /\ At("idle") /\ assoc
  /\ main' = WithNbr([main EXCEPT !.a = a], "fill")
  /\ UNCHANGED <<list, nbr, pkts, tx, deq, lock, assoc, armed, events, schedVars>>

\* tsch_send_eb_process: at most one EB in the queue.
SendEb ==
  /\ At("idle") /\ assoc /\ tsch_current_eb_period > 0 /\ IsEmpty(Eb)
  /\ main' = [main EXCEPT !.a = Eb, !.at = "fill"]
  /\ UNCHANGED <<list, nbr, pkts, tx, deq, lock, assoc, armed, events, schedVars>>

\* tsch_queue_add_packet up to ringbufindex_put: the place is asked for, the
\* packet allocated and stored there.
Fill ==
  /\ At("fill") /\ OnList(main.a) /\ ~Full(nbr[main.a].ring) /\ pkts # Packet
  /\ LET p == Min(Packet \ pkts)
     IN /\ pkts' = pkts \cup {p}
        /\ tx' = [tx EXCEPT ![p] = 0]
        /\ nbr' = [nbr EXCEPT ![main.a].ring = Store(@, p)]
        /\ main' = [main EXCEPT !.at = "put", !.p = p]
  /\ UNCHANGED <<list, deq, lock, assoc, armed, events, schedVars>>

\* No neighbour, no place, no packet, no queuebuf, or the framer fails: the
\* sent callback gets MAC_TX_ERR at once.
FillFails ==
  /\ At("fill") /\ Done
  /\ UNCHANGED <<list, nbr, pkts, tx, deq, lock, assoc, armed, events, schedVars>>

\* ringbufindex_put tests for room again.  (header_len and tsch_sync_ie_offset
\* are stored in the packet after it, and are left out.)
Put ==
  /\ At("put") /\ Done
  /\ nbr' = IF Full(nbr[main.a].ring) THEN nbr
            ELSE [nbr EXCEPT ![main.a].ring = RingPut(@)]
  /\ UNCHANGED <<list, pkts, tx, deq, lock, assoc, armed, events, schedVars>>

(* Changes of the schedule.                                                *)

BeginAddLink(l) ==
  /\ At("idle") /\ changes < LinkChanges /\ changes' = changes + 1
  /\ main' = LockFor([main EXCEPT !.l = l, !.a = l.addr], "add_link", "added")
  /\ UNCHANGED <<list, nbr, pkts, tx, deq, lock, assoc, armed, events, sched, link, cur, bak>>

BeginRemoveLink(b) ==
  /\ At("idle") /\ b \in sched /\ link[b] \in Kinds
  /\ changes < LinkChanges /\ changes' = changes + 1
  /\ main' = LockFor([main EXCEPT !.p = b, !.l = link[b], !.a = link[b].addr],
                     "remove_link", "removed")
  /\ UNCHANGED <<list, nbr, pkts, tx, deq, lock, assoc, armed, events, sched, link, cur, bak>>

\* The counters of the neighbour are updated after the lock was released.
LinkChanged ==
  /\ \/ At("added")   /\ main' = IF main.l.tx THEN WithNbr(main, "count") ELSE Idle
     \/ At("removed") /\ main' = IF main.l.tx THEN WithNbr(main, "uncount") ELSE Idle
  /\ UNCHANGED <<list, nbr, pkts, tx, deq, lock, assoc, armed, events, schedVars>>

\* tx_links_count is a uint8_t; without a neighbour nothing is counted.
Count ==
  /\ \/ At("count")   /\ nbr' = IF OnList(main.a)
                                THEN [nbr EXCEPT ![main.a].links = (@ + 1) % 256] ELSE nbr
     \/ At("uncount") /\ nbr' = IF OnList(main.a)
                                THEN [nbr EXCEPT ![main.a].links = (@ + 255) % 256] ELSE nbr
  /\ Done
  /\ UNCHANGED <<list, pkts, tx, deq, lock, assoc, armed, events, schedVars>>

(* The time source.                                                        *)

\* tsch_queue_update_time_source, with an address or without one when the
\* preferred parent is gone.
NewTimeSource(a) ==
  /\ At("idle") /\ assoc /\ ~tsch_is_coordinator
  /\ main' = IF a = NONE THEN [main EXCEPT !.at = "source"]
             ELSE WithNbr([main EXCEPT !.a = a], "source")
  /\ UNCHANGED <<list, nbr, pkts, tx, deq, lock, assoc, armed, events, schedVars>>

\* Only one neighbour is the time source; nothing changes when the new one
\* could not be added.
TimeSource(n, a) == [b \in NbrAddr |-> [n[b] EXCEPT !.src = (b = a)]]

SetTimeSource ==
  /\ At("source") /\ Done
  /\ nbr' = IF main.a = NONE \/ OnList(main.a) THEN TimeSource(nbr, main.a) ELSE nbr
  /\ UNCHANGED <<list, pkts, tx, deq, lock, assoc, armed, events, schedVars>>

(* Received and sent packets, and leaving the network.                     *)

\* tsch_pending_events_process
PendingEvent ==
  /\ At("idle") /\ "pending" \in events /\ events' = events \ {"pending"}
  /\ Go("rx")
  /\ UNCHANGED <<list, nbr, pkts, tx, deq, lock, assoc, armed, schedVars>>

\* tsch_rx_process_pending: an EB of the time source may show that the
\* clocks disagree, which ends in tsch_disassociate.
RxPending ==
  /\ At("rx") /\ Go("report")
  /\ \/ UNCHANGED <<assoc, events>>
     \/ /\ assoc /\ \E a \in ToSet(list) : nbr[a].src
        /\ assoc' = FALSE /\ events' = events \cup {"process"}
  /\ UNCHANGED <<list, nbr, pkts, tx, deq, lock, armed, schedVars>>

\* The neighbours that may be removed, in order: never the virtual ones.
Neighbors == RemoveFirst(RemoveFirst(list, Eb), Broadcast)

\* tsch_tx_process_pending reports the first dequeued packet and frees it.
\* With no packet left it returns, to tsch_reset when that called it.
Report ==
  /\ At("report")
  /\ IF Elements(deq) = 0
     THEN main' = IF main.after = "reset" THEN [main EXCEPT !.at = "reset"] ELSE Idle
     ELSE main' = [main EXCEPT !.at = "scan", !.p = First(deq), !.rest = Neighbors]
  /\ FreePackets(IF Elements(deq) = 0 THEN {} ELSE {First(deq)})
  /\ UNCHANGED <<list, nbr, deq, lock, assoc, armed, events, schedVars>>

\* One round of the loop of tsch_queue_free_unused_neighbors.
Scan ==
  /\ At("scan") /\ main.rest # << >>
  /\ LET a == Head(main.rest)
         m == [main EXCEPT !.a = a, !.rest = Tail(@)]
     IN main' = IF Unused(a) THEN LockFor(m, "remove_nbr", "free_nbr") ELSE m
  /\ UNCHANGED <<list, nbr, pkts, tx, deq, lock, assoc, armed, events, schedVars>>

\* tsch_queue_remove_nbr flushes what is left and frees the neighbour.
FreeNbr ==
  /\ At("free_nbr") /\ Go("scan")
  /\ FreePackets(ToSet(Contents(nbr[main.a].ring)))
  /\ nbr' = [nbr EXCEPT ![main.a] = NewNbr]
  /\ UNCHANGED <<list, deq, lock, assoc, armed, events, schedVars>>

\* tsch_tx_process_pending removes the index of the reported packet.
Got ==
  /\ At("scan") /\ main.rest = << >> /\ main.p # NONE
  /\ deq' = RingGet(deq) /\ main' = [main EXCEPT !.at = "report", !.p = NONE, !.a = NONE]
  /\ UNCHANGED <<list, nbr, pkts, tx, lock, assoc, armed, events, schedVars>>

\* tsch_process after the network was left: tsch_reset, which first runs
\* tsch_pending_events_process.
ProcessLeave ==
  /\ At("idle") /\ "process" \in events /\ ~assoc /\ events' = events \ {"process"}
  /\ main' = [main EXCEPT !.at = "rx", !.after = "reset"]
  /\ UNCHANGED <<list, nbr, pkts, tx, deq, lock, assoc, armed, schedVars>>

\* tsch_queue_reset: every queue is flushed with MAC_TX_ERR.
QueueReset ==
  /\ At("reset")
  /\ FreePackets(UNION {ToSet(Contents(nbr[a].ring)) : a \in ToSet(list)})
  /\ nbr' = [a \in NbrAddr |->
               IF OnList(a)
               THEN [nbr[a] EXCEPT !.ring = [RingInit(TSCH_QUEUE_NUM_PER_NEIGHBOR) EXCEPT
                                               !.put = nbr[a].ring.put, !.get = nbr[a].ring.put],
                                   !.win = 0, !.be = TSCH_MAC_MIN_BE]
               ELSE nbr[a]]
  /\ main' = [main EXCEPT !.at = "scan", !.rest = Neighbors]
  /\ UNCHANGED <<list, deq, lock, assoc, armed, events, schedVars>>

\* The rest of tsch_reset: no time source, no current link.  tsch_process
\* goes on with a scan for EBs.
Leave ==
  /\ At("scan") /\ main.rest = << >> /\ main.p = NONE /\ Done
  /\ nbr' = TimeSource(nbr, NONE)
  /\ cur' = NONE
  /\ UNCHANGED <<list, pkts, tx, deq, lock, assoc, armed, events, sched, link, bak, changes>>

\* tsch_associate with an EB of a: the schedule is replaced by a minimal one
\* and a becomes the time source.  Slots do not run, so it is one step.  No
\* room for a neighbour: the schedule is new, but the scan goes on.
Associate(a) ==
  /\ At("idle") /\ ~assoc /\ "process" \notin events
  /\ LET room  == Len(list) < TSCH_QUEUE_MAX_NEIGHBOR_QUEUES
         fresh == IF OnList(a) THEN nbr ELSE [nbr EXCEPT ![a] = NewNbr]
         count == [b \in NbrAddr |->
                     [fresh[b] EXCEPT !.links =
                        (@ + (IF b = Broadcast THEN 257 ELSE 256)
                           - Cardinality(TxLinks(b))) % 256]]
     IN \/ /\ OnList(a) \/ room
           /\ list' = IF OnList(a) THEN list ELSE Append(list, a)
           /\ nbr' = TimeSource(count, a)
           /\ assoc' = TRUE /\ events' = events \cup {"process"}
        \/ /\ ~OnList(a) /\ ~room
           /\ nbr' = [b \in NbrAddr |-> IF OnList(b) THEN count[b] ELSE nbr[b]]
           /\ UNCHANGED <<list, assoc, events>>
  /\ sched' = {1} /\ link' = [link EXCEPT ![1] = MinimalLink] /\ cur' = NONE
  /\ UNCHANGED <<pkts, tx, deq, lock, armed, bak, changes, main>>

\* tsch_process after the network was joined: tsch_slot_operation_start.
ProcessJoin ==
  /\ At("idle") /\ "process" \in events /\ assoc /\ events' = events \ {"process"}
  /\ armed' = TRUE /\ NextLink
  /\ UNCHANGED <<list, nbr, pkts, tx, deq, lock, assoc, sched, link, changes, main>>

----------------------------------------------------------------------------
Init ==
  /\ list = <<Eb, Broadcast>>
  /\ nbr = [a \in NbrAddr |-> [NewNbr EXCEPT !.links = IF a = Broadcast THEN 1 ELSE 0]]
  /\ pkts = {} /\ tx = [p \in Packet |-> 0]
  /\ deq = RingInit(TSCH_DEQUEUED_ARRAY_SIZE)
  /\ lock = "free" /\ assoc = TRUE /\ armed = TRUE /\ events = {}
  /\ sched = {1} /\ link = [b \in Block |-> MinimalLink]
  /\ cur = 1 /\ bak = NONE /\ changes = 0 /\ main = Idle

Interrupt == SlotSkipped \/ SlotTx \/ SlotRx \/ SlotStops

MainStep ==
  \/ Request \/ Take \/ AddNbr \/ RemoveNbr \/ AddLink \/ RemoveLink
  \/ Fill \/ FillFails \/ Put \/ LinkChanged \/ Count \/ SetTimeSource
  \/ RxPending \/ Report \/ Scan \/ FreeNbr \/ Got \/ QueueReset \/ Leave

Next ==
  \/ Interrupt
  \/ MainStep
  \/ \E a \in Addr \cup {Broadcast} : Send(a)
  \/ SendEb
  \/ \E l \in Kinds : BeginAddLink(l)
  \/ \E b \in Block : BeginRemoveLink(b)
  \/ \E a \in Addr \cup {NONE} : NewTimeSource(a)
  \/ PendingEvent
  \/ ProcessLeave
  \/ \E a \in Addr : Associate(a)
  \/ ProcessJoin

Spec == Init /\ [][Next]_vars

\* A slot operation on link b that is not held up, and one after which b is
\* next.
SlotOn(b)     == cur = b /\ lock = "free" /\ (SlotTx \/ SlotRx)
SlotBefore(b) == (SlotSkipped \/ SlotTx \/ SlotRx) /\ cur' = b

\* Fairness.  The main context goes on with what it has begun and takes its
\* events from a queue; slots recur with the period of the slotframe, so that
\* each link comes up again, and critical sections are short against slots.
FairSpec ==
  /\ Spec
  /\ WF_vars(MainStep) /\ SF_vars(PendingEvent)
  /\ SF_vars(ProcessLeave) /\ SF_vars(ProcessJoin)
  /\ \A b \in Block : SF_vars(SlotOn(b)) /\ SF_vars(SlotBefore(b))
----------------------------------------------------------------------------
(* Properties                                                              *)

\* tsch_tx_process_pending has reported the first dequeued packet and not
\* yet removed its index.
Reported ==
  /\ main.p # NONE
  /\ main.at \in {"scan", "free_nbr"} \/ main.op = "remove_nbr"

Waiting(a) == IF OnList(a) THEN Contents(nbr[a].ring) ELSE << >>

Leaving == IF Reported THEN Tail(Contents(deq)) ELSE Contents(deq)

\* The variables hold queues, packets, links and steps of the main context.
TypeOK ==
  /\ IsInjective(list) /\ ToSet(list) \subseteq NbrAddr
  /\ Len(list) <= TSCH_QUEUE_MAX_NEIGHBOR_QUEUES
  /\ \A a \in NbrAddr : /\ nbr[a].win \in 0 .. 2^TSCH_MAC_MAX_BE
                        /\ nbr[a].be \in TSCH_MAC_MIN_BE .. TSCH_MAC_MAX_BE
                        /\ nbr[a].links \in 0 .. 255 /\ nbr[a].src \in BOOLEAN
  /\ pkts \subseteq Packet
  /\ tx \in [Packet -> 0 .. TSCH_MAC_MAX_FRAME_RETRIES + 1]
  /\ lock \in {"free", "requested", "held"} /\ assoc \in BOOLEAN /\ armed \in BOOLEAN
  /\ sched \subseteq Block /\ link \in [Block -> Link]
  /\ cur \in Block \cup {NONE} /\ bak \in Block \cup {NONE}

\* Every allocated packet is in exactly one place, wherever the interrupt
\* falls: in the hands of tsch_queue_add_packet, in one neighbour's queue, or
\* among the dequeued ones that are not reported.  No block is freed while it
\* can still be reached, none is lost, and a neighbour that was freed has
\* left no packet behind.
PacketsAccounted ==
  LET inHand == IF At("put") THEN {main.p} ELSE {}
      queued == [a \in NbrAddr |-> Contents(nbr[a].ring)]
      waits  == [a \in NbrAddr |-> ToSet(queued[a])]
      leaves == ToSet(Leaving)
  IN /\ pkts = inHand \cup leaves \cup UNION {waits[a] : a \in NbrAddr}
     /\ IsInjective(Leaving) /\ inHand \cap leaves = {}
     /\ \A a \in NbrAddr :
          /\ IsInjective(queued[a]) /\ waits[a] \cap (inHand \cup leaves) = {}
          /\ \A b \in NbrAddr : a # b => waits[a] \cap waits[b] = {}
          /\ queued[a] # << >> => OnList(a) \/ At("free_nbr")

\* "How many links do we have to this neighbor?": between operations
\* tx_links_count is that number, also for a neighbour that went and came
\* back, so that its packets are served by the right links and it is kept as
\* long as it has one.  Holds when neighbor_memb has room for every address.
LinksCounted ==
  At("idle") =>
    \A a \in NbrAddr :
      IF OnList(a) THEN nbr[a].links = Cardinality(TxLinks(a)) ELSE TxLinks(a) = {}

\* The slot operation never starts on a link that was removed, although
\* links are freed by the main context while one is already chosen.  It starts
\* only while the network is joined: the slot that leaves it may leave behind
\* a current link that was a backup and is gone.
LinkScheduled == assoc /\ cur # NONE => cur \in sched

\* The queues implement the service of TschFifo: in order, tried at most
\* TSCH_MAC_MAX_FRAME_RETRIES + 1 times, and reported exactly once.
Fifo == INSTANCE TschFifo WITH
  Capacity <- TSCH_QUEUE_NUM_PER_NEIGHBOR - 1,
  MaxTries <- TSCH_MAC_MAX_FRAME_RETRIES + 1,
  q <- [a \in NbrAddr |-> Waiting(a)],
  out <- Leaving,
  tries <- tx

ImplementsFifo == Fifo!FifoSpec

\* "The backup link must have Rx flag set": the slot operation switches to
\* it in order to listen.
BackupListens == bak # NONE => link[bak].rx

\* Every accepted packet is reported, whatever becomes of its transmissions:
\* none waits behind a backoff that does not end or for a link that does not
\* come.  Only an endless stream of broadcasts, which go first on the shared
\* link, can hold up a unicast packet.
AllReported ==
  \A p \in Packet :
    \/ p \in pkts ~> p \notin pkts
    \/ []<><<Put /\ main.a \in {Broadcast, Eb}>>_vars
============================================================================
