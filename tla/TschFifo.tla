------------------------------ MODULE TschFifo ------------------------------
(***************************************************************************)
(* What TSCH promises to the layers that send packets: one queue for each  *)
(* neighbour, served in order; a packet leaves its queue when it was sent  *)
(* or tried often enough, and then its sender is told exactly once, in the *)
(* order in which packets left.  Leaving the network empties the queues.   *)
(* Ring buffers, the lock, the interrupt and the schedule are not seen.    *)
(***************************************************************************)
EXTENDS Naturals, Sequences, SequencesExt

CONSTANTS NbrAddr, Packet, Capacity, MaxTries

VARIABLES
  q,     \* packets waiting for each neighbour
  out,   \* packets that left a queue and were not reported yet
  tries  \* transmissions of each packet

fifoVars == <<q, out, tries>>

FifoInit ==
  /\ q = [a \in NbrAddr |-> << >>]
  /\ out = << >>
  /\ tries = [p \in Packet |-> 0]

InUse(p) == p \in ToSet(out) \/ \E a \in NbrAddr : p \in ToSet(q[a])

\* A packet is accepted at the end of its neighbour's queue.
Accept(a, p) ==
  /\ ~InUse(p) /\ Len(q[a]) < Capacity
  /\ q' = [q EXCEPT ![a] = Append(@, p)]
  /\ UNCHANGED <<out, tries>>

\* The first packet of a queue is transmitted and kept, or leaves.
Transmit(a) ==
  /\ q[a] # << >>
  /\ LET p == Head(q[a])
     IN /\ tries[p] < MaxTries /\ tries' = [tries EXCEPT ![p] = @ + 1]
        /\ \/ tries[p] + 1 < MaxTries /\ UNCHANGED <<q, out>>
           \/ q' = [q EXCEPT ![a] = Tail(@)] /\ out' = Append(out, p)

\* The sender of the first packet that left is told.
Tell ==
  /\ out # << >>
  /\ out' = Tail(out) /\ tries' = [tries EXCEPT ![Head(out)] = 0]
  /\ UNCHANGED q

\* All senders are told that the network was left.
Flush ==
  /\ out = << >>
  /\ q' = [a \in NbrAddr |-> << >>] /\ tries' = [p \in Packet |-> 0]
  /\ UNCHANGED out

FifoNext ==
  \/ \E a \in NbrAddr, p \in Packet : Accept(a, p)
  \/ \E a \in NbrAddr : Transmit(a)
  \/ Tell
  \/ Flush

FifoSpec == FifoInit /\ [][FifoNext]_fifoVars
=============================================================================
