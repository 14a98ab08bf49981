---------------------------- MODULE MCSicsLowpan ----------------------------
(* Two senders.  A first fragment carries two units and a following one    *)
(* two more, so a datagram of five units needs three fragments, one of     *)
(* three units two and one of two units none.                              *)
EXTENDS SicsLowpan

CONSTANTS nodeA, nodeB

MCNode == {nodeA, nodeB}
MCNodeA == {nodeA}

\* the second datagram of nodeA is too long for uip_buf
SizeFull == [n \in Node |-> IF n = nodeA THEN <<3, 5>> ELSE <<4, 2>>]
SizeLive == [n \in Node |-> IF n = nodeA THEN <<5, 3>> ELSE <<2, 5>>]
SizeLong == [n \in Node |-> <<5>>]
UnknownPlain == {<<nodeB, 2>>}
AllStatus == {"OK", "NOACK", "COLLISION", "DEFERRED", "ERR_FATAL"}
=============================================================================
