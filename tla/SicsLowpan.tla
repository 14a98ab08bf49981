---------------------------- MODULE SicsLowpan ------------------------------
(***************************************************************************)
(* 6LoWPAN fragmentation and reassembly (net/sicslowpan/sicslowpan.c):     *)
(* nodes run output(), which cuts a datagram into fragments, over a radio  *)
(* that loses and repeats frames; one receiver runs input(), which rebuilds*)
(* the datagrams in a few reassembly contexts and shared fragment buffers. *)
(*                                                                         *)
(* Lengths and offsets count units of eight bytes, the unit of the offset  *)
(* field.  The payload of a frame is named by the datagram it was cut from *)
(* and its offset; a unit of a delivered packet is <<datagram, offset>>.   *)
(* The reassembly timer is a flag that the clock may raise.                *)
(***************************************************************************)
EXTENDS Integers, Sequences, FiniteSets, FiniteSetsExt

CONSTANTS
  Node,          \* senders
  Size,          \* Size[n][k]: length of the k-th datagram of sender n
  Unknown,       \* datagrams <<n, k>> whose header the receiver cannot uncompress
  FragFirst,     \* units of a first fragment, uncompressed headers included
  FragNext,      \* units of a following fragment
  Contexts,      \* SICSLOWPAN_REASS_CONTEXTS
  Buffers,       \* SICSLOWPAN_FRAGMENT_BUFFERS
  UipBufSize,    \* sizeof(uip_buf)
  TagMod,        \* number of datagram tags
  TxStatus,      \* results that the lower layers may report for a frame
  MaxLoss, MaxDup, MaxReboot, \* bounds on what the environment does
  NONE

ASSUME SicsLowpanAssumption ==
  /\ Size \in [Node -> Seq(Nat \ {0})]
  /\ {FragFirst, FragNext, Contexts, Buffers, UipBufSize, TagMod} \subseteq Nat \ {0}
  /\ TxStatus \subseteq {"OK", "NOACK", "COLLISION", "DEFERRED", "ERR_FATAL"}
  /\ {MaxLoss, MaxDup, MaxReboot} \subseteq Nat
  /\ NONE \notin Node \X Nat

VARIABLES
  next,       \* the next datagram of each sender
  out,        \* the datagram that output() of each sender is fragmenting
  my_tag,     \* the next tag of each sender
  air,        \* frames that the receiver will get from each sender
  frag_info,  \* reassembly contexts
  frag_buf,   \* fragment buffers
  delivered,  \* packets given to the IP layer
  lost, dups, reboots

sender == <<next, out, my_tag>>
receiver == <<frag_info, frag_buf, delivered>>
env == <<lost, dups, reboots>>
vars == <<sender, air, receiver, env>>

Context == 1 .. Contexts
Buffer == 1 .. Buffers
Datagram == UNION {{n} \X DOMAIN Size[n] : n \in Node}
Length(d) == Size[d[1]][d[2]]

-----------------------------------------------------------------------------
(* output(): sending a datagram.                                           *)

\* a frame: its header fields and the part of the datagram that it carries
Frame(kind, d, tag, off, pos, len) ==
  [kind |-> kind, d |-> d, size |-> Length(d), tag |-> tag, offset |-> off,
   pos |-> pos, len |-> len]

\* the frame leaves the node unless the lower layers report that it did not
Transmit(n, f, status) ==
  air' = IF status \in {"OK", "NOACK"} THEN [air EXCEPT ![n] = Append(@, f)] ELSE air

NeedsFragments(d) == Length(d) > FragFirst

\* the packet fits into one frame
OutputPlain(n, status) ==
  /\ out[n] = NONE /\ next[n] \in DOMAIN Size[n]
  /\ LET d == <<n, next[n]>>
     IN ~NeedsFragments(d) /\ Transmit(n, Frame("PLAIN", d, 0, 0, 0, Length(d)), status)
  /\ next' = [next EXCEPT ![n] = @ + 1]
  /\ UNCHANGED <<out, my_tag, receiver, env>>

\* queuebuf_numfree() is too low for the estimated number of fragments
OutputNoBuffers(n) ==
  /\ out[n] = NONE /\ next[n] \in DOMAIN Size[n]
  /\ NeedsFragments(<<n, next[n]>>)
  /\ next' = [next EXCEPT ![n] = @ + 1]
  /\ UNCHANGED <<out, my_tag, air, receiver, env>>

NextTag(t) == (t + 1) % TagMod

\* the first fragment; NOACK does not end the datagram here
OutputFirst(n, status) ==
  /\ out[n] = NONE /\ next[n] \in DOMAIN Size[n]
  /\ LET d == <<n, next[n]>>
     IN /\ NeedsFragments(d)
        /\ Transmit(n, Frame("FRAG1", d, my_tag[n], 0, 0, FragFirst), status)
        /\ out' = [out EXCEPT ![n] = IF status \in {"COLLISION", "ERR_FATAL"} THEN NONE
                                     ELSE [d |-> d, tag |-> my_tag[n], done |-> FragFirst]]
  /\ next' = [next EXCEPT ![n] = @ + 1]
  /\ my_tag' = [my_tag EXCEPT ![n] = NextTag(@)]
  /\ UNCHANGED <<receiver, env>>

\* mutant: the offset of the following fragments is one unit low
NextOffsetLow(o) == o.done - 1

\* the offset field of the next fragment: processed_ip_out_len >> 3
NextOffset(o) == o.done

\* one turn of the loop over the following fragments
OutputNext(n, status) ==
  /\ out[n] # NONE
  /\ LET o == out[n]
         len == Min({FragNext, Length(o.d) - o.done})
     IN /\ Transmit(n, Frame("FRAGN", o.d, o.tag, NextOffset(o), o.done, len), status)
        /\ out' = [out EXCEPT ![n] =
                     IF \/ status \in {"COLLISION", "ERR_FATAL", "NOACK"}
                        \/ o.done + len >= Length(o.d)
                       THEN NONE ELSE [o EXCEPT !.done = o.done + len]]
  /\ UNCHANGED <<next, my_tag, receiver, env>>

\* the node loses power: its tags start again
Reboot(n) ==
  /\ reboots < MaxReboot
  /\ reboots' = reboots + 1
  /\ out' = [out EXCEPT ![n] = NONE]
  /\ my_tag' = [my_tag EXCEPT ![n] = 0]
  /\ UNCHANGED <<next, air, receiver, lost, dups>>

-----------------------------------------------------------------------------
(* The radio.                                                              *)

Lose(n) ==
  /\ air[n] # <<>> /\ lost < MaxLoss
  /\ lost' = lost + 1
  /\ air' = [air EXCEPT ![n] = Tail(@)]
  /\ UNCHANGED <<sender, receiver, dups, reboots>>

\* a frame whose acknowledgement was lost is sent again by the lower layers
Repeat(n) ==
  /\ air[n] # <<>> /\ dups < MaxDup
  /\ dups' = dups + 1
  /\ air' = [air EXCEPT ![n] = <<Head(@)>> \o @]
  /\ UNCHANGED <<sender, receiver, lost, reboots>>

-----------------------------------------------------------------------------
(* Reassembly state, [info, buf].                                          *)

Reass == [info |-> frag_info, buf |-> frag_buf]

SetReass(r) == frag_info' = r.info /\ frag_buf' = r.buf

\* clear_fragments, for the contexts cs
ClearFragments(r, cs) ==
  [info |-> [c \in Context |-> IF c \in cs THEN [r.info[c] EXCEPT !.len = 0] ELSE r.info[c]],
   buf |-> [b \in Buffer |-> IF r.buf[b].len > 0 /\ r.buf[b].index \in cs
                               THEN [r.buf[b] EXCEPT !.len = 0] ELSE r.buf[b]]]

ExpiredContexts(r) == {c \in Context : r.info[c].len > 0 /\ r.info[c].expired}

\* mutant: the context of the fragment itself may be freed
TimeoutFragmentsAll(r, not_context) == ClearFragments(r, ExpiredContexts(r))

\* timeout_fragments
TimeoutFragments(r, not_context) == ClearFragments(r, ExpiredContexts(r) \ {not_context})

FreeBuffers(r) == {b \in Buffer : r.buf[b].len = 0}

\* store_fragment, with a free buffer
StoreFragment(r, c, f) ==
  [info |-> r.info,
   buf |-> [r.buf EXCEPT ![Min(FreeBuffers(r))] =
     [len |-> f.len, index |-> c, offset |-> f.offset, pos |-> f.pos, d |-> f.d]]]

\* add_fragment, a first fragment: expired contexts are freed, then the first
\* free one, if there is one, is taken
ForFirst(r) == ClearFragments(r, ExpiredContexts(r))

FreeContexts(r) == {c \in Context : r.info[c].len = 0}

Opened(i, n, f) ==
  [i EXCEPT !.len = f.size, !.tag = f.tag, !.sender = n, !.expired = FALSE, !.opener = f.d]

OpenContext(r, c, n, f) ==
  [info |-> [r.info EXCEPT ![c] = Opened(@, n, f)], buf |-> r.buf]

\* mutant: a context is found by its tag alone
MatchingTag(n, f) ==
  {c \in Context : frag_info[c].len > 0 /\ frag_info[c].tag = f.tag}

\* add_fragment, a following fragment: the contexts with its tag and sender
Matching(n, f) ==
  {c \in Context : /\ frag_info[c].len > 0 /\ frag_info[c].tag = f.tag
                   /\ frag_info[c].sender = n}

Counted(i, f) == [i EXCEPT !.reassembled_len = @ + f.len]

\* the length of the fragment is added to that of its context
CountLen(r, c, f) == [info |-> [r.info EXCEPT ![c] = Counted(@, f)], buf |-> r.buf]

\* mutant: the length is counted before a buffer is found
AddNextEager(c, f) ==
  LET r == IF FreeBuffers(Reass) # {} THEN Reass ELSE TimeoutFragments(Reass, c)
      counted == CountLen(r, c, f)
  IN [ok |-> FreeBuffers(r) # {},
      r |-> IF FreeBuffers(r) = {} THEN counted ELSE StoreFragment(counted, c, f)]

\* its storing: other contexts that have expired are freed if it does not fit
AddNext(c, f) ==
  LET r == IF FreeBuffers(Reass) # {} THEN Reass ELSE TimeoutFragments(Reass, c)
  IN IF FreeBuffers(r) = {} THEN [ok |-> FALSE, r |-> r]
     ELSE [ok |-> TRUE, r |-> CountLen(StoreFragment(r, c, f), c, f)]

\* copy_frags2uip: the first fragment, then the buffers in their order; what
\* none of them covers is left as it was in uip_buf
CopyFrags(r, c, size) ==
  LET covers(i) == {b \in Buffer : /\ r.buf[b].len > 0 /\ r.buf[b].index = c
                                   /\ i \in r.buf[b].offset .. r.buf[b].offset + r.buf[b].len - 1}
      unit(i) == LET bs == covers(i) IN
                 IF bs # {} THEN LET b == r.buf[Max(bs)] IN <<b.d, b.pos + i - b.offset>>
                 ELSE IF i < r.info[c].first_frag_len THEN <<r.info[c].first_frag, i>>
                 ELSE NONE
  IN [i \in 0 .. size - 1 |-> unit(i)]

Packet(d) == [i \in 0 .. Length(d) - 1 |-> <<d, i>>]

-----------------------------------------------------------------------------
(* input(): a frame arrives.                                               *)

Arrives(n, kind) == air[n] # <<>> /\ Head(air[n]).kind = kind

Consume(n) == air' = [air EXCEPT ![n] = Tail(@)] /\ UNCHANGED <<sender, env>>

InputPlain(n) ==
  /\ Arrives(n, "PLAIN")
  /\ delivered' = IF Head(air[n]).d \in Unknown THEN delivered
                  ELSE delivered \cup {Packet(Head(air[n]).d)}
  /\ Consume(n)
  /\ UNCHANGED <<frag_info, frag_buf>>

\* the header of the first fragment is uncompressed into the context; an
\* unknown one leaves the context as it is, and taken
Uncompressed(i, f) ==
  IF f.d \in Unknown THEN i
  ELSE [i EXCEPT !.reassembled_len = f.len, !.first_frag_len = f.len, !.first_frag = f.d]

Uncompress(r, c, f) ==
  [info |-> [r.info EXCEPT ![c] = Uncompressed(@, f)], buf |-> r.buf]

InputFirst(n) ==
  /\ Arrives(n, "FRAG1")
  /\ LET f == Head(air[n])
         r == ForFirst(Reass)
         c == Min(FreeContexts(r))
     IN SetReass(IF FreeContexts(r) = {} THEN r
                 ELSE Uncompress(OpenContext(r, c, n, f), c, f))
  /\ Consume(n)
  /\ UNCHANGED delivered

\* mutant: a packet counts as complete one unit early
CompleteEarly(r, c, f) == r.info[c].reassembled_len >= f.size - 1

Complete(r, c, f) == r.info[c].reassembled_len >= f.size

\* the length of the datagram takes the place of the collected length
Filled(i, f) == [i EXCEPT !.reassembled_len = f.size]

Fill(r, c, f) == [info |-> [r.info EXCEPT ![c] = Filled(@, f)], buf |-> r.buf]

InputNext(n) ==
  /\ Arrives(n, "FRAGN")
  /\ LET f == Head(air[n]) IN
     IF Matching(n, f) = {} THEN UNCHANGED receiver
     ELSE LET c == Min(Matching(n, f))
              a == AddNext(c, f)
              fits == f.offset + f.len <= UipBufSize
          IN IF a.ok /\ fits /\ Complete(a.r, c, f)
               THEN /\ delivered' = delivered \cup {CopyFrags(a.r, c, f.size)}
                    /\ SetReass(ClearFragments(Fill(a.r, c, f), {c}))
               ELSE UNCHANGED delivered /\ SetReass(a.r)
  /\ Consume(n)

\* the reassembly timer of a context runs out
Expire(c) ==
  /\ frag_info[c].len > 0 /\ ~frag_info[c].expired
  /\ frag_info' = [frag_info EXCEPT ![c].expired = TRUE]
  /\ UNCHANGED <<sender, air, frag_buf, delivered, env>>

-----------------------------------------------------------------------------
Init ==
  /\ next = [n \in Node |-> 1] /\ out = [n \in Node |-> NONE]
  /\ my_tag = [n \in Node |-> 0] /\ air = [n \in Node |-> <<>>]
  /\ frag_info = [c \in Context |->
       [len |-> 0, tag |-> 0, sender |-> NONE, reassembled_len |-> 0, expired |-> FALSE,
        first_frag_len |-> 0, first_frag |-> NONE, opener |-> NONE]]
  /\ frag_buf = [b \in Buffer |-> [len |-> 0, index |-> 0, offset |-> 0, pos |-> 0, d |-> NONE]]
  /\ delivered = {} /\ lost = 0 /\ dups = 0 /\ reboots = 0

Done ==
  /\ \A n \in Node : next[n] > Len(Size[n]) /\ out[n] = NONE /\ air[n] = <<>>
  /\ UNCHANGED vars

Normal ==
  \/ \E n \in Node, s \in TxStatus : OutputPlain(n, s)
  \/ \E n \in Node, s \in TxStatus : OutputFirst(n, s)
  \/ \E n \in Node, s \in TxStatus : OutputNext(n, s)
  \/ \E n \in Node : InputPlain(n)
  \/ \E n \in Node : InputFirst(n)
  \/ \E n \in Node : InputNext(n)
  \/ Done

Trouble ==
  \/ \E n \in Node : OutputNoBuffers(n)
  \/ \E n \in Node : Reboot(n)
  \/ \E n \in Node : Lose(n)
  \/ \E n \in Node : Repeat(n)
  \/ \E c \in Context : Expire(c)

Next == Normal \/ Trouble

Spec == Init /\ [][Next]_vars

\* nothing goes wrong, every output() runs to its end and every frame that
\* arrives is handled
QuietSpec ==
  /\ Init /\ [][Normal]_vars
  /\ \A n \in Node :
       /\ WF_vars(\E s \in TxStatus : OutputPlain(n, s) \/ OutputFirst(n, s) \/ OutputNext(n, s))
       /\ WF_vars(InputPlain(n) \/ InputFirst(n) \/ InputNext(n))

-----------------------------------------------------------------------------
(* Properties.                                                             *)

Used(c) == {b \in Buffer : frag_buf[b].len > 0 /\ frag_buf[b].index = c}

\* The state has the shape of the C data.
TypeOK ==
  /\ \A n \in Node : next[n] \in 1 .. Len(Size[n]) + 1
  /\ my_tag \in [Node -> 0 .. TagMod - 1]
  /\ \A c \in Context : frag_info[c].len \in {0} \cup {Length(d) : d \in Datagram}
  /\ \A b \in Buffer : /\ frag_buf[b].len \in 0 .. FragNext
                       /\ frag_buf[b].index \in 0 .. Contexts

\* A fragment buffer in use belongs to a context in use, whatever is lost,
\* repeated or expires: none is leaked (clear_fragments, timeout_fragments,
\* store_fragment).
NoOrphanBuffer ==
  \A b \in Buffer : frag_buf[b].len > 0 =>
    frag_buf[b].index \in Context /\ frag_info[frag_buf[b].index].len > 0

\* The length that decides when a packet is complete is the length of what is
\* stored, also after a fragment found no buffer (add_fragment, input).
LenAccounted ==
  \A c \in Context : frag_info[c].len > 0 =>
    frag_info[c].reassembled_len =
      frag_info[c].first_frag_len + MapThenSumSet(LAMBDA b : frag_buf[b].len, Used(c))

\* Fragments of different datagrams are never collected in one context
\* (add_fragment, which trusts the sender address and the tag), as long as no
\* sender reboots and starts its tags again.
OneDatagramPerContext ==
  reboots = 0 => \A c \in Context : frag_info[c].len > 0 =>
    \A b \in Used(c) : frag_buf[b].d = frag_info[c].opener

\* Every packet that input() gives to the IP layer is a datagram that some node
\* sent, whole and in order, although frames are lost, senders interleave and
\* give up half way, and contexts expire; until a sender reboots or a frame is
\* repeated, which add_fragment does not recognise.
DeliveredIntact ==
  dups = 0 /\ reboots = 0 => \A p \in delivered : \E d \in Datagram : p = Packet(d)

\* When nothing is lost and the receiver has room, every datagram is delivered.
AllDelivered == <>(delivered = {Packet(d) : d \in Datagram})

-----------------------------------------------------------------------------
(* What a comment says.                                                    *)

\* "If we have a full IP packet in sicslowpan_buf, deliver it to the IP stack":
\* what is delivered has no hole.
FullPacketOnly == \A p \in delivered : \A i \in DOMAIN p : p[i] # NONE
=============================================================================
