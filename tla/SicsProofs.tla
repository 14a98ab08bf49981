----------------------------- MODULE SicsProofs -----------------------------
(***************************************************************************)
(* Proofs about 6LoWPAN reassembly (SicsLowpan): no fragment buffer is     *)
(* leaked, the collected length is that of what is stored, fragments of    *)
(* different datagrams are not mixed, and what is delivered was sent.      *)
(***************************************************************************)
EXTENDS SicsLowpan, SeqLemmas

\* Only datagrams that fit into one frame have headers the receiver cannot
\* uncompress: input() keeps the context of such a first fragment with the
\* lengths of its last owner.
HeadersKnown == \A d \in Datagram : NeedsFragments(d) => d \notin Unknown

\* No sender comes round to a tag it has used.
TagsSuffice == \A n \in Node : Len(Size[n]) <= TagMod

-----------------------------------------------------------------------------
(* The inductive invariant.                                                *)

Tags == 0 .. TagMod - 1
OptDatagram == Datagram \cup {NONE}

Info == [len : Nat, tag : Tags, sender : Node \cup {NONE}, reassembled_len : Nat,
         expired : BOOLEAN, first_frag_len : Nat, first_frag : OptDatagram,
         opener : OptDatagram]

Buf == [len : 0 .. FragNext, index : 0 .. Contexts, offset : Nat, pos : Nat, d : OptDatagram]

Out == [d : Datagram, tag : Tags, done : Nat]

Frames == [kind : {"PLAIN", "FRAG1", "FRAGN"}, d : Datagram, size : Nat, tag : Tags,
           offset : Nat, pos : Nat, len : Nat]

Reassembly == [info : [Context -> Info], buf : [Buffer -> Buf]]

Types ==
  /\ next \in [Node -> Nat] /\ \A n \in Node : next[n] \in 1 .. Len(Size[n]) + 1
  /\ out \in [Node -> Out \cup {NONE}]
  /\ my_tag \in [Node -> Tags]
  /\ air \in [Node -> Seq(Frames)]
  /\ frag_info \in [Context -> Info] /\ frag_buf \in [Buffer -> Buf]
  /\ lost \in Nat /\ dups \in Nat /\ reboots \in Nat

\* The datagram d of sender n has been given to output().
Begun(nx, n, d) == d \in Datagram /\ d[1] = n /\ d[2] < nx[n]

\* A frame carries the part of a datagram that its header says.
GoodFrame(f) ==
  /\ f.size = Length(f.d)
  /\ f.kind # "PLAIN" =>
       /\ NeedsFragments(f.d) /\ f.offset = f.pos /\ f.len > 0
       /\ f.offset + f.len <= Length(f.d)
  /\ f.kind = "FRAG1" => f.offset = 0 /\ f.len = FragFirst
  /\ f.kind = "FRAGN" => f.len <= FragNext

\* Frames under way and the one being cut come from datagrams that were begun.
FramesGood ==
  \A n \in Node : \A i \in 1 .. Len(air[n]) : Begun(next, n, air[n][i].d) /\ GoodFrame(air[n][i])

OutGood ==
  \A n \in Node : out[n] # NONE =>
    /\ Begun(next, n, out[n].d) /\ NeedsFragments(out[n].d)
    /\ FragFirst <= out[n].done /\ out[n].done < Length(out[n].d)

\* An open context is held for a datagram of its sender.
Held(i) == i.len > 0 => /\ i.opener \in Datagram /\ i.sender = i.opener[1]
                        /\ i.len = Length(i.opener) /\ NeedsFragments(i.opener)

\* the buffers of context c in the reassembly state r
Stored(r, c) == {b \in Buffer : r.buf[b].len > 0 /\ r.buf[b].index = c}

NoOrphan(r) ==
  \A b \in Buffer : r.buf[b].len > 0 =>
    r.buf[b].index \in Context /\ r.info[r.buf[b].index].len > 0

Lengths(r) == [b \in Buffer |-> r.buf[b].len]

Accounted(r, c) ==
  r.info[c].reassembled_len = r.info[c].first_frag_len + SumOver(Lengths(r), Stored(r, c))

\* A sender's tags that the receiver may still meet, with their datagrams.
LiveFrame(n, a, t, d) ==
  \E i \in 1 .. Len(a[n]) : a[n][i].kind # "PLAIN" /\ a[n][i].tag = t /\ a[n][i].d = d
LiveOut(n, o, t, d) == o[n] # NONE /\ o[n].tag = t /\ o[n].d = d
LiveContext(n, g, t, d) ==
  \E c \in Context : g[c].len > 0 /\ g[c].sender = n /\ g[c].tag = t /\ g[c].opener = d
Live(n, a, o, g, t, d) == LiveFrame(n, a, t, d) \/ LiveOut(n, o, t, d) \/ LiveContext(n, g, t, d)

\* A live tag names one datagram, and a tag yet to be given out is not live.
TagsUnique(n, a, o, g) ==
  \A t \in Tags : \A d, e \in Datagram : Live(n, a, o, g, t, d) /\ Live(n, a, o, g, t, e) => d = e

TagsFresh(n, a, o, g, k, m) ==
  k <= Len(Size[n]) =>
    m < k /\ \A t \in Tags : \A d \in Datagram : Live(n, a, o, g, t, d) => t < m

TagsGood ==
  \A n \in Node : TagsUnique(n, air, out, frag_info)
                  /\ TagsFresh(n, air, out, frag_info, next[n], my_tag[n])

\* Everything collected in context c comes from its opener.
OneSource(r, c) == \A b \in Stored(r, c) : r.buf[b].d = r.info[c].opener

\* Fragments of a datagram follow each other without overlap.
Before(f, h, d) == f.kind # "PLAIN" /\ f.d = d => f.offset + f.len <= h

InOrder(q, o) ==
  /\ \A i, j \in 1 .. Len(q) : i < j /\ q[j].kind # "PLAIN" => Before(q[i], q[j].offset, q[j].d)
  /\ o # NONE => \A i \in 1 .. Len(q) : Before(q[i], o.done, o.d)

\* What is still to come of datagram d starts at h or later.
Ahead(a, o, d, h) ==
  \A n \in Node :
    /\ \A i \in 1 .. Len(a[n]) : a[n][i].kind # "PLAIN" /\ a[n][i].d = d => h <= a[n][i].offset
    /\ o[n] # NONE /\ o[n].d = d => h <= o[n].done

\* unit i of context c is stored
Covered(r, c, i) ==
  i < r.info[c].first_frag_len \/ \E b \in Stored(r, c) : r.buf[b].offset <= i /\ i < r.buf[b].offset + r.buf[b].len

\* Context c has collected parts of the first h units of its datagram, all of
\* them when the collected length is h.
Collected(r, c, h) ==
  /\ r.info[c].first_frag = r.info[c].opener /\ r.info[c].first_frag_len <= h
  /\ r.info[c].reassembled_len <= h /\ h <= Length(r.info[c].opener)
  /\ \A b \in Stored(r, c) : /\ r.buf[b].d = r.info[c].opener /\ r.buf[b].pos = r.buf[b].offset
                             /\ r.buf[b].offset + r.buf[b].len <= h
  /\ r.info[c].reassembled_len = h => \A i \in 0 .. h - 1 : Covered(r, c, i)

Growing(r, c, a, o) == \E h \in Nat : Collected(r, c, h) /\ Ahead(a, o, r.info[c].opener, h)

\* What holds of an open context c in the reassembly state r, with the frames
\* in a and the datagrams being cut in o still to come, before the datagrams
\* nx of the senders.
Sound(r, c, nx, a, o, dp, rb) ==
  r.info[c].len > 0 =>
    /\ Held(r.info[c]) /\ Begun(nx, r.info[c].sender, r.info[c].opener)
    /\ HeadersKnown => Accounted(r, c)
    /\ TagsSuffice /\ rb = 0 => OneSource(r, c)
    /\ HeadersKnown /\ TagsSuffice /\ dp = 0 /\ rb = 0 => Growing(r, c, a, o)

AllSound == \A c \in Context : Sound(Reass, c, next, air, out, dups, reboots)

Intact == \A p \in delivered : \E d \in Datagram : p = Packet(d)

SicsInv ==
  /\ Types /\ FramesGood /\ OutGood
  /\ NoOrphan(Reass) /\ AllSound
  /\ TagsSuffice /\ reboots = 0 => TagsGood
  /\ dups = 0 /\ reboots = 0 => \A n \in Node : InOrder(air[n], out[n])
  /\ HeadersKnown /\ TagsSuffice /\ dups = 0 /\ reboots = 0 => Intact

-----------------------------------------------------------------------------
(* The constants.                                                          *)

\* The parameters as numbers, and the length of a datagram.
LEMMA Parameters ==
  /\ Size \in [Node -> Seq(Nat)]
  /\ FragFirst \in Nat /\ FragFirst > 0 /\ FragNext \in Nat /\ FragNext > 0
  /\ Contexts \in Nat /\ Contexts > 0 /\ Buffers \in Nat /\ Buffers > 0
  /\ UipBufSize \in Nat /\ TagMod \in Nat /\ TagMod > 0
  /\ MaxLoss \in Nat /\ MaxDup \in Nat /\ MaxReboot \in Nat
  /\ Context \in SUBSET Nat /\ Buffer \in SUBSET Nat /\ 0 \in Tags /\ Tags \subseteq Nat
  <1>1. Size \in [Node -> Seq(Nat)]
    BY SicsLowpanAssumption
  <1>2. {FragFirst, FragNext, Contexts, Buffers, UipBufSize, TagMod} \subseteq Nat \ {0}
    BY SicsLowpanAssumption
  <1>3. {MaxLoss, MaxDup, MaxReboot} \subseteq Nat
    BY SicsLowpanAssumption
  <1> QED BY <1>1, <1>2, <1>3 DEF Context, Buffer, Tags

\* A datagram is a sender and the number of one of its datagrams.
LEMMA DatagramIs ==
  /\ \A n \in Node : \A k \in 1 .. Len(Size[n]) : <<n, k>> \in Datagram
  /\ \A d \in Datagram : /\ d[1] \in Node /\ d[2] \in 1 .. Len(Size[d[1]]) /\ d = <<d[1], d[2]>>
                         /\ Length(d) \in Nat
  <1>1. \A n \in Node : Size[n] \in Seq(Nat) /\ DOMAIN Size[n] = 1 .. Len(Size[n])
    BY Parameters
  <1>2. ASSUME NEW n \in Node, NEW k \in 1 .. Len(Size[n]) PROVE <<n, k>> \in Datagram
    BY <1>1, <1>2 DEF Datagram
  <1>3. ASSUME NEW d \in Datagram
        PROVE  d[1] \in Node /\ d[2] \in 1 .. Len(Size[d[1]]) /\ d = <<d[1], d[2]>>
               /\ Length(d) \in Nat
    <2>1. PICK n \in Node : d \in {n} \X DOMAIN Size[n]
      BY DEF Datagram
    <2>2. d = <<d[1], d[2]>> /\ d[1] = n /\ d[2] \in 1 .. Len(Size[n])
      BY <1>1, <2>1
    <2> QED BY <1>1, <2>2 DEF Length
  <1> QED BY <1>2, <1>3

-----------------------------------------------------------------------------
(* The records of the reassembly state.                                    *)

\* Opening a context keeps the lengths and the first fragment.
LEMMA OpenedIs ==
  ASSUME NEW i \in Info, NEW n \in Node, NEW f \in Frames
  PROVE  /\ Opened(i, n, f) \in Info
         /\ Opened(i, n, f).len = f.size /\ Opened(i, n, f).tag = f.tag
         /\ Opened(i, n, f).sender = n /\ Opened(i, n, f).opener = f.d
         /\ Opened(i, n, f).reassembled_len = i.reassembled_len
         /\ Opened(i, n, f).first_frag_len = i.first_frag_len
         /\ Opened(i, n, f).first_frag = i.first_frag
  BY DEF Opened, Info, Frames, OptDatagram

\* Uncompressing a known header counts and names the first fragment.
LEMMA UncompressedIs ==
  ASSUME NEW i \in Info, NEW f \in Frames, f.d \notin Unknown
  PROVE  /\ Uncompressed(i, f) \in Info
         /\ Uncompressed(i, f).len = i.len /\ Uncompressed(i, f).tag = i.tag
         /\ Uncompressed(i, f).sender = i.sender /\ Uncompressed(i, f).opener = i.opener
         /\ Uncompressed(i, f).reassembled_len = f.len
         /\ Uncompressed(i, f).first_frag_len = f.len
         /\ Uncompressed(i, f).first_frag = f.d
  BY DEF Uncompressed, Info, Frames, OptDatagram

\* Counting a fragment changes the collected length alone.
LEMMA CountedIs ==
  ASSUME NEW i \in Info, NEW f \in Frames
  PROVE  /\ Counted(i, f) \in Info
         /\ Counted(i, f).len = i.len /\ Counted(i, f).tag = i.tag
         /\ Counted(i, f).sender = i.sender /\ Counted(i, f).opener = i.opener
         /\ Counted(i, f).reassembled_len = i.reassembled_len + f.len
         /\ Counted(i, f).first_frag_len = i.first_frag_len
         /\ Counted(i, f).first_frag = i.first_frag
  BY DEF Counted, Info, Frames

\* Filling in the length leaves the context open.
LEMMA FilledIs ==
  ASSUME NEW i \in Info, NEW f \in Frames
  PROVE  /\ Filled(i, f) \in Info /\ Filled(i, f).len = i.len
  BY DEF Filled, Info, Frames

-----------------------------------------------------------------------------
(* What the steps of input() do to the contexts.                           *)

Alike(i, j) ==
  /\ i.len = j.len /\ i.tag = j.tag /\ i.sender = j.sender /\ i.opener = j.opener
  /\ i.reassembled_len = j.reassembled_len
  /\ i.first_frag_len = j.first_frag_len /\ i.first_frag = j.first_frag

\* Context c is in z what it was in r, up to its timer.
Kept(r, z, c) ==
  /\ Alike(r.info[c], z.info[c])
  /\ Stored(z, c) = Stored(r, c)
  /\ \A b \in Stored(r, c) : z.buf[b] = r.buf[b]

Valid(r) == r \in Reassembly /\ NoOrphan(r)

\* The fields of the contexts and the buffers are numbers.
LEMMA ReassemblyIs ==
  ASSUME NEW r \in Reassembly
  PROVE  /\ r = [info |-> r.info, buf |-> r.buf]
         /\ \A c \in Context : /\ r.info[c] \in Info /\ r.info[c].len \in Nat
                               /\ r.info[c].first_frag_len \in Nat
                               /\ r.info[c].reassembled_len \in Nat
         /\ \A b \in Buffer : /\ r.buf[b] \in Buf /\ r.buf[b].len \in Nat
                              /\ r.buf[b].offset \in Nat
                              /\ r.buf[b].pos \in Nat /\ r.buf[b].index \in Nat
  BY Parameters DEF Reassembly, Info, Buf

\* The buffers of a context are finitely many, and their lengths numbers.
LEMMA StoredFinite ==
  ASSUME NEW r \in Reassembly, NEW c
  PROVE  /\ IsFiniteSet(Stored(r, c))
         /\ \A b \in Stored(r, c) : b \in Buffer /\ Lengths(r)[b] = r.buf[b].len
                                    /\ Lengths(r)[b] \in Nat
  <1>1. IsFiniteSet(Buffer)
    BY Parameters, FS_Interval DEF Buffer
  <1>2. Stored(r, c) \in SUBSET Buffer
    BY DEF Stored
  <1>3. IsFiniteSet(Stored(r, c))
    BY <1>1, <1>2, FS_Subset
  <1> QED BY <1>2, <1>3, ReassemblyIs DEF Lengths

\* Everything said of a context holds of a context that is kept.
LEMMA KeptKeeps ==
  ASSUME NEW r \in Reassembly, NEW z \in Reassembly, NEW c \in Context, Kept(r, z, c)
  PROVE  /\ Accounted(r, c) => Accounted(z, c)
         /\ OneSource(r, c) => OneSource(z, c)
         /\ \A h : Collected(r, c, h) => Collected(z, c, h)
         /\ Held(r.info[c]) => Held(z.info[c])
  <1>1. \A b \in Stored(r, c) : Lengths(r)[b] = Lengths(z)[b]
    BY StoredFinite DEF Kept
  <1>2. SumOver(Lengths(r), Stored(r, c)) = SumOver(Lengths(z), Stored(r, c))
    BY <1>1, StoredFinite, SumSame
  <1>3. Accounted(r, c) => Accounted(z, c)
    BY <1>2 DEF Accounted, Kept, Alike
  <1>4. OneSource(r, c) => OneSource(z, c)
    BY DEF OneSource, Kept, Alike
  <1>5. ASSUME NEW i, Covered(r, c, i) PROVE Covered(z, c, i)
    BY <1>5 DEF Covered, Kept, Alike
  <1>6. ASSUME NEW h, Collected(r, c, h) PROVE Collected(z, c, h)
    <2>1. \A i : Covered(r, c, i) => Covered(z, c, i)
      BY <1>5
    <2> QED BY <1>6, <2>1 DEF Collected, Kept, Alike
  <1>7. Held(r.info[c]) => Held(z.info[c])
    BY DEF Held, Kept, Alike
  <1> QED BY <1>3, <1>4, <1>6, <1>7

\* Keeping is transitive.
LEMMA KeptTwice ==
  ASSUME NEW r, NEW y, NEW z, NEW c, Kept(r, y, c), Kept(y, z, c)
  PROVE  Kept(r, z, c)
  BY DEF Kept, Alike

\* clear_fragments closes the given contexts and keeps the others.
LEMMA ClearIs ==
  ASSUME NEW r, Valid(r), NEW cs \in SUBSET Context
  PROVE  LET z == ClearFragments(r, cs)
         IN  /\ Valid(z)
             /\ \A c \in cs : z.info[c].len = 0
             /\ \A c \in Context \ cs : Kept(r, z, c)
  <1> DEFINE I == [c \in Context |-> IF c \in cs THEN [r.info[c] EXCEPT !.len = 0] ELSE r.info[c]]
             B == [b \in Buffer |-> IF r.buf[b].len > 0 /\ r.buf[b].index \in cs
                                      THEN [r.buf[b] EXCEPT !.len = 0] ELSE r.buf[b]]
             z == ClearFragments(r, cs)
  <1>1. z = [info |-> I, buf |-> B]
    BY DEF ClearFragments
  <1>2. r \in Reassembly /\ NoOrphan(r)
    BY DEF Valid
  <1>3. ASSUME NEW c \in Context
        PROVE  /\ I[c] \in Info
               /\ c \in cs => I[c].len = 0
               /\ c \notin cs => I[c] = r.info[c]
    BY <1>2, ReassemblyIs DEF Info
  <1>4. ASSUME NEW b \in Buffer
        PROVE  /\ B[b] \in Buf
               /\ B[b].len > 0 => B[b] = r.buf[b] /\ r.buf[b].index \notin cs
               /\ r.buf[b].index \notin cs => B[b] = r.buf[b]
    <2> DEFINE v == r.buf[b]
    <2>1. v \in Buf /\ FragNext \in Nat
      BY <1>2, ReassemblyIs, Parameters
    <2>2. B[b] = IF v.len > 0 /\ v.index \in cs THEN [v EXCEPT !.len = 0] ELSE v
      OBVIOUS
    <2> HIDE DEF v, B
    <2>3. [v EXCEPT !.len = 0] \in Buf /\ [v EXCEPT !.len = 0].len = 0
      BY <2>1 DEF Buf
    <2>4. B[b] \in Buf /\ (B[b].len > 0 => B[b] = v /\ v.index \notin cs)
          /\ (v.index \notin cs => B[b] = v)
      <3>1. CASE v.len > 0 /\ v.index \in cs
        BY <2>2, <2>3, <3>1
      <3>2. CASE ~(v.len > 0 /\ v.index \in cs)
        BY <2>1, <2>2, <3>2
      <3> QED BY <3>1, <3>2
    <2> QED BY <2>4 DEF v
  <1>5. I \in [Context -> Info] /\ B \in [Buffer -> Buf]
    <2>1. I = [c \in Context |-> I[c]] /\ B = [b \in Buffer |-> B[b]]
      OBVIOUS
    <2> HIDE DEF I, B
    <2> QED BY <1>3, <1>4, <2>1
  <1> HIDE DEF I, B, z
  <1>6. z \in Reassembly /\ z.info = I /\ z.buf = B
    BY <1>1, <1>5 DEF Reassembly
  <1>7. NoOrphan(z)
    BY <1>2, <1>3, <1>4, <1>6 DEF NoOrphan
  <1>8. ASSUME NEW c \in Context \ cs PROVE Kept(r, z, c)
    <2>1. Stored(z, c) = Stored(r, c) /\ \A b \in Stored(r, c) : z.buf[b] = r.buf[b]
      BY <1>4, <1>6 DEF Stored
    <2>2. z.info[c] = r.info[c]
      BY <1>3, <1>6
    <2> QED BY <2>1, <2>2 DEF Kept, Alike
  <1>9. \A c \in cs : z.info[c].len = 0
    BY <1>3, <1>6
  <1> QED BY <1>6, <1>7, <1>8, <1>9 DEF Valid, z

\* A first fragment takes a closed context, which has no buffers.
LEMMA OpenIs ==
  ASSUME NEW r, Valid(r), NEW c \in Context, r.info[c].len = 0,
         NEW n \in Node, NEW f \in Frames, f.size > 0
  PROVE  LET z == Uncompress(OpenContext(r, c, n, f), c, f)
         IN  /\ Valid(z)
             /\ Stored(z, c) = {}
             /\ z.info[c].len = f.size /\ z.info[c].tag = f.tag
             /\ z.info[c].sender = n /\ z.info[c].opener = f.d
             /\ f.d \notin Unknown =>
                  z.info[c].reassembled_len = f.len /\ z.info[c].first_frag_len = f.len
                  /\ z.info[c].first_frag = f.d
             /\ \A x \in Context \ {c} : Kept(r, z, x)
  <1> DEFINE i == Opened(r.info[c], n, f)
             j == Uncompressed(i, f)
             z == Uncompress(OpenContext(r, c, n, f), c, f)
  <1>1. r \in Reassembly /\ NoOrphan(r) /\ r.info[c] \in Info
        /\ r.info \in [Context -> Info] /\ r.buf \in [Buffer -> Buf]
    BY ReassemblyIs DEF Valid, Reassembly
  <1>2. z = [info |-> [r.info EXCEPT ![c] = j], buf |-> r.buf]
    BY <1>1 DEF OpenContext, Uncompress
  <1>3. /\ i \in Info /\ i.len = f.size /\ i.tag = f.tag /\ i.sender = n /\ i.opener = f.d
    BY <1>1, OpenedIs
  <1> HIDE DEF i
  <1>4. /\ j \in Info /\ j.len = f.size /\ j.tag = f.tag /\ j.sender = n /\ j.opener = f.d
        /\ f.d \notin Unknown =>
             j.reassembled_len = f.len /\ j.first_frag_len = f.len /\ j.first_frag = f.d
    <2>1. CASE f.d \in Unknown
      BY <1>3, <2>1 DEF Uncompressed
    <2>2. CASE f.d \notin Unknown
      BY <1>3, <2>2, UncompressedIs
    <2> QED BY <2>1, <2>2
  <1> HIDE DEF j, z
  <1>5. /\ z \in Reassembly /\ z.buf = r.buf /\ z.info[c] = j
        /\ \A x \in Context \ {c} : z.info[x] = r.info[x]
    BY <1>1, <1>2, <1>4 DEF Reassembly
  <1>6. Stored(z, c) = {} /\ \A x : Stored(z, x) = Stored(r, x)
    <2>1. \A x : Stored(z, x) = Stored(r, x)
      BY <1>5 DEF Stored
    <2>2. \A b \in Buffer : ~(r.buf[b].len > 0 /\ r.buf[b].index = c)
      <3>1. ~(r.info[c].len > 0)
        OBVIOUS
      <3> QED BY <1>1, <3>1 DEF NoOrphan
    <2>3. Stored(r, c) = {}
      BY <2>2 DEF Stored
    <2> QED BY <2>1, <2>3
  <1>7. NoOrphan(z)
    BY <1>1, <1>4, <1>5 DEF NoOrphan
  <1>8. \A x \in Context \ {c} : Kept(r, z, x)
    BY <1>5, <1>6 DEF Kept, Alike
  <1> QED BY <1>4, <1>5, <1>6, <1>7, <1>8 DEF Valid, z

\* A following fragment takes a free buffer for an open context.
LEMMA AddIs ==
  ASSUME NEW r, Valid(r), NEW c \in Context, r.info[c].len > 0, FreeBuffers(r) # {},
         NEW f \in Frames, f.len > 0, f.len <= FragNext
  PROVE  LET z == CountLen(StoreFragment(r, c, f), c, f)
         IN  /\ Valid(z)
             /\ z.info[c] = Counted(r.info[c], f)
             /\ \E b \in Buffer \ Stored(r, c) :
                  /\ Stored(z, c) = Stored(r, c) \cup {b}
                  /\ z.buf[b].len = f.len /\ z.buf[b].offset = f.offset
                  /\ z.buf[b].pos = f.pos /\ z.buf[b].d = f.d
                  /\ \A x \in Stored(r, c) : z.buf[x] = r.buf[x]
             /\ \A x \in Context \ {c} : Kept(r, z, x)
  <1> DEFINE b == Min(FreeBuffers(r))
             v == [len |-> f.len, index |-> c, offset |-> f.offset, pos |-> f.pos, d |-> f.d]
             i == Counted(r.info[c], f)
             z == CountLen(StoreFragment(r, c, f), c, f)
  <1>1. r \in Reassembly /\ NoOrphan(r) /\ r.info[c] \in Info
        /\ r.info \in [Context -> Info] /\ r.buf \in [Buffer -> Buf]
    BY ReassemblyIs DEF Valid, Reassembly
  <1>2. z = [info |-> [r.info EXCEPT ![c] = i], buf |-> [r.buf EXCEPT ![b] = v]]
    BY <1>1 DEF CountLen, StoreFragment
  <1>3. b \in Buffer /\ r.buf[b].len = 0
    <2>1. FreeBuffers(r) \in SUBSET Nat
      BY Parameters DEF FreeBuffers
    <2>2. b \in FreeBuffers(r)
      BY <2>1, MinIs
    <2> QED BY <2>2 DEF FreeBuffers
  <1>4. v \in Buf /\ v.len = f.len /\ v.index = c /\ v.offset = f.offset
        /\ v.pos = f.pos /\ v.d = f.d
    <2>1. f.d \in OptDatagram /\ f.len \in Nat /\ f.offset \in Nat /\ f.pos \in Nat
      BY DEF Frames, OptDatagram
    <2>2. c \in 0 .. Contexts /\ f.len \in 0 .. FragNext
      BY <2>1, Parameters DEF Context
    <2> QED BY <2>1, <2>2 DEF Buf
  <1>5. i \in Info /\ i.len = r.info[c].len
    BY <1>1, CountedIs
  <1> HIDE DEF b, v, i, z
  <1>6. /\ z \in Reassembly /\ z.buf = [r.buf EXCEPT ![b] = v] /\ z.info = [r.info EXCEPT ![c] = i]
    BY <1>1, <1>2, <1>3, <1>4, <1>5 DEF Reassembly
  <1>7. /\ z.info[c] = i /\ \A x \in Context \ {c} : z.info[x] = r.info[x]
        /\ z.buf[b] = v /\ \A x \in Buffer \ {b} : z.buf[x] = r.buf[x]
    BY <1>1, <1>3, <1>6
  <1>8. b \notin Stored(r, c) /\ Stored(z, c) = Stored(r, c) \cup {b}
        /\ \A x \in Stored(r, c) : z.buf[x] = r.buf[x]
    BY <1>3, <1>4, <1>7 DEF Stored
  <1>9. ASSUME NEW x \in Context \ {c} PROVE Kept(r, z, x)
    <2>1. Stored(z, x) = Stored(r, x) /\ \A y \in Stored(r, x) : z.buf[y] = r.buf[y]
      BY <1>3, <1>4, <1>7 DEF Stored
    <2> QED BY <1>7, <2>1 DEF Kept, Alike
  <1>10. NoOrphan(z)
    <2>1. ASSUME NEW y \in Buffer, z.buf[y].len > 0
          PROVE  z.buf[y].index \in Context /\ r.info[z.buf[y].index].len > 0
      <3>1. CASE y = b
        BY <1>4, <1>7, <3>1
      <3>2. CASE y # b
        BY <1>1, <1>7, <2>1, <3>2 DEF NoOrphan
      <3> QED BY <3>1, <3>2
    <2>2. \A x \in Context : z.info[x].len = r.info[x].len
      BY <1>5, <1>7
    <2> QED BY <2>1, <2>2 DEF NoOrphan
  <1>11. /\ z.buf[b].len = f.len /\ z.buf[b].offset = f.offset
         /\ z.buf[b].pos = f.pos /\ z.buf[b].d = f.d
    BY <1>4, <1>7
  <1> QED BY <1>3, <1>6, <1>7, <1>8, <1>9, <1>10, <1>11 DEF Valid, z, i

-----------------------------------------------------------------------------
(* What a context holds after a fragment.                                  *)

\* Nothing is stored yet: the sum is zero.
LEMMA EmptySum ==
  ASSUME NEW r, NEW c, Stored(r, c) = {}
  PROVE  SumOver(Lengths(r), Stored(r, c)) = 0
  BY FS_EmptySet, SumFirst

\* The first fragment is all that a new context has collected.
LEMMA OpenContent ==
  ASSUME NEW z \in Reassembly, NEW c \in Context, Stored(z, c) = {},
         NEW f \in Frames, GoodFrame(f), f.kind = "FRAG1",
         z.info[c].opener = f.d, z.info[c].first_frag = f.d,
         z.info[c].first_frag_len = f.len, z.info[c].reassembled_len = f.len
  PROVE  Accounted(z, c) /\ Collected(z, c, f.len)
  <1>1. f.len \in Nat
    BY DEF Frames
  <1>2. Accounted(z, c)
    BY <1>1, EmptySum DEF Accounted
  <1>3. f.len <= Length(f.d)
    BY <1>1, Parameters DEF GoodFrame
  <1> QED BY <1>1, <1>2, <1>3 DEF Collected, Covered

\* A following fragment adds its own length to what was counted.
LEMMA AddAccounted ==
  ASSUME NEW r \in Reassembly, NEW z \in Reassembly, NEW c \in Context, NEW f \in Frames,
         z.info[c] = Counted(r.info[c], f), NEW b \in Buffer \ Stored(r, c),
         Stored(z, c) = Stored(r, c) \cup {b}, z.buf[b].len = f.len,
         \A x \in Stored(r, c) : z.buf[x] = r.buf[x],
         Accounted(r, c)
  PROVE  Accounted(z, c)
  <1> DEFINE w == Lengths(z)
             S == Stored(z, c)
             R == Stored(r, c)
  <1>1. IsFiniteSet(S) /\ \A x \in S : w[x] \in Nat
    BY StoredFinite
  <1>2. b \in S /\ S \ {b} = R /\ w[b] = f.len
    BY DEF Lengths
  <1>3. IsFiniteSet(R) /\ \A x \in R : w[x] = Lengths(r)[x] /\ w[x] \in Nat
    BY StoredFinite, <1>1 DEF Lengths
  <1>4. SumOver(w, R) = SumOver(Lengths(r), R)
    <2> HIDE DEF w, R
    <2> QED BY <1>3, SumSame
  <1>5. SumOver(w, R) \in Nat
    <2> HIDE DEF w, R
    <2> QED BY <1>3, SumSplit
  <1>6. SumOver(w, S) = w[b] + SumOver(w, S \ {b})
    <2> HIDE DEF w, S
    <2> QED BY <1>1, <1>2, SumSplit
  <1>7. r.info[c] \in Info /\ f.len \in Nat
        /\ r.info[c].first_frag_len \in Nat /\ r.info[c].reassembled_len \in Nat
    BY ReassemblyIs DEF Frames
  <1>8. /\ z.info[c].reassembled_len = r.info[c].reassembled_len + f.len
        /\ z.info[c].first_frag_len = r.info[c].first_frag_len
    BY <1>7, CountedIs
  <1>9. r.info[c].reassembled_len = r.info[c].first_frag_len + SumOver(Lengths(r), R)
    BY DEF Accounted
  <1> HIDE DEF w, S, R
  <1>10. z.info[c].reassembled_len = z.info[c].first_frag_len + SumOver(w, S)
    <2>1. SumOver(w, S) = f.len + SumOver(w, R)
      BY <1>2, <1>6
    <2>2. r.info[c].reassembled_len = r.info[c].first_frag_len + SumOver(w, R)
      BY <1>4, <1>9
    <2> QED BY <1>5, <1>7, <1>8, <2>1, <2>2
  <1> QED BY <1>10 DEF Accounted, w, S

\* A fragment of the datagram of the context does not mix datagrams.
LEMMA AddSource ==
  ASSUME NEW r \in Reassembly, NEW z, NEW c \in Context, NEW f \in Frames,
         z.info[c] = Counted(r.info[c], f), NEW b \in Buffer,
         Stored(z, c) = Stored(r, c) \cup {b}, z.buf[b].d = f.d,
         \A x \in Stored(r, c) : z.buf[x] = r.buf[x],
         OneSource(r, c), f.d = r.info[c].opener
  PROVE  OneSource(z, c)
  <1>1. z.info[c].opener = r.info[c].opener
    BY ReassemblyIs, CountedIs
  <1> QED BY <1>1 DEF OneSource

\* A fragment beyond what was collected extends it to its own end.
LEMMA AddContent ==
  ASSUME NEW r \in Reassembly, NEW z \in Reassembly, NEW c \in Context,
         NEW f \in Frames, GoodFrame(f), f.kind = "FRAGN",
         z.info[c] = Counted(r.info[c], f), NEW b \in Buffer,
         Stored(z, c) = Stored(r, c) \cup {b},
         z.buf[b].len = f.len, z.buf[b].offset = f.offset, z.buf[b].pos = f.pos, z.buf[b].d = f.d,
         \A x \in Stored(r, c) : z.buf[x] = r.buf[x],
         NEW h \in Nat, Collected(r, c, h), f.d = r.info[c].opener, h <= f.offset
  PROVE  Collected(z, c, f.offset + f.len)
  <1> DEFINE k == f.offset + f.len
  <1>1. /\ f.len \in Nat /\ f.offset \in Nat /\ f.pos = f.offset /\ f.len > 0
        /\ k <= Length(f.d)
    BY DEF Frames, GoodFrame
  <1>2. /\ r.info[c] \in Info /\ r.info[c].reassembled_len \in Nat
        /\ r.info[c].first_frag_len \in Nat
        /\ \A x \in Stored(r, c) : r.buf[x].offset \in Nat /\ r.buf[x].len \in Nat
    BY ReassemblyIs DEF Stored
  <1>3. /\ z.info[c].reassembled_len = r.info[c].reassembled_len + f.len
        /\ z.info[c].first_frag_len = r.info[c].first_frag_len
        /\ z.info[c].first_frag = r.info[c].first_frag
        /\ z.info[c].opener = r.info[c].opener
    BY <1>2, CountedIs
  <1>4. /\ r.info[c].first_frag = r.info[c].opener /\ r.info[c].first_frag_len <= h
        /\ r.info[c].reassembled_len <= h
        /\ \A x \in Stored(r, c) : /\ r.buf[x].d = r.info[c].opener
                                   /\ r.buf[x].pos = r.buf[x].offset
                                   /\ r.buf[x].offset + r.buf[x].len <= h
        /\ r.info[c].reassembled_len = h => \A i \in 0 .. h - 1 : Covered(r, c, i)
    BY DEF Collected
  <1>5. ASSUME NEW x \in Stored(z, c)
        PROVE  /\ z.buf[x].d = z.info[c].opener /\ z.buf[x].pos = z.buf[x].offset
               /\ z.buf[x].offset + z.buf[x].len <= k
    <2>1. CASE x = b
      BY <1>1, <1>3, <2>1
    <2>2. CASE x # b
      <3>1. x \in Stored(r, c)
        BY <2>2
      <3> QED BY <1>1, <1>2, <1>3, <1>4, <3>1
    <2> QED BY <2>1, <2>2
  <1>6. ASSUME z.info[c].reassembled_len = k, NEW i \in 0 .. k - 1 PROVE Covered(z, c, i)
    <2>1. r.info[c].reassembled_len = h /\ h = f.offset
      BY <1>1, <1>2, <1>3, <1>4, <1>6
    <2>2. CASE i < h
      <3>1. Covered(r, c, i)
        BY <1>4, <2>1, <2>2
      <3> QED BY <1>3, <3>1 DEF Covered
    <2>3. CASE i >= h
      <3>1. z.buf[b].offset <= i /\ i < z.buf[b].offset + z.buf[b].len
        BY <1>1, <2>1, <2>3
      <3> QED BY <3>1 DEF Covered
    <2> QED BY <2>2, <2>3
  <1>7. z.info[c].first_frag_len <= k /\ z.info[c].reassembled_len <= k
    BY <1>1, <1>2, <1>3, <1>4
  <1> QED BY <1>1, <1>3, <1>4, <1>5, <1>6, <1>7 DEF Collected

\* The buffers and the first fragment of a context that has counted the whole
\* length of its datagram make up that datagram.
LEMMA FullPacket ==
  ASSUME NEW r \in Reassembly, NEW c \in Context, NEW h \in Nat, Collected(r, c, h),
         NEW d \in Datagram, r.info[c].opener = d, r.info[c].reassembled_len >= Length(d)
  PROVE  CopyFrags(r, c, Length(d)) = Packet(d)
  <1>1. /\ Length(d) \in Nat /\ r.info[c].reassembled_len \in Nat
        /\ r.info[c].first_frag_len \in Nat
    BY DatagramIs, ReassemblyIs
  <1>2. h = Length(d) /\ r.info[c].reassembled_len = h
    BY <1>1 DEF Collected
  <1> DEFINE covers(i) == {b \in Buffer : /\ r.buf[b].len > 0 /\ r.buf[b].index = c
                                          /\ i \in r.buf[b].offset .. r.buf[b].offset + r.buf[b].len - 1}
             unit(i) == LET bs == covers(i) IN
                        IF bs # {} THEN LET b == r.buf[Max(bs)] IN <<b.d, b.pos + i - b.offset>>
                        ELSE IF i < r.info[c].first_frag_len THEN <<r.info[c].first_frag, i>>
                        ELSE NONE
  <1>3. CopyFrags(r, c, Length(d)) = [i \in 0 .. Length(d) - 1 |-> unit(i)]
    BY DEF CopyFrags
  <1>4. ASSUME NEW i \in 0 .. Length(d) - 1 PROVE unit(i) = <<d, i>>
    <2>0. i \in Nat
      BY <1>1
    <2>1. ASSUME NEW b \in covers(i) PROVE r.buf[b].d = d /\ r.buf[b].pos + i - r.buf[b].offset = i
      <3>1. b \in Stored(r, c) /\ b \in Buffer
        BY DEF Stored
      <3>2. r.buf[b].offset \in Nat /\ r.buf[b].pos \in Nat
        BY <3>1, ReassemblyIs
      <3>3. r.buf[b].d = d /\ r.buf[b].pos = r.buf[b].offset
        BY <3>1 DEF Collected
      <3> QED BY <2>0, <3>2, <3>3
    <2>2. CASE covers(i) # {}
      <3>1. Max(covers(i)) \in covers(i)
        <4> DEFINE S == covers(i)
        <4>1. S \in SUBSET (1 .. Buffers) /\ S # {} /\ Buffers \in Nat
          BY <2>2, Parameters DEF Buffer
        <4> HIDE DEF S
        <4>2. Max(S) \in S
          BY <4>1, MaxIs
        <4> QED BY <4>2 DEF S
      <3> HIDE DEF covers
      <3>2. unit(i) = <<r.buf[Max(covers(i))].d, r.buf[Max(covers(i))].pos + i - r.buf[Max(covers(i))].offset>>
        BY <2>2
      <3> HIDE DEF unit
      <3> QED BY <2>1, <3>1, <3>2
    <2>3. CASE covers(i) = {}
      <3>1. Covered(r, c, i)
        BY <1>2 DEF Collected
      <3>2. ASSUME NEW b \in Stored(r, c), r.buf[b].offset <= i, i < r.buf[b].offset + r.buf[b].len
            PROVE  FALSE
        <4>1. b \in Buffer /\ r.buf[b].len > 0 /\ r.buf[b].index = c
          BY DEF Stored
        <4>2. r.buf[b].offset \in Nat /\ r.buf[b].len \in Nat
          BY <4>1, ReassemblyIs
        <4>3. i \in r.buf[b].offset .. r.buf[b].offset + r.buf[b].len - 1
          BY <2>0, <3>2, <4>2
        <4> QED BY <2>3, <4>1, <4>3
      <3>3. i < r.info[c].first_frag_len
        BY <3>1, <3>2 DEF Covered
      <3>4. r.info[c].first_frag = d
        BY DEF Collected
      <3> HIDE DEF covers
      <3>5. unit(i) = <<r.info[c].first_frag, i>>
        BY <2>3, <3>3
      <3> HIDE DEF unit
      <3> QED BY <3>4, <3>5
    <2> HIDE DEF covers, unit
    <2> QED BY <2>2, <2>3
  <1> HIDE DEF unit, covers
  <1> QED BY <1>3, <1>4 DEF Packet

-----------------------------------------------------------------------------
(* Frames that go: the receiver, the radio, a sender that stops.           *)

TypesAre == /\ next \in [Node -> Nat] /\ out \in [Node -> Out \cup {NONE}]
            /\ air \in [Node -> Seq(Frames)]

\* Each queue is what it was, or what it was but for its first frame.
AirLess ==
  \A n \in Node : \E s \in {0, 1} :
    /\ Len(air'[n]) = Len(air[n]) - s
    /\ \A i \in 1 .. Len(air'[n]) : air'[n][i] = air[n][i + s]

OutLess == \A n \in Node : out'[n] # NONE => out'[n] = out[n]
NextMore == \A n \in Node : next[n] <= next'[n]

\* What is taken from a queue leaves the rest in place.
LEMMA TailShift ==
  ASSUME NEW S, NEW q \in Seq(S), q # <<>>
  PROVE  /\ Tail(q) \in Seq(S) /\ Len(Tail(q)) = Len(q) - 1
         /\ \A i \in 1 .. Len(Tail(q)) : Tail(q)[i] = q[i + 1]
         /\ Len(q) \in Nat /\ 1 \in 1 .. Len(q) /\ Head(q) = q[1] /\ Head(q) \in S
  OBVIOUS

\* A queue whose first frame is taken, and the others, which are left.
LEMMA ConsumeLess ==
  ASSUME TypesAre, NEW n \in Node, air[n] # <<>>, air' = [air EXCEPT ![n] = Tail(@)]
  PROVE  air' \in [Node -> Seq(Frames)] /\ AirLess
  <1>1. air[n] \in Seq(Frames)
    BY DEF TypesAre
  <1>2. /\ Tail(air[n]) \in Seq(Frames) /\ Len(Tail(air[n])) = Len(air[n]) - 1
        /\ \A i \in 1 .. Len(Tail(air[n])) : Tail(air[n])[i] = air[n][i + 1]
    BY <1>1, TailShift
  <1>3. air' \in [Node -> Seq(Frames)]
    BY <1>2 DEF TypesAre
  <1>4. ASSUME NEW m \in Node
        PROVE  \E s \in {0, 1} : /\ Len(air'[m]) = Len(air[m]) - s
                                 /\ \A i \in 1 .. Len(air'[m]) : air'[m][i] = air[m][i + s]
    <2>1. CASE m = n
      <3>1. air'[m] = Tail(air[n])
        BY <2>1 DEF TypesAre
      <3> QED BY <1>2, <2>1, <3>1
    <2>2. CASE m # n
      <3>1. air'[m] = air[m] /\ air[m] \in Seq(Frames)
        BY <2>2 DEF TypesAre
      <3>2. Len(air[m]) \in Nat /\ \A i \in 1 .. Len(air[m]) : i + 0 = i
        BY <3>1
      <3> DEFINE q == air[m]
      <3>3. q \in Seq(Frames) /\ air'[m] = q
        BY <3>1
      <3> HIDE DEF q
      <3>4. Len(q) = Len(q) - 0 /\ \A i \in 1 .. Len(q) : q[i] = q[i + 0]
        BY <3>3
      <3>5. /\ Len(air'[m]) = Len(q) - 0
            /\ \A i \in 1 .. Len(air'[m]) : air'[m][i] = q[i + 0]
        BY <3>3, <3>4
      <3> QED BY <3>5 DEF q
    <2> QED BY <2>1, <2>2
  <1> QED BY <1>3, <1>4 DEF AirLess

\* Queues that are left alone.
LEMMA SameLess ==
  ASSUME TypesAre, air' = air
  PROVE  AirLess
  <1>1. ASSUME NEW m \in Node
        PROVE  \E s \in {0, 1} : /\ Len(air'[m]) = Len(air[m]) - s
                                 /\ \A i \in 1 .. Len(air'[m]) : air'[m][i] = air[m][i + s]
    <2>1. air'[m] = air[m] /\ air[m] \in Seq(Frames)
      BY DEF TypesAre
    <2>2. Len(air[m]) \in Nat /\ \A i \in 1 .. Len(air[m]) : i + 0 = i
      BY <2>1
    <2>3. /\ Len(air'[m]) = Len(air[m]) - 0
          /\ \A i \in 1 .. Len(air'[m]) : air'[m][i] = air[m][i + 0]
      BY <2>1, <2>2
    <2> QED BY <2>3
  <1> QED BY <1>1 DEF AirLess

\* A frame that is still there was there, and those before it were too.
LEMMA LessFrames ==
  ASSUME TypesAre, TypesAre', AirLess, NEW n \in Node
  PROVE  \E s \in {0, 1} : \A i \in 1 .. Len(air'[n]) :
           /\ i + s \in 1 .. Len(air[n]) /\ air'[n][i] = air[n][i + s]
           /\ air'[n][i] \in Frames
  <1>1. air[n] \in Seq(Frames) /\ air'[n] \in Seq(Frames)
    BY DEF TypesAre
  <1>2. Len(air[n]) \in Nat /\ Len(air'[n]) \in Nat
        /\ \A i \in 1 .. Len(air'[n]) : air'[n][i] \in Frames
    BY <1>1
  <1>3. PICK s \in {0, 1} : /\ Len(air'[n]) = Len(air[n]) - s
                            /\ \A i \in 1 .. Len(air'[n]) : air'[n][i] = air[n][i + s]
    BY DEF AirLess
  <1>4. \A i \in 1 .. Len(air'[n]) : i + s \in 1 .. Len(air[n])
    BY <1>2, <1>3
  <1> QED BY <1>2, <1>3, <1>4

\* All that is said of frames and senders stays true when frames go.
LEMMA LessKeeps ==
  ASSUME TypesAre, TypesAre', AirLess, OutLess, NextMore
  PROVE  /\ FramesGood => FramesGood'
         /\ OutGood => OutGood'
         /\ (\A n \in Node : InOrder(air[n], out[n])) => \A n \in Node : InOrder(air'[n], out'[n])
         /\ \A d, h : Ahead(air, out, d, h) => Ahead(air', out', d, h)
         /\ \A n \in Node : \A t, d : /\ LiveFrame(n, air', t, d) => LiveFrame(n, air, t, d)
                                      /\ LiveOut(n, out', t, d) => LiveOut(n, out, t, d)
  <1>1. \A n \in Node : next[n] \in Nat /\ next'[n] \in Nat
    BY DEF TypesAre
  <1>2. ASSUME NEW n \in Node, NEW d, Begun(next, n, d) PROVE Begun(next', n, d)
    <2>1. d[2] \in Nat
      BY <1>2, DatagramIs DEF Begun
    <2> QED BY <1>1, <1>2, <2>1 DEF Begun, NextMore
  <1>3. FramesGood => FramesGood'
    <2>1. SUFFICES ASSUME FramesGood, NEW n \in Node, NEW i \in 1 .. Len(air'[n])
                   PROVE  Begun(next', n, air'[n][i].d) /\ GoodFrame(air'[n][i])
      BY DEF FramesGood
    <2>2. PICK s \in {0, 1} : i + s \in 1 .. Len(air[n]) /\ air'[n][i] = air[n][i + s]
      BY LessFrames
    <2>3. Begun(next, n, air[n][i + s].d) /\ GoodFrame(air[n][i + s])
      BY <2>1, <2>2 DEF FramesGood
    <2> QED BY <1>2, <2>2, <2>3
  <1>4. OutGood => OutGood'
    BY <1>2 DEF OutGood, OutLess
  <1>5. (\A n \in Node : InOrder(air[n], out[n])) => \A n \in Node : InOrder(air'[n], out'[n])
    <2>1. SUFFICES ASSUME NEW n \in Node, InOrder(air[n], out[n]) PROVE InOrder(air'[n], out'[n])
      OBVIOUS
    <2>2. PICK s \in {0, 1} : \A i \in 1 .. Len(air'[n]) :
                                i + s \in 1 .. Len(air[n]) /\ air'[n][i] = air[n][i + s]
      BY LessFrames
    <2>3. ASSUME NEW i \in 1 .. Len(air'[n]), NEW j \in 1 .. Len(air'[n]), i < j,
                 air'[n][j].kind # "PLAIN"
          PROVE  Before(air'[n][i], air'[n][j].offset, air'[n][j].d)
      <3>1. i + s < j + s
        BY <2>3
      <3> QED BY <2>1, <2>2, <2>3, <3>1 DEF InOrder
    <2>4. ASSUME out'[n] # NONE, NEW i \in 1 .. Len(air'[n])
          PROVE  Before(air'[n][i], out'[n].done, out'[n].d)
      BY <2>1, <2>2, <2>4 DEF InOrder, OutLess
    <2> QED BY <2>3, <2>4 DEF InOrder
  <1>6. ASSUME NEW d, NEW h, Ahead(air, out, d, h) PROVE Ahead(air', out', d, h)
    <2>1. ASSUME NEW n \in Node, NEW i \in 1 .. Len(air'[n]), air'[n][i].kind # "PLAIN", air'[n][i].d = d
          PROVE  h <= air'[n][i].offset
      <3>1. PICK s \in {0, 1} : i + s \in 1 .. Len(air[n]) /\ air'[n][i] = air[n][i + s]
        BY LessFrames
      <3> QED BY <1>6, <2>1, <3>1 DEF Ahead
    <2>2. ASSUME NEW n \in Node, out'[n] # NONE, out'[n].d = d PROVE h <= out'[n].done
      BY <1>6, <2>2 DEF Ahead, OutLess
    <2> QED BY <2>1, <2>2 DEF Ahead
  <1>7. ASSUME NEW n \in Node, NEW t, NEW d
        PROVE  /\ LiveFrame(n, air', t, d) => LiveFrame(n, air, t, d)
               /\ LiveOut(n, out', t, d) => LiveOut(n, out, t, d)
    <2>1. LiveFrame(n, air', t, d) => LiveFrame(n, air, t, d)
      <3>1. PICK s \in {0, 1} : \A i \in 1 .. Len(air'[n]) :
                                  i + s \in 1 .. Len(air[n]) /\ air'[n][i] = air[n][i + s]
        BY LessFrames
      <3> QED BY <3>1 DEF LiveFrame
    <2> QED BY <2>1 DEF LiveOut, OutLess
  <1> QED BY <1>3, <1>4, <1>5, <1>6, <1>7

-----------------------------------------------------------------------------
(* Steps that send nothing.                                                *)

\* What is known of a context outlives every step that keeps or closes it.
LEMMA SoundKept ==
  ASSUME NEW r \in Reassembly, NEW z \in Reassembly, NEW c \in Context,
         z.info[c].len = 0 \/ Kept(r, z, c),
         NEW nx, NEW a, NEW o, NEW dp, NEW rb, Sound(r, c, nx, a, o, dp, rb),
         NEW k, NEW e, NEW p, NEW dq, NEW rq,
         \A n \in Node : nx[n] \in Nat /\ k[n] \in Nat /\ nx[n] <= k[n],
         dq = 0 => dp = 0, rq = 0 => rb = 0,
         \A d, h : d \in Datagram /\ Begun(nx, d[1], d) /\ h \in Nat /\ dq = 0 /\ rq = 0
                     /\ Ahead(a, o, d, h) => Ahead(e, p, d, h)
  PROVE  Sound(z, c, k, e, p, dq, rq)
  <1>1. SUFFICES ASSUME z.info[c].len > 0
                 PROVE  /\ Held(z.info[c]) /\ Begun(k, z.info[c].sender, z.info[c].opener)
                        /\ HeadersKnown => Accounted(z, c)
                        /\ TagsSuffice /\ rq = 0 => OneSource(z, c)
                        /\ HeadersKnown /\ TagsSuffice /\ dq = 0 /\ rq = 0 => Growing(z, c, e, p)
    BY DEF Sound
  <1>2. Kept(r, z, c)
    BY <1>1
  <1>3. /\ r.info[c].len > 0 /\ z.info[c].sender = r.info[c].sender
        /\ z.info[c].opener = r.info[c].opener
    BY <1>1, <1>2 DEF Kept, Alike
  <1>4. /\ Held(r.info[c]) /\ Begun(nx, r.info[c].sender, r.info[c].opener)
        /\ HeadersKnown => Accounted(r, c)
        /\ TagsSuffice /\ rb = 0 => OneSource(r, c)
        /\ HeadersKnown /\ TagsSuffice /\ dp = 0 /\ rb = 0 => Growing(r, c, a, o)
    BY <1>3 DEF Sound
  <1>5. Begun(k, z.info[c].sender, z.info[c].opener)
    <2> DEFINE d == r.info[c].opener
               n == r.info[c].sender
    <2>1. d \in Datagram /\ d[1] = n /\ d[2] < nx[n] /\ n \in Node /\ d[2] \in Nat
      BY <1>4, DatagramIs DEF Begun
    <2> HIDE DEF d, n
    <2>2. Begun(k, n, d)
      BY <2>1 DEF Begun
    <2> QED BY <1>3, <2>2 DEF d, n
  <1>6. ASSUME dq = 0, rq = 0, Growing(r, c, a, o) PROVE Growing(z, c, e, p)
    <2>1. PICK h \in Nat : Collected(r, c, h) /\ Ahead(a, o, r.info[c].opener, h)
      BY <1>6 DEF Growing
    <2>2. r.info[c].opener \in Datagram /\ Begun(nx, r.info[c].opener[1], r.info[c].opener)
      BY <1>4 DEF Begun
    <2>3. Ahead(e, p, z.info[c].opener, h)
      BY <1>3, <1>6, <2>1, <2>2
    <2>4. Collected(z, c, h)
      BY <1>2, <2>1, KeptKeeps
    <2> QED BY <2>3, <2>4 DEF Growing
  <1> QED BY <1>2, <1>4, <1>5, <1>6, KeptKeeps

\* Keeping or closing contexts makes no tag live.
LEMMA KeptLive ==
  ASSUME NEW r \in Reassembly, NEW z \in Reassembly,
         \A c \in Context : z.info[c].len = 0 \/ Kept(r, z, c)
  PROVE  \A n, t, d : LiveContext(n, z.info, t, d) => LiveContext(n, r.info, t, d)
  <1>1. SUFFICES ASSUME NEW n, NEW t, NEW d, NEW c \in Context, z.info[c].len > 0,
                        z.info[c].sender = n, z.info[c].tag = t, z.info[c].opener = d
                 PROVE  LiveContext(n, r.info, t, d)
    BY DEF LiveContext
  <1>2. Kept(r, z, c)
    BY <1>1
  <1> QED BY <1>1, <1>2 DEF Kept, Alike, LiveContext

\* The types of the values of each sender.
LEMMA TypesGive ==
  ASSUME Types
  PROVE  TypesAre /\ Reass \in Reassembly /\ Reass.info = frag_info /\ Reass.buf = frag_buf
         /\ \A n \in Node : /\ next[n] \in Nat /\ my_tag[n] \in Tags /\ my_tag[n] \in Nat
                            /\ next[n] \in 1 .. Len(Size[n]) + 1
                            /\ Size[n] \in Seq(Nat) /\ Len(Size[n]) \in Nat
                            /\ air[n] \in Seq(Frames)
  <1>1. TypesAre /\ Reass \in Reassembly /\ Reass.info = frag_info /\ Reass.buf = frag_buf
    BY DEF Types, TypesAre, Reass, Reassembly
  <1>2. ASSUME NEW n \in Node
        PROVE  /\ next[n] \in Nat /\ my_tag[n] \in Tags /\ my_tag[n] \in Nat
               /\ next[n] \in 1 .. Len(Size[n]) + 1 /\ air[n] \in Seq(Frames)
    BY Parameters DEF Types
  <1>3. \A n \in Node : Size[n] \in Seq(Nat) /\ Len(Size[n]) \in Nat
    BY Parameters
  <1> QED BY <1>1, <1>2, <1>3

\* Tags stay unique and fresh when no pair becomes live and none is given out.
LEMMA TagsKeep ==
  ASSUME Types, Types', NextMore, my_tag' = my_tag, TagsGood,
         \A n \in Node : \A t \in Tags : \A d \in Datagram :
           Live(n, air', out', frag_info', t, d) => Live(n, air, out, frag_info, t, d)
  PROVE  TagsGood'
  <1>1. SUFFICES ASSUME NEW n \in Node
                 PROVE  TagsUnique(n, air', out', frag_info')
                        /\ TagsFresh(n, air', out', frag_info', next'[n], my_tag'[n])
    BY DEF TagsGood
  <1>2. TagsUnique(n, air, out, frag_info) /\ TagsFresh(n, air, out, frag_info, next[n], my_tag[n])
    BY DEF TagsGood
  <1>3. /\ next[n] \in Nat /\ next'[n] \in Nat /\ next[n] <= next'[n]
        /\ my_tag'[n] = my_tag[n] /\ my_tag[n] \in Nat /\ Len(Size[n]) \in Nat
    BY TypesGive DEF NextMore, Types
  <1>4. TagsUnique(n, air', out', frag_info')
    BY <1>2 DEF TagsUnique
  <1>5. TagsFresh(n, air', out', frag_info', next'[n], my_tag'[n])
    BY <1>2, <1>3 DEF TagsFresh
  <1> QED BY <1>4, <1>5

\* A step that sends nothing, and opens contexts only for what was live.
LEMMA SilentStep ==
  ASSUME SicsInv, Types', AirLess, OutLess, NextMore,
         NoOrphan(Reass)', AllSound',
         \A n \in Node : \A t \in Tags : \A d \in Datagram :
           LiveContext(n, frag_info', t, d) => Live(n, air, out, frag_info, t, d),
         dups' = 0 => dups = 0, reboots' = 0 => reboots = 0 /\ my_tag' = my_tag,
         HeadersKnown /\ TagsSuffice /\ dups' = 0 /\ reboots' = 0 => Intact'
  PROVE  SicsInv'
  <1>1. Types /\ FramesGood /\ OutGood /\ TypesAre /\ TypesAre'
    BY TypesGive DEF SicsInv, Types, TypesAre
  <1>2. /\ FramesGood' /\ OutGood'
        /\ (\A n \in Node : InOrder(air[n], out[n])) => \A n \in Node : InOrder(air'[n], out'[n])
        /\ \A n \in Node : \A t, d : /\ LiveFrame(n, air', t, d) => LiveFrame(n, air, t, d)
                                     /\ LiveOut(n, out', t, d) => LiveOut(n, out, t, d)
    BY <1>1, LessKeeps
  <1>3. ASSUME TagsSuffice, reboots' = 0 PROVE TagsGood'
    <2>1. \A n \in Node : \A t \in Tags : \A d \in Datagram :
            Live(n, air', out', frag_info', t, d) => Live(n, air, out, frag_info, t, d)
      BY <1>2 DEF Live
    <2>2. TagsGood /\ my_tag' = my_tag
      BY <1>3 DEF SicsInv
    <2> QED BY <1>1, <2>1, <2>2, TagsKeep
  <1>4. dups' = 0 /\ reboots' = 0 => \A n \in Node : InOrder(air'[n], out'[n])
    BY <1>2 DEF SicsInv
  <1> QED BY <1>2, <1>3, <1>4 DEF SicsInv

\* A step that sends nothing and keeps or closes every context.
LEMMA KeptStep ==
  ASSUME SicsInv, Types', AirLess, OutLess, NextMore,
         NoOrphan(Reass)',
         \A c \in Context : frag_info'[c].len = 0 \/ Kept(Reass, Reass', c),
         dups' = 0 => dups = 0, reboots' = 0 => reboots = 0 /\ my_tag' = my_tag,
         HeadersKnown /\ TagsSuffice /\ dups' = 0 /\ reboots' = 0 => Intact'
  PROVE  SicsInv'
  <1>1. Types /\ TypesAre /\ TypesAre' /\ Reass \in Reassembly /\ Reass' \in Reassembly
        /\ Reass.info = frag_info /\ Reass'.info = frag_info'
    BY TypesGive DEF SicsInv, Types, TypesAre, Reass, Reassembly
  <1>2. \A d, h : Ahead(air, out, d, h) => Ahead(air', out', d, h)
    BY <1>1, LessKeeps
  <1> DEFINE r == Reass
             z == Reass'
  <1>3. ASSUME NEW c \in Context PROVE Sound(z, c, next', air', out', dups', reboots')
    <2>1. Sound(r, c, next, air, out, dups, reboots)
      BY DEF SicsInv, AllSound
    <2>2. z.info[c].len = 0 \/ Kept(r, z, c)
      BY <1>1
    <2>3. \A n \in Node : next[n] \in Nat /\ next'[n] \in Nat /\ next[n] <= next'[n]
      BY <1>1 DEF TypesAre, NextMore
    <2>4. r \in Reassembly /\ z \in Reassembly
      BY <1>1
    <2> HIDE DEF r, z
    <2> QED BY <1>2, <2>1, <2>2, <2>3, <2>4, SoundKept
  <1>4. AllSound'
    BY <1>3 DEF AllSound
  <1>5. \A n, t, d : LiveContext(n, z.info, t, d) => LiveContext(n, r.info, t, d)
    <2>1. r \in Reassembly /\ z \in Reassembly
          /\ \A c \in Context : z.info[c].len = 0 \/ Kept(r, z, c)
      BY <1>1
    <2> HIDE DEF r, z
    <2> QED BY <2>1, KeptLive
  <1>6. \A n \in Node : \A t \in Tags : \A d \in Datagram :
           LiveContext(n, frag_info', t, d) => Live(n, air, out, frag_info, t, d)
    BY <1>1, <1>5 DEF Live
  <1> QED BY <1>4, <1>6, SilentStep

-----------------------------------------------------------------------------
(* Steps that send a frame.                                                *)

\* Node n has given the frame f to the radio, or kept it.
Sent(n, f) == air' = air \/ air' = [air EXCEPT ![n] = Append(@, f)]

\* A frame that is there was there, or it is the new one, which is the last.
LEMMA SentFrames ==
  ASSUME TypesAre, NEW n \in Node, NEW f \in Frames, Sent(n, f), NEW m \in Node
  PROVE  /\ air'[m] \in Seq(Frames)
         /\ \A i \in 1 .. Len(air'[m]) :
              \/ i \in 1 .. Len(air[m]) /\ air'[m][i] = air[m][i]
              \/ m = n /\ i = Len(air[n]) + 1 /\ air'[m][i] = f
         /\ Len(air[m]) \in Nat
  <1> DEFINE q == air[m]
  <1>1. q \in Seq(Frames) /\ Len(q) \in Nat
    BY DEF TypesAre
  <1>2. CASE air'[m] = q
    BY <1>1, <1>2
  <1>3. CASE m = n /\ air'[m] = Append(q, f)
    <2> DEFINE a == Append(q, f)
    <2> HIDE DEF q
    <2>1. a \in Seq(Frames) /\ Len(a) = Len(q) + 1 /\ a[Len(q) + 1] = f
          /\ \A i \in 1 .. Len(q) : a[i] = q[i]
      BY <1>1
    <2>2. \A i \in 1 .. Len(a) : i \in 1 .. Len(q) \/ i = Len(q) + 1
      BY <1>1, <2>1
    <2> HIDE DEF a
    <2>3. \A i \in 1 .. Len(a) : \/ i \in 1 .. Len(q) /\ a[i] = q[i]
                                 \/ i = Len(q) + 1 /\ a[i] = f
      BY <2>1, <2>2
    <2> QED BY <1>1, <1>3, <2>1, <2>3 DEF q, a
  <1>4. air'[m] = q \/ (m = n /\ air'[m] = Append(q, f))
    BY DEF Sent, TypesAre
  <1> QED BY <1>2, <1>3, <1>4

\* A step that sends a good frame of a begun datagram keeps the invariant, when
\* the frame follows all that is under way and its tag is not mistaken.
LEMMA SendStep ==
  ASSUME SicsInv, Types', NextMore, NEW n \in Node, NEW f \in Frames, Sent(n, f),
         GoodFrame(f), Begun(next', n, f.d), OutGood',
         receiver' = receiver, dups' = dups, reboots' = reboots,
         \A m \in Node \ {n} : out'[m] = out[m],
         out'[n] # NONE =>
           f.kind # "PLAIN" /\ out'[n].d = f.d /\ out'[n].done = f.offset + f.len,
         dups = 0 /\ reboots = 0 /\ f.kind # "PLAIN" =>
           /\ \A i \in 1 .. Len(air[n]) : Before(air[n][i], f.offset, f.d)
           /\ \A h \in Nat : Begun(next, f.d[1], f.d) /\ Ahead(air, out, f.d, h) => h <= f.offset,
         TagsSuffice /\ reboots = 0 => TagsGood'
  PROVE  SicsInv'
  <1>1. /\ Types /\ FramesGood /\ OutGood /\ TypesAre /\ TypesAre'
        /\ Reass \in Reassembly /\ Reass' = Reass
    BY TypesGive DEF SicsInv, Types, TypesAre, receiver, Reass
  <1>2. f.offset \in Nat /\ f.len \in Nat
    BY DEF Frames
  <1>3. FramesGood'
    <2>1. SUFFICES ASSUME NEW m \in Node, NEW i \in 1 .. Len(air'[m])
                   PROVE  Begun(next', m, air'[m][i].d) /\ GoodFrame(air'[m][i])
      BY DEF FramesGood
    <2>2. CASE i \in 1 .. Len(air[m]) /\ air'[m][i] = air[m][i]
      <3>1. Begun(next, m, air[m][i].d) /\ GoodFrame(air[m][i])
        BY <1>1, <2>2 DEF FramesGood
      <3>2. next[m] \in Nat /\ next'[m] \in Nat /\ next[m] <= next'[m]
        BY <1>1 DEF TypesAre, NextMore
      <3> DEFINE d == air[m][i].d
      <3>3. d \in Datagram /\ d[1] = m /\ d[2] < next[m] /\ d[2] \in Nat
        BY <3>1, DatagramIs DEF Begun
      <3> HIDE DEF d
      <3>4. Begun(next', m, d)
        BY <3>2, <3>3 DEF Begun
      <3> QED BY <2>2, <3>1, <3>4 DEF d
    <2>3. CASE m = n /\ air'[m][i] = f
      BY <2>3
    <2> QED BY <1>1, <2>2, <2>3, SentFrames
  <1>4. ASSUME dups' = 0, reboots' = 0 PROVE \A m \in Node : InOrder(air'[m], out'[m])
    <2>1. TAKE m \in Node
    <2>2. InOrder(air[m], out[m])
      BY <1>4 DEF SicsInv
    <2>3. f.kind # "PLAIN" => \A i \in 1 .. Len(air[n]) : Before(air[n][i], f.offset, f.d)
      BY <1>4
    <2>4. \A i \in 1 .. Len(air'[m]) :
              \/ i \in 1 .. Len(air[m]) /\ air'[m][i] = air[m][i]
              \/ m = n /\ i = Len(air[n]) + 1 /\ air'[m][i] = f
      BY <1>1, SentFrames
    <2>5. ASSUME NEW i \in 1 .. Len(air'[m]), NEW j \in 1 .. Len(air'[m]), i < j,
                 air'[m][j].kind # "PLAIN"
          PROVE  Before(air'[m][i], air'[m][j].offset, air'[m][j].d)
      <3>1. Len(air[m]) \in Nat /\ Len(air'[m]) \in Nat
        BY <1>1, SentFrames
      <3>2. CASE j \in 1 .. Len(air[m]) /\ air'[m][j] = air[m][j]
        <4>1. i \in 1 .. Len(air[m]) /\ air'[m][i] = air[m][i]
          BY <2>4, <2>5, <3>1, <3>2
        <4> QED BY <2>2, <2>5, <3>2, <4>1 DEF InOrder
      <3>3. CASE m = n /\ j = Len(air[n]) + 1 /\ air'[m][j] = f
        <4>1. i \in 1 .. Len(air[m]) /\ air'[m][i] = air[m][i]
          BY <2>4, <2>5, <3>1, <3>3
        <4> QED BY <2>3, <2>5, <3>3, <4>1
      <3> QED BY <2>4, <3>2, <3>3
    <2>6. ASSUME out'[m] # NONE, NEW i \in 1 .. Len(air'[m])
          PROVE  Before(air'[m][i], out'[m].done, out'[m].d)
      <3>1. CASE m # n
        <4>1. i \in 1 .. Len(air[m]) /\ air'[m][i] = air[m][i]
          BY <2>4, <3>1
        <4> QED BY <2>2, <2>6, <3>1, <4>1 DEF InOrder
      <3>2. CASE m = n
        <4>1. f.kind # "PLAIN" /\ out'[m].d = f.d /\ out'[m].done = f.offset + f.len
          BY <2>6, <3>2
        <4>2. CASE i \in 1 .. Len(air[m]) /\ air'[m][i] = air[m][i]
          <5>1. Before(air[m][i], f.offset, f.d) /\ air[m][i] \in Frames
            BY <1>1, <2>3, <3>2, <4>1, <4>2 DEF TypesAre
          <5>2. air[m][i].offset \in Nat /\ air[m][i].len \in Nat
            BY <5>1 DEF Frames
          <5> DEFINE g == air[m][i]
          <5>3. Before(g, f.offset, f.d) /\ g.offset \in Nat /\ g.len \in Nat
            BY <5>1, <5>2
          <5> HIDE DEF g
          <5>4. Before(g, f.offset + f.len, f.d)
            BY <1>2, <5>3 DEF Before
          <5> QED BY <4>1, <4>2, <5>4 DEF g
        <4>3. CASE air'[m][i] = f
          BY <1>2, <4>1, <4>3 DEF Before
        <4> QED BY <2>4, <4>2, <4>3
      <3> QED BY <3>1, <3>2
    <2> QED BY <2>5, <2>6 DEF InOrder
  <1>5. ASSUME NEW d \in Datagram, NEW h \in Nat, Begun(next, d[1], d), dups' = 0, reboots' = 0,
               Ahead(air, out, d, h)
        PROVE  Ahead(air', out', d, h)
    <2>1. f.kind # "PLAIN" /\ f.d = d => h <= f.offset
      BY <1>5
    <2>2. ASSUME NEW m \in Node, NEW i \in 1 .. Len(air'[m]), air'[m][i].kind # "PLAIN",
                 air'[m][i].d = d
          PROVE  h <= air'[m][i].offset
      <3>1. \/ i \in 1 .. Len(air[m]) /\ air'[m][i] = air[m][i]
            \/ air'[m][i] = f
        BY <1>1, SentFrames
      <3> QED BY <1>5, <2>1, <2>2, <3>1 DEF Ahead
    <2>3. ASSUME NEW m \in Node, out'[m] # NONE, out'[m].d = d PROVE h <= out'[m].done
      <3>1. CASE m = n
        BY <1>2, <2>1, <2>3, <3>1
      <3>2. CASE m # n
        BY <1>5, <2>3, <3>2 DEF Ahead
      <3> QED BY <3>1, <3>2
    <2> QED BY <2>2, <2>3 DEF Ahead
  <1>6. AllSound'
    <2> DEFINE r == Reass
    <2>1. SUFFICES ASSUME NEW c \in Context
                   PROVE  Sound(r, c, next', air', out', dups', reboots')
      BY <1>1 DEF AllSound
    <2>2. Sound(r, c, next, air, out, dups, reboots)
      BY DEF SicsInv, AllSound
    <2>3. \A m \in Node : next[m] \in Nat /\ next'[m] \in Nat /\ next[m] <= next'[m]
      BY <1>1 DEF TypesAre, NextMore
    <2>4. r \in Reassembly
      BY <1>1
    <2> HIDE DEF r
    <2>5. Kept(r, r, c)
      BY DEF Kept, Alike
    <2> QED BY <1>5, <2>2, <2>3, <2>4, <2>5, SoundKept
  <1>7. NoOrphan(Reass)'
    BY <1>1 DEF SicsInv
  <1>8. HeadersKnown /\ TagsSuffice /\ dups' = 0 /\ reboots' = 0 => Intact'
    BY DEF SicsInv, Intact, receiver
  <1> QED BY <1>3, <1>4, <1>6, <1>7, <1>8 DEF SicsInv

-----------------------------------------------------------------------------
(* The actions of a sender.                                                *)

\* The fields of a frame.
LEMMA FrameIs ==
  ASSUME NEW kind \in {"PLAIN", "FRAG1", "FRAGN"}, NEW d \in Datagram, NEW tag \in Tags,
         NEW off \in Nat, NEW pos \in Nat, NEW len \in Nat
  PROVE  LET f == Frame(kind, d, tag, off, pos, len)
         IN  /\ f \in Frames
             /\ f.kind = kind /\ f.d = d /\ f.size = Length(d) /\ f.tag = tag
             /\ f.offset = off /\ f.pos = pos /\ f.len = len
  BY DatagramIs DEF Frame, Frames

\* Transmit() gives the frame to the radio or keeps it.
LEMMA TransmitSent ==
  ASSUME NEW n, NEW f, NEW s, Transmit(n, f, s)
  PROVE  Sent(n, f)
  BY DEF Transmit, Sent

\* What is live after a frame was sent.
LEMMA SentLive ==
  ASSUME TypesAre, NEW n \in Node, NEW f \in Frames, Sent(n, f), frag_info' = frag_info,
         \A m \in Node \ {n} : out'[m] = out[m],
         out'[n] # NONE => f.kind # "PLAIN" /\ out'[n].d = f.d /\ out'[n].tag = f.tag
  PROVE  \A m \in Node : \A t, d :
           Live(m, air', out', frag_info', t, d) =>
             \/ Live(m, air, out, frag_info, t, d)
             \/ m = n /\ f.kind # "PLAIN" /\ t = f.tag /\ d = f.d
  <1>1. SUFFICES ASSUME NEW m \in Node, NEW t, NEW d,
                        ~(m = n /\ f.kind # "PLAIN" /\ t = f.tag /\ d = f.d)
                 PROVE  /\ LiveFrame(m, air', t, d) => LiveFrame(m, air, t, d)
                        /\ LiveOut(m, out', t, d) => LiveOut(m, out, t, d)
    BY DEF Live
  <1>2. LiveFrame(m, air', t, d) => LiveFrame(m, air, t, d)
    <2>1. SUFFICES ASSUME NEW i \in 1 .. Len(air'[m]), air'[m][i].kind # "PLAIN",
                          air'[m][i].tag = t, air'[m][i].d = d
                   PROVE  LiveFrame(m, air, t, d)
      BY DEF LiveFrame
    <2>2. i \in 1 .. Len(air[m]) /\ air'[m][i] = air[m][i]
      BY <1>1, <2>1, SentFrames
    <2> QED BY <2>1, <2>2 DEF LiveFrame
  <1>3. LiveOut(m, out', t, d) => LiveOut(m, out, t, d)
    BY <1>1 DEF LiveOut
  <1> QED BY <1>2, <1>3

\* The datagram that a sender begins.
LEMMA NextDatagram ==
  ASSUME Types, NEW n \in Node, next[n] \in DOMAIN Size[n]
  PROVE  LET d == <<n, next[n]>>
         IN  /\ d \in Datagram /\ d[1] = n /\ d[2] = next[n] /\ Length(d) \in Nat
             /\ next[n] <= Len(Size[n]) /\ ~Begun(next, n, d)
  <1>1. next[n] \in 1 .. Len(Size[n]) /\ next[n] \in Nat
    BY TypesGive
  <1>2. <<n, next[n]>> \in Datagram
    BY <1>1, DatagramIs
  <1> QED BY <1>1, <1>2, DatagramIs DEF Begun

\* The sender goes on to the next datagram.
LEMMA NextGrows ==
  ASSUME Types, NEW n \in Node, next[n] \in DOMAIN Size[n], next' = [next EXCEPT ![n] = @ + 1]
  PROVE  /\ NextMore /\ next' \in [Node -> Nat] /\ next'[n] = next[n] + 1
         /\ \A m \in Node : next'[m] \in 1 .. Len(Size[m]) + 1
         /\ \A m \in Node \ {n} : next'[m] = next[m]
         /\ Begun(next', n, <<n, next[n]>>)
  <1>1. next[n] \in 1 .. Len(Size[n]) /\ next[n] \in Nat /\ Len(Size[n]) \in Nat
    BY TypesGive
  <1>2. next \in [Node -> Nat] /\ \A m \in Node : next[m] \in 1 .. Len(Size[m]) + 1
    BY DEF Types
  <1>3. next' \in [Node -> Nat] /\ next'[n] = next[n] + 1 /\ \A m \in Node \ {n} : next'[m] = next[m]
    BY <1>1, <1>2
  <1>4. NextMore
    BY <1>2, <1>3 DEF NextMore
  <1>5. \A m \in Node : next'[m] \in 1 .. Len(Size[m]) + 1
    BY <1>1, <1>2, <1>3
  <1>6. Begun(next', n, <<n, next[n]>>)
    BY <1>1, <1>3, NextDatagram DEF Begun
  <1> QED BY <1>3, <1>4, <1>5, <1>6

\* A frame may go, whether the node keeps it or not.
LEMMA SentTypes ==
  ASSUME TypesAre, NEW n \in Node, NEW f \in Frames, Sent(n, f)
  PROVE  air' \in [Node -> Seq(Frames)]
  <1>1. air[n] \in Seq(Frames) /\ air \in [Node -> Seq(Frames)]
    BY DEF TypesAre
  <1>2. Append(air[n], f) \in Seq(Frames)
    BY <1>1
  <1>3. CASE air' = air
    BY <1>1, <1>3
  <1>4. CASE air' = [air EXCEPT ![n] = Append(@, f)]
    BY <1>1, <1>2, <1>4
  <1> QED BY <1>3, <1>4 DEF Sent

\* A datagram in one frame.
LEMMA PlainKeeps ==
  ASSUME SicsInv, NEW n \in Node, NEW s \in TxStatus, OutputPlain(n, s)
  PROVE  SicsInv'
  <1> DEFINE d == <<n, next[n]>>
             f == Frame("PLAIN", d, 0, 0, 0, Length(d))
  <1>1. /\ next[n] \in DOMAIN Size[n] /\ out[n] = NONE /\ Transmit(n, f, s)
        /\ next' = [next EXCEPT ![n] = @ + 1] /\ out' = out /\ my_tag' = my_tag
        /\ receiver' = receiver /\ lost' = lost /\ dups' = dups /\ reboots' = reboots
        /\ frag_info' = frag_info /\ frag_buf' = frag_buf
    BY DEF OutputPlain, receiver, env
  <1>2. Types /\ TypesAre
    BY TypesGive DEF SicsInv
  <1>3. d \in Datagram /\ Length(d) \in Nat /\ Begun(next', n, d)
    BY <1>1, <1>2, NextDatagram, NextGrows
  <1>4. f \in Frames /\ f.kind = "PLAIN" /\ f.d = d /\ f.size = Length(d)
    <2> HIDE DEF d
    <2>1. "PLAIN" \in {"PLAIN", "FRAG1", "FRAGN"} /\ 0 \in Tags /\ 0 \in Nat
      BY Parameters
    <2> QED BY <1>3, <2>1, FrameIs
  <1>5. Sent(n, f)
    BY <1>1, TransmitSent
  <1> HIDE DEF f, d
  <1>6. GoodFrame(f)
    BY <1>4 DEF GoodFrame
  <1>7. NextMore /\ next' \in [Node -> Nat] /\ \A m \in Node : next'[m] \in 1 .. Len(Size[m]) + 1
    BY <1>1, <1>2, NextGrows
  <1>8. Types'
    <2>1. air' \in [Node -> Seq(Frames)]
      BY <1>2, <1>4, <1>5, SentTypes
    <2> QED BY <1>1, <1>2, <1>7, <2>1 DEF Types
  <1>9. OutGood'
    <2>1. SUFFICES ASSUME NEW m \in Node, out[m] # NONE PROVE Begun(next', m, out[m].d)
      BY <1>1 DEF SicsInv, OutGood
    <2>2. Begun(next, m, out[m].d)
      BY <2>1 DEF SicsInv, OutGood
    <2>3. next[m] \in Nat /\ next'[m] \in Nat /\ next[m] <= next'[m] /\ out[m].d[2] \in Nat
      BY <1>2, <1>7, <2>2, DatagramIs DEF TypesAre, NextMore, Begun
    <2> QED BY <2>2, <2>3 DEF Begun
  <1>10. ASSUME TagsSuffice, reboots = 0 PROVE TagsGood'
    <2>1. \A m \in Node : \A t \in Tags : \A e \in Datagram :
            Live(m, air', out', frag_info', t, e) => Live(m, air, out, frag_info, t, e)
      BY <1>1, <1>2, <1>4, <1>5, SentLive
    <2>2. TagsGood
      BY <1>10 DEF SicsInv
    <2> QED BY <1>1, <1>2, <1>7, <1>8, <2>1, <2>2, TagsKeep
  <1> QED BY <1>1, <1>3, <1>4, <1>5, <1>6, <1>7, <1>8, <1>9, <1>10, SendStep

\* A first fragment: its datagram was not begun and its tag is fresh.
LEMMA FirstKeeps ==
  ASSUME SicsInv, NEW n \in Node, NEW s \in TxStatus, OutputFirst(n, s)
  PROVE  SicsInv'
  <1> DEFINE d == <<n, next[n]>>
             f == Frame("FRAG1", d, my_tag[n], 0, 0, FragFirst)
             o == [d |-> d, tag |-> my_tag[n], done |-> FragFirst]
  <1>1. /\ next[n] \in DOMAIN Size[n] /\ out[n] = NONE /\ Transmit(n, f, s) /\ NeedsFragments(d)
        /\ out' = [out EXCEPT ![n] = IF s \in {"COLLISION", "ERR_FATAL"} THEN NONE ELSE o]
        /\ next' = [next EXCEPT ![n] = @ + 1] /\ my_tag' = [my_tag EXCEPT ![n] = NextTag(@)]
        /\ receiver' = receiver /\ lost' = lost /\ dups' = dups /\ reboots' = reboots
        /\ frag_info' = frag_info /\ frag_buf' = frag_buf
    BY DEF OutputFirst, receiver, env
  <1>2. Types /\ TypesAre
    BY TypesGive DEF SicsInv
  <1>3. /\ d \in Datagram /\ Length(d) \in Nat /\ Begun(next', n, d) /\ d[1] = n
        /\ ~Begun(next, n, d) /\ next[n] <= Len(Size[n])
    BY <1>1, <1>2, NextDatagram, NextGrows
  <1>4. my_tag[n] \in Tags /\ my_tag[n] \in Nat /\ FragFirst \in Nat /\ FragFirst > 0
        /\ FragFirst < Length(d)
    BY <1>1, <1>2, <1>3, TypesGive, Parameters DEF NeedsFragments
  <1>5. /\ f \in Frames /\ f.kind = "FRAG1" /\ f.d = d /\ f.size = Length(d) /\ f.tag = my_tag[n]
        /\ f.offset = 0 /\ f.pos = 0 /\ f.len = FragFirst
    <2> HIDE DEF d
    <2> DEFINE t == my_tag[n]
    <2>1. "FRAG1" \in {"PLAIN", "FRAG1", "FRAGN"} /\ 0 \in Nat
      OBVIOUS
    <2>2. t \in Tags /\ d \in Datagram /\ FragFirst \in Nat
      BY <1>3, <1>4
    <2> HIDE DEF t
    <2> DEFINE g == Frame("FRAG1", d, t, 0, 0, FragFirst)
    <2>3. /\ g \in Frames /\ g.kind = "FRAG1" /\ g.d = d /\ g.size = Length(d) /\ g.tag = t
          /\ g.offset = 0 /\ g.pos = 0 /\ g.len = FragFirst
      BY <2>1, <2>2, FrameIs
    <2> QED BY <2>3 DEF t
  <1>6. o \in Out /\ o.d = d /\ o.tag = my_tag[n] /\ o.done = FragFirst
    BY <1>3, <1>4 DEF Out
  <1>7. Sent(n, f)
    BY <1>1, TransmitSent
  <1>8. out' \in [Node -> Out \cup {NONE}] /\ (out'[n] # NONE => out'[n] = o)
        /\ \A m \in Node \ {n} : out'[m] = out[m]
    <2> HIDE DEF o
    <2> QED BY <1>1, <1>2, <1>6 DEF TypesAre
  <1> HIDE DEF f, d, o
  <1>9. GoodFrame(f)
    <2>1. f.offset + f.len <= Length(f.d) /\ f.len > 0 /\ NeedsFragments(f.d)
      BY <1>1, <1>3, <1>4, <1>5
    <2> QED BY <1>5, <2>1 DEF GoodFrame
  <1>10. /\ NextMore /\ next' \in [Node -> Nat] /\ next'[n] = next[n] + 1
         /\ \A m \in Node : next'[m] \in 1 .. Len(Size[m]) + 1
         /\ \A m \in Node \ {n} : next'[m] = next[m]
    BY <1>1, <1>2, NextGrows
  <1>11. NextTag(my_tag[n]) \in Tags /\ (my_tag[n] + 1 < TagMod => NextTag(my_tag[n]) = my_tag[n] + 1)
    <2> DEFINE a == my_tag[n] + 1
    <2>1. a \in Nat /\ TagMod \in Nat /\ TagMod > 0
      BY <1>4, Parameters
    <2>2. NextTag(my_tag[n]) = a % TagMod
      BY DEF NextTag
    <2> HIDE DEF a
    <2>3. a % TagMod \in 0 .. TagMod - 1 /\ (a < TagMod => a % TagMod = a)
      BY <2>1
    <2> QED BY <2>2, <2>3 DEF Tags, a
  <1>12. my_tag' \in [Node -> Tags] /\ my_tag'[n] = NextTag(my_tag[n])
         /\ \A m \in Node \ {n} : my_tag'[m] = my_tag[m]
    BY <1>1, <1>2, <1>11 DEF Types
  <1>13. Types'
    <2>1. air' \in [Node -> Seq(Frames)]
      BY <1>2, <1>5, <1>7, SentTypes
    <2> QED BY <1>1, <1>2, <1>8, <1>10, <1>12, <2>1 DEF Types
  <1>14. OutGood'
    <2>1. SUFFICES ASSUME NEW m \in Node, out'[m] # NONE
                   PROVE  /\ Begun(next', m, out'[m].d) /\ NeedsFragments(out'[m].d)
                          /\ FragFirst <= out'[m].done /\ out'[m].done < Length(out'[m].d)
      BY DEF OutGood
    <2>2. CASE m = n
      BY <1>1, <1>3, <1>4, <1>6, <1>8, <2>1, <2>2
    <2>3. CASE m # n
      <3>1. out'[m] = out[m] /\ next'[m] = next[m]
        BY <1>8, <1>10, <2>3
      <3>2. /\ Begun(next, m, out[m].d) /\ NeedsFragments(out[m].d)
            /\ FragFirst <= out[m].done /\ out[m].done < Length(out[m].d)
        BY <2>1, <3>1 DEF SicsInv, OutGood
      <3> QED BY <3>1, <3>2 DEF Begun
    <2> QED BY <2>2, <2>3
  <1>15. /\ \A i \in 1 .. Len(air[n]) : Before(air[n][i], f.offset, f.d)
         /\ \A h \in Nat : Begun(next, f.d[1], f.d) /\ Ahead(air, out, f.d, h) => h <= f.offset
    <2>1. ASSUME NEW i \in 1 .. Len(air[n]) PROVE Before(air[n][i], f.offset, f.d)
      <3>1. Begun(next, n, air[n][i].d)
        BY DEF SicsInv, FramesGood
      <3> QED BY <1>3, <1>5, <3>1 DEF Before
    <2> QED BY <1>3, <1>5, <2>1
  <1>16. ASSUME TagsSuffice, reboots = 0 PROVE TagsGood'
    <2>1. \A m \in Node : \A t, e :
            Live(m, air', out', frag_info', t, e) =>
              Live(m, air, out, frag_info, t, e) \/ (m = n /\ t = my_tag[n] /\ e = d)
      BY <1>1, <1>2, <1>5, <1>6, <1>7, <1>8, SentLive
    <2>2. TagsGood
      BY <1>16 DEF SicsInv
    <2>3. SUFFICES ASSUME NEW m \in Node
                   PROVE  TagsUnique(m, air', out', frag_info')
                          /\ TagsFresh(m, air', out', frag_info', next'[m], my_tag'[m])
      BY DEF TagsGood
    <2>4. TagsUnique(m, air, out, frag_info) /\ TagsFresh(m, air, out, frag_info, next[m], my_tag[m])
      BY <2>2 DEF TagsGood
    <2>5. CASE m # n
      <3>1. \A t, e : Live(m, air', out', frag_info', t, e) => Live(m, air, out, frag_info, t, e)
        BY <2>1, <2>5
      <3>2. next'[m] = next[m] /\ my_tag'[m] = my_tag[m]
        BY <1>10, <1>12, <2>5
      <3> QED BY <2>4, <3>1, <3>2 DEF TagsUnique, TagsFresh
    <2>6. CASE m = n
      <3>1. my_tag[n] < next[n]
            /\ \A t \in Tags : \A e \in Datagram : Live(n, air, out, frag_info, t, e) => t < my_tag[n]
        BY <1>3, <2>4, <2>6 DEF TagsFresh
      <3>2. TagsUnique(n, air', out', frag_info')
        <4>1. SUFFICES ASSUME NEW t \in Tags, NEW e \in Datagram, NEW g \in Datagram,
                              Live(n, air', out', frag_info', t, e),
                              Live(n, air', out', frag_info', t, g)
                       PROVE  e = g
          BY DEF TagsUnique
        <4>2. CASE t = my_tag[n]
          <5>1. ~(t < my_tag[n])
            BY <1>4, <4>2
          <5>2. e = d /\ g = d
            BY <2>1, <3>1, <4>1, <5>1
          <5> QED BY <5>2
        <4>3. CASE t # my_tag[n]
          <5>1. Live(n, air, out, frag_info, t, e) /\ Live(n, air, out, frag_info, t, g)
            BY <2>1, <4>1, <4>3
          <5> QED BY <2>4, <2>6, <5>1 DEF TagsUnique
        <4> QED BY <4>2, <4>3
      <3>3. TagsFresh(n, air', out', frag_info', next'[n], my_tag'[n])
        <4>1. SUFFICES ASSUME next'[n] <= Len(Size[n])
                       PROVE  /\ my_tag'[n] < next'[n]
                              /\ \A t \in Tags : \A e \in Datagram :
                                   Live(n, air', out', frag_info', t, e) => t < my_tag'[n]
          BY DEF TagsFresh
        <4>2. next[n] \in Nat /\ Len(Size[n]) \in Nat /\ TagMod \in Nat /\ Len(Size[n]) <= TagMod
          BY <1>2, <1>16, TypesGive, Parameters DEF TagsSuffice
        <4>3. my_tag'[n] = my_tag[n] + 1
          BY <1>4, <1>10, <1>11, <1>12, <3>1, <4>1, <4>2
        <4>4. ASSUME NEW t \in Tags, NEW e \in Datagram, Live(n, air', out', frag_info', t, e)
              PROVE  t < my_tag'[n]
          <5>1. t \in Nat
            BY Parameters
          <5>2. t < my_tag[n] \/ t = my_tag[n]
            BY <2>1, <3>1, <4>4
          <5> QED BY <1>4, <4>3, <5>1, <5>2
        <4> QED BY <1>4, <1>10, <3>1, <4>2, <4>3, <4>4
      <3> QED BY <2>6, <3>2, <3>3
    <2> QED BY <2>5, <2>6
  <1>17. out'[n] # NONE => f.kind # "PLAIN" /\ out'[n].d = f.d /\ out'[n].done = f.offset + f.len
    BY <1>4, <1>5, <1>6, <1>8
  <1> QED BY <1>1, <1>3, <1>5, <1>7, <1>8, <1>9, <1>10, <1>13, <1>14, <1>15, <1>16, <1>17, SendStep

\* A following fragment: it starts where the last one ended.
LEMMA NextKeeps ==
  ASSUME SicsInv, NEW n \in Node, NEW s \in TxStatus, OutputNext(n, s)
  PROVE  SicsInv'
  <1> DEFINE o == out[n]
             rest == Length(o.d) - o.done
             len == Min({FragNext, rest})
             f == Frame("FRAGN", o.d, o.tag, o.done, o.done, len)
             p == [o EXCEPT !.done = o.done + len]
             ends == s \in {"COLLISION", "ERR_FATAL", "NOACK"} \/ o.done + len >= Length(o.d)
  <1>1. /\ out[n] # NONE /\ Transmit(n, f, s)
        /\ out' = [out EXCEPT ![n] = IF ends THEN NONE ELSE p]
        /\ next' = next /\ my_tag' = my_tag
        /\ receiver' = receiver /\ lost' = lost /\ dups' = dups /\ reboots' = reboots
        /\ frag_info' = frag_info /\ frag_buf' = frag_buf
    BY DEF OutputNext, NextOffset, receiver, env
  <1>2. Types /\ TypesAre
    BY TypesGive DEF SicsInv
  <1>3. /\ o \in Out /\ Begun(next, n, o.d) /\ NeedsFragments(o.d)
        /\ FragFirst <= o.done /\ o.done < Length(o.d)
    BY <1>1, <1>2 DEF SicsInv, OutGood, TypesAre
  <1>4. o.d \in Datagram /\ o.tag \in Tags /\ o.done \in Nat /\ Length(o.d) \in Nat
        /\ FragFirst \in Nat /\ FragFirst > 0 /\ FragNext \in Nat /\ FragNext > 0
    BY <1>3, DatagramIs, Parameters DEF Out
  <1> HIDE DEF o
  <1>5. rest \in Nat /\ rest > 0 /\ o.done + rest = Length(o.d)
    BY <1>3, <1>4
  <1>6. len \in Nat /\ len > 0 /\ len <= rest /\ len <= FragNext
    <2> DEFINE T == {FragNext, rest}
    <2> HIDE DEF rest
    <2>1. T \in SUBSET Nat /\ T # {} /\ rest \in T /\ FragNext \in T /\ \A k \in T : k > 0
      BY <1>4, <1>5
    <2> HIDE DEF T
    <2>2. Min(T) \in T /\ \A k \in T : Min(T) <= k
      BY <2>1, MinIs
    <2> QED BY <2>1, <2>2 DEF T
  <1> HIDE DEF rest, len
  <1>7. /\ f \in Frames /\ f.kind = "FRAGN" /\ f.d = o.d /\ f.size = Length(o.d) /\ f.tag = o.tag
        /\ f.offset = o.done /\ f.pos = o.done /\ f.len = len
    <2> DEFINE d == o.d
               t == o.tag
               k == o.done
    <2>1. "FRAGN" \in {"PLAIN", "FRAG1", "FRAGN"} /\ t \in Tags /\ d \in Datagram /\ k \in Nat
      BY <1>4
    <2> HIDE DEF d, t, k
    <2> DEFINE g == Frame("FRAGN", d, t, k, k, len)
    <2>2. /\ g \in Frames /\ g.kind = "FRAGN" /\ g.d = d /\ g.size = Length(d) /\ g.tag = t
          /\ g.offset = k /\ g.pos = k /\ g.len = len
      BY <1>6, <2>1, FrameIs
    <2> QED BY <2>2 DEF d, t, k
  <1>8. o.done + len \in Nat /\ o.done + len <= Length(o.d) /\ o.done + len > o.done
    BY <1>4, <1>5, <1>6
  <1>9. p \in Out /\ p.d = o.d /\ p.tag = o.tag /\ p.done = o.done + len
    <2> DEFINE k == o.done + len
    <2>1. k \in Nat /\ p = [o EXCEPT !.done = k]
      BY <1>8
    <2> HIDE DEF k, p
    <2>2. p \in Out /\ p.d = o.d /\ p.tag = o.tag /\ p.done = k
      BY <1>3, <2>1 DEF Out
    <2> QED BY <2>2 DEF k
  <1>10. Sent(n, f)
    BY <1>1, TransmitSent
  <1> HIDE DEF f, p
  <1>11. /\ out' \in [Node -> Out \cup {NONE}]
         /\ (out'[n] # NONE => out'[n] = p /\ o.done + len < Length(o.d))
         /\ \A m \in Node \ {n} : out'[m] = out[m]
    <2>1. out \in [Node -> Out \cup {NONE}] /\ (~ends => o.done + len < Length(o.d))
      BY <1>2, <1>4, <1>8 DEF TypesAre
    <2> HIDE DEF ends
    <2> QED BY <1>1, <1>9, <2>1
  <1>12. GoodFrame(f)
    <2>1. /\ f.offset + f.len <= Length(f.d) /\ f.len > 0 /\ NeedsFragments(f.d)
          /\ f.offset = f.pos /\ f.len <= FragNext
      BY <1>3, <1>6, <1>7, <1>8
    <2> QED BY <1>7, <2>1 DEF GoodFrame
  <1>13. NextMore /\ Begun(next', n, f.d)
    BY <1>1, <1>2, <1>3, <1>7 DEF NextMore, TypesAre
  <1>14. Types'
    <2>1. air' \in [Node -> Seq(Frames)]
      BY <1>2, <1>7, <1>10, SentTypes
    <2> QED BY <1>1, <1>2, <1>11, <2>1 DEF Types
  <1>15. OutGood'
    <2>1. SUFFICES ASSUME NEW m \in Node, out'[m] # NONE
                   PROVE  /\ Begun(next', m, out'[m].d) /\ NeedsFragments(out'[m].d)
                          /\ FragFirst <= out'[m].done /\ out'[m].done < Length(out'[m].d)
      BY DEF OutGood
    <2>2. CASE m = n
      <3>1. out'[m] = p /\ p.done < Length(p.d) /\ FragFirst <= p.done
        BY <1>3, <1>4, <1>8, <1>9, <1>11, <2>1, <2>2
      <3> QED BY <1>1, <1>3, <1>9, <2>2, <3>1
    <2>3. CASE m # n
      BY <1>1, <1>11, <2>1, <2>3 DEF SicsInv, OutGood
    <2> QED BY <2>2, <2>3
  <1>16. ASSUME dups = 0, reboots = 0
         PROVE  /\ \A i \in 1 .. Len(air[n]) : Before(air[n][i], f.offset, f.d)
                /\ \A h \in Nat : Begun(next, f.d[1], f.d) /\ Ahead(air, out, f.d, h) => h <= f.offset
    <2>1. InOrder(air[n], out[n])
      BY <1>16 DEF SicsInv
    <2> QED BY <1>1, <1>7, <2>1 DEF InOrder, Ahead, o
  <1>17. ASSUME TagsSuffice, reboots = 0 PROVE TagsGood'
    <2>1. out'[n] # NONE => f.kind # "PLAIN" /\ out'[n].d = f.d /\ out'[n].tag = f.tag
      BY <1>7, <1>9, <1>11
    <2>2. \A m \in Node : \A t, d :
            Live(m, air', out', frag_info', t, d) =>
              Live(m, air, out, frag_info, t, d) \/ (m = n /\ t = o.tag /\ d = o.d)
      BY <1>1, <1>2, <1>7, <1>10, <1>11, <2>1, SentLive
    <2>3. Live(n, air, out, frag_info, o.tag, o.d)
      BY <1>1 DEF Live, LiveOut, o
    <2>4. \A m \in Node : \A t \in Tags : \A d \in Datagram :
            Live(m, air', out', frag_info', t, d) => Live(m, air, out, frag_info, t, d)
      BY <2>2, <2>3
    <2>5. TagsGood
      BY <1>17 DEF SicsInv
    <2> QED BY <1>1, <1>2, <1>13, <1>14, <2>4, <2>5, TagsKeep
  <1>18. out'[n] # NONE => f.kind # "PLAIN" /\ out'[n].d = f.d /\ out'[n].done = f.offset + f.len
    BY <1>7, <1>9, <1>11
  <1> QED BY <1>1, <1>7, <1>10, <1>11, <1>12, <1>13, <1>14, <1>15, <1>16, <1>17, <1>18, SendStep

-----------------------------------------------------------------------------
(* Steps of the environment.                                               *)

\* A reassembly state is kept by a step that leaves it alone.
LEMMA ReceiverKept ==
  ASSUME frag_info' = frag_info, frag_buf' = frag_buf
  PROVE  /\ Reass' = Reass /\ (NoOrphan(Reass) => NoOrphan(Reass)')
         /\ \A c \in Context : Kept(Reass, Reass', c)
  BY DEF Reass, Kept, Alike, NoOrphan, Stored

\* A datagram that is dropped for want of queue buffers.
LEMMA NoBuffersKeeps ==
  ASSUME SicsInv, NEW n \in Node, OutputNoBuffers(n)
  PROVE  SicsInv'
  <1>1. /\ next[n] \in DOMAIN Size[n] /\ next' = [next EXCEPT ![n] = @ + 1]
        /\ out' = out /\ my_tag' = my_tag /\ air' = air /\ delivered' = delivered
        /\ frag_info' = frag_info /\ frag_buf' = frag_buf
        /\ lost' = lost /\ dups' = dups /\ reboots' = reboots
    BY DEF OutputNoBuffers, receiver, env
  <1>2. Types /\ TypesAre
    BY TypesGive DEF SicsInv
  <1>3. NextMore /\ next' \in [Node -> Nat] /\ \A m \in Node : next'[m] \in 1 .. Len(Size[m]) + 1
    BY <1>1, <1>2, NextGrows
  <1>4. Types'
    BY <1>1, <1>2, <1>3 DEF Types
  <1>5. AirLess /\ OutLess
    BY <1>1, <1>2, SameLess DEF OutLess
  <1>6. NoOrphan(Reass)' /\ \A c \in Context : Kept(Reass, Reass', c)
    BY <1>1, ReceiverKept DEF SicsInv
  <1>7. HeadersKnown /\ TagsSuffice /\ dups' = 0 /\ reboots' = 0 => Intact'
    BY <1>1 DEF SicsInv, Intact
  <1> QED BY <1>1, <1>3, <1>4, <1>5, <1>6, <1>7, KeptStep

\* A sender that reboots.
LEMMA RebootKeeps ==
  ASSUME SicsInv, NEW n \in Node, Reboot(n)
  PROVE  SicsInv'
  <1>1. /\ reboots' = reboots + 1 /\ out' = [out EXCEPT ![n] = NONE]
        /\ my_tag' = [my_tag EXCEPT ![n] = 0] /\ next' = next /\ air' = air
        /\ frag_info' = frag_info /\ frag_buf' = frag_buf
        /\ lost' = lost /\ dups' = dups
    BY DEF Reboot, receiver
  <1>2. Types /\ TypesAre
    BY TypesGive DEF SicsInv
  <1>3. reboots' \in Nat /\ reboots' # 0
    BY <1>1, <1>2 DEF Types
  <1>4. Types'
    BY <1>1, <1>2, <1>3, Parameters DEF Types
  <1>5. AirLess /\ OutLess /\ NextMore
    BY <1>1, <1>2, SameLess DEF OutLess, NextMore, TypesAre
  <1>6. NoOrphan(Reass)' /\ \A c \in Context : Kept(Reass, Reass', c)
    BY <1>1, ReceiverKept DEF SicsInv
  <1> QED BY <1>1, <1>3, <1>4, <1>5, <1>6, KeptStep

\* A frame that is lost.
LEMMA LoseKeeps ==
  ASSUME SicsInv, NEW n \in Node, Lose(n)
  PROVE  SicsInv'
  <1>1. /\ air[n] # <<>> /\ lost' = lost + 1 /\ air' = [air EXCEPT ![n] = Tail(@)]
        /\ next' = next /\ out' = out /\ my_tag' = my_tag /\ delivered' = delivered
        /\ frag_info' = frag_info /\ frag_buf' = frag_buf
        /\ dups' = dups /\ reboots' = reboots
    BY DEF Lose, sender, receiver
  <1>2. Types /\ TypesAre
    BY TypesGive DEF SicsInv
  <1>3. air' \in [Node -> Seq(Frames)] /\ AirLess
    BY <1>1, <1>2, ConsumeLess
  <1>4. Types'
    BY <1>1, <1>2, <1>3 DEF Types
  <1>5. OutLess /\ NextMore
    BY <1>1, <1>2 DEF OutLess, NextMore, TypesAre
  <1>6. NoOrphan(Reass)' /\ \A c \in Context : Kept(Reass, Reass', c)
    BY <1>1, ReceiverKept DEF SicsInv
  <1>7. HeadersKnown /\ TagsSuffice /\ dups' = 0 /\ reboots' = 0 => Intact'
    BY <1>1 DEF SicsInv, Intact
  <1> QED BY <1>1, <1>3, <1>4, <1>5, <1>6, <1>7, KeptStep

\* A repeated frame is one that was there.
LEMMA RepeatFrames ==
  ASSUME NEW S, NEW q \in Seq(S), q # <<>>
  PROVE  /\ <<Head(q)>> \o q \in Seq(S)
         /\ \A i \in 1 .. Len(<<Head(q)>> \o q) :
              \E j \in 1 .. Len(q) : (<<Head(q)>> \o q)[i] = q[j]
  <1> DEFINE x == Head(q)
             a == <<x>> \o q
  <1>1. x = q[1] /\ x \in S /\ 1 \in 1 .. Len(q) /\ Len(q) \in Nat
    OBVIOUS
  <1> HIDE DEF x
  <1>2. a \in Seq(S) /\ Len(a) = Len(q) + 1 /\ a[1] = x /\ \A i \in 2 .. Len(q) + 1 : a[i] = q[i - 1]
    BY <1>1
  <1> HIDE DEF a
  <1>3. \A i \in 1 .. Len(a) : \E j \in 1 .. Len(q) : a[i] = q[j]
    <2>1. TAKE i \in 1 .. Len(a)
    <2>2. CASE i = 1
      BY <1>1, <1>2, <2>2
    <2>3. CASE i # 1
      <3>1. i \in 2 .. Len(q) + 1 /\ i - 1 \in 1 .. Len(q)
        BY <1>1, <1>2, <2>3
      <3> QED BY <1>2, <3>1
    <2> QED BY <2>2, <2>3
  <1> QED BY <1>2, <1>3 DEF a, x

\* A frame that is repeated.
LEMMA RepeatKeeps ==
  ASSUME SicsInv, NEW n \in Node, Repeat(n)
  PROVE  SicsInv'
  <1>1. /\ air[n] # <<>> /\ dups' = dups + 1 /\ air' = [air EXCEPT ![n] = <<Head(@)>> \o @]
        /\ next' = next /\ out' = out /\ my_tag' = my_tag /\ delivered' = delivered
        /\ frag_info' = frag_info /\ frag_buf' = frag_buf
        /\ lost' = lost /\ reboots' = reboots
    BY DEF Repeat, sender, receiver
  <1>2. Types /\ TypesAre /\ Reass \in Reassembly
    BY TypesGive DEF SicsInv
  <1>3. dups' \in Nat /\ dups' # 0
    BY <1>1, <1>2 DEF Types
  <1>4. /\ air' \in [Node -> Seq(Frames)]
        /\ \A m \in Node : \A i \in 1 .. Len(air'[m]) : \E j \in 1 .. Len(air[m]) : air'[m][i] = air[m][j]
    <2> DEFINE q == air[n]
               a == <<Head(q)>> \o q
    <2>1. q \in Seq(Frames) /\ q # <<>> /\ air \in [Node -> Seq(Frames)]
      BY <1>1, <1>2 DEF TypesAre
    <2>2. air' = [air EXCEPT ![n] = a]
      BY <1>1
    <2>3. a \in Seq(Frames) /\ \A i \in 1 .. Len(a) : \E j \in 1 .. Len(q) : a[i] = q[j]
      <3> HIDE DEF q
      <3> QED BY <2>1, RepeatFrames
    <2> HIDE DEF a
    <2> QED BY <2>1, <2>2, <2>3
  <1>5. Types'
    BY <1>1, <1>2, <1>3, <1>4 DEF Types
  <1>6. FramesGood' /\ OutGood'
    BY <1>1, <1>4 DEF SicsInv, FramesGood, OutGood
  <1>7. NoOrphan(Reass)' /\ Reass' = Reass
    BY <1>1, ReceiverKept DEF SicsInv
  <1>8. AllSound'
    <2> DEFINE r == Reass
    <2>1. SUFFICES ASSUME NEW c \in Context
                   PROVE  Sound(r, c, next', air', out', dups', reboots')
      BY <1>7 DEF AllSound
    <2>2. Sound(r, c, next, air, out, dups, reboots)
      BY DEF SicsInv, AllSound
    <2>3. \A m \in Node : next[m] \in Nat /\ next'[m] \in Nat /\ next[m] <= next'[m]
      BY <1>1, <1>2 DEF TypesAre
    <2>4. r \in Reassembly
      BY <1>2
    <2> HIDE DEF r
    <2>5. Kept(r, r, c)
      BY DEF Kept, Alike
    <2> QED BY <1>1, <1>3, <2>2, <2>3, <2>4, <2>5, SoundKept
  <1>9. ASSUME TagsSuffice, reboots' = 0 PROVE TagsGood'
    <2>1. \A m \in Node : \A t, d : LiveFrame(m, air', t, d) => LiveFrame(m, air, t, d)
      <3>1. SUFFICES ASSUME NEW m \in Node, NEW t, NEW d, NEW i \in 1 .. Len(air'[m]),
                            air'[m][i].kind # "PLAIN", air'[m][i].tag = t, air'[m][i].d = d
                     PROVE  LiveFrame(m, air, t, d)
        BY DEF LiveFrame
      <3>2. PICK j \in 1 .. Len(air[m]) : air'[m][i] = air[m][j]
        BY <1>4
      <3> QED BY <3>1, <3>2 DEF LiveFrame
    <2>2. \A m \in Node : \A t \in Tags : \A d \in Datagram :
            Live(m, air', out', frag_info', t, d) => Live(m, air, out, frag_info, t, d)
      BY <1>1, <2>1 DEF Live
    <2>3. TagsGood /\ NextMore
      BY <1>1, <1>2, <1>9 DEF SicsInv, NextMore, TypesAre
    <2> QED BY <1>1, <1>2, <1>5, <2>2, <2>3, TagsKeep
  <1> QED BY <1>3, <1>5, <1>6, <1>7, <1>8, <1>9 DEF SicsInv

\* A reassembly timer that runs out.
LEMMA ExpireKeeps ==
  ASSUME SicsInv, NEW c \in Context, Expire(c)
  PROVE  SicsInv'
  <1> DEFINE i == frag_info[c]
             j == [i EXCEPT !.expired = TRUE]
  <1>1. /\ frag_info' = [frag_info EXCEPT ![c] = j]
        /\ next' = next /\ out' = out /\ my_tag' = my_tag /\ delivered' = delivered
        /\ air' = air /\ frag_buf' = frag_buf
        /\ lost' = lost /\ dups' = dups /\ reboots' = reboots
    BY DEF Expire, sender, env
  <1>2. Types /\ TypesAre
    BY TypesGive DEF SicsInv
  <1>3. i \in Info /\ frag_info \in [Context -> Info]
    BY <1>2 DEF Types
  <1>4. j \in Info /\ Alike(i, j)
    <2> HIDE DEF i
    <2> QED BY <1>3 DEF Info, Alike
  <1> HIDE DEF j
  <1>5. /\ frag_info' \in [Context -> Info]
        /\ \A x \in Context : Alike(frag_info[x], frag_info'[x])
    BY <1>1, <1>3, <1>4 DEF Alike
  <1>6. Types'
    BY <1>1, <1>2, <1>5 DEF Types
  <1>7. AirLess /\ OutLess /\ NextMore
    BY <1>1, <1>2, SameLess DEF OutLess, NextMore, TypesAre
  <1>8. \A x \in Context : Kept(Reass, Reass', x)
    BY <1>1, <1>5 DEF Reass, Kept, Stored
  <1>9. NoOrphan(Reass)'
    <2>1. NoOrphan(Reass)
      BY DEF SicsInv
    <2>2. \A x \in Context : frag_info'[x].len = frag_info[x].len
      BY <1>5 DEF Alike
    <2> QED BY <1>1, <2>1, <2>2 DEF NoOrphan, Reass
  <1>10. HeadersKnown /\ TagsSuffice /\ dups' = 0 /\ reboots' = 0 => Intact'
    BY <1>1 DEF SicsInv, Intact
  <1> QED BY <1>1, <1>6, <1>7, <1>8, <1>9, <1>10, KeptStep

-----------------------------------------------------------------------------
(* The actions of the receiver.                                            *)

\* What is known of the frame that arrives.
LEMMA HeadIs ==
  ASSUME SicsInv, NEW n \in Node, air[n] # <<>>
  PROVE  LET f == Head(air[n])
         IN  /\ f \in Frames /\ Begun(next, n, f.d) /\ GoodFrame(f)
             /\ 1 \in 1 .. Len(air[n]) /\ f = air[n][1]
             /\ f.kind # "PLAIN" => Live(n, air, out, frag_info, f.tag, f.d)
  <1>1. air[n] \in Seq(Frames)
    BY TypesGive DEF SicsInv
  <1>2. 1 \in 1 .. Len(air[n]) /\ Head(air[n]) = air[n][1] /\ Head(air[n]) \in Frames
    BY <1>1, TailShift
  <1>3. Begun(next, n, air[n][1].d) /\ GoodFrame(air[n][1])
    BY <1>2 DEF SicsInv, FramesGood
  <1> QED BY <1>2, <1>3 DEF Live, LiveFrame

\* The frame that arrives leaves the queue of its sender.
LEMMA ConsumeIs ==
  ASSUME SicsInv, NEW n \in Node, air[n] # <<>>, Consume(n)
  PROVE  /\ next' = next /\ out' = out /\ my_tag' = my_tag
         /\ lost' = lost /\ dups' = dups /\ reboots' = reboots
         /\ air' \in [Node -> Seq(Frames)] /\ air'[n] = Tail(air[n])
         /\ \A m \in Node \ {n} : air'[m] = air[m]
         /\ AirLess /\ OutLess /\ NextMore
         /\ frag_info' \in [Context -> Info] /\ frag_buf' \in [Buffer -> Buf] => Types'
  <1>1. /\ air' = [air EXCEPT ![n] = Tail(@)]
        /\ next' = next /\ out' = out /\ my_tag' = my_tag
        /\ lost' = lost /\ dups' = dups /\ reboots' = reboots
    BY DEF Consume, sender, env
  <1>2. Types /\ TypesAre
    BY TypesGive DEF SicsInv
  <1>3. air' \in [Node -> Seq(Frames)] /\ AirLess
    BY <1>1, <1>2, ConsumeLess
  <1>4. OutLess /\ NextMore
    BY <1>1, <1>2 DEF OutLess, NextMore, TypesAre
  <1>5. air'[n] = Tail(air[n]) /\ \A m \in Node \ {n} : air'[m] = air[m]
    BY <1>1, <1>2 DEF TypesAre
  <1>6. frag_info' \in [Context -> Info] /\ frag_buf' \in [Buffer -> Buf] => Types'
    BY <1>1, <1>2, <1>3 DEF Types
  <1> QED BY <1>1, <1>3, <1>4, <1>5, <1>6

\* What follows the frame that arrives starts at its end or later.
LEMMA HeadAhead ==
  ASSUME SicsInv, NEW n \in Node, air[n] # <<>>, Consume(n), dups = 0, reboots = 0,
         NEW f, f = Head(air[n]), f.kind # "PLAIN"
  PROVE  Ahead(air', out', f.d, f.offset + f.len)
  <1>1. Begun(next, n, f.d) /\ 1 \in 1 .. Len(air[n]) /\ f = air[n][1]
    BY HeadIs
  <1>2. /\ out' = out /\ air'[n] = Tail(air[n]) /\ \A m \in Node \ {n} : air'[m] = air[m]
    BY ConsumeIs
  <1>3. InOrder(air[n], out[n])
    BY DEF SicsInv
  <1>4. air[n] \in Seq(Frames)
    BY TypesGive DEF SicsInv
  <1>5. ASSUME NEW m \in Node, NEW i \in 1 .. Len(air'[m]), air'[m][i].kind # "PLAIN",
               air'[m][i].d = f.d
        PROVE  f.offset + f.len <= air'[m][i].offset
    <2>1. CASE m = n
      <3> DEFINE q == air[n]
      <3>1. q \in Seq(Frames) /\ q # <<>> /\ i \in 1 .. Len(Tail(q))
        BY <1>2, <1>4, <1>5, <2>1
      <3> HIDE DEF q
      <3>2. Tail(q)[i] = q[i + 1] /\ i + 1 \in 1 .. Len(q) /\ 1 < i + 1
        BY <3>1
      <3>3. air'[m][i] = air[n][i + 1] /\ i + 1 \in 1 .. Len(air[n]) /\ 1 < i + 1
        BY <1>2, <2>1, <3>2 DEF q
      <3>4. Before(air[n][1], air[n][i + 1].offset, air[n][i + 1].d)
        BY <1>1, <1>3, <1>5, <3>3 DEF InOrder
      <3> QED BY <1>1, <1>5, <3>3, <3>4 DEF Before
    <2>2. CASE m # n
      <3>1. Begun(next, m, air[m][i].d) /\ air'[m][i] = air[m][i]
        BY <1>2, <2>2 DEF SicsInv, FramesGood
      <3> QED BY <1>1, <1>5, <2>2, <3>1 DEF Begun
    <2> QED BY <2>1, <2>2
  <1>6. ASSUME NEW m \in Node, out'[m] # NONE, out'[m].d = f.d
        PROVE  f.offset + f.len <= out'[m].done
    <2>1. m = n
      <3>1. Begun(next, m, out[m].d)
        BY <1>2, <1>6 DEF SicsInv, OutGood
      <3> QED BY <1>1, <1>2, <1>6, <3>1 DEF Begun
    <2>2. Before(air[n][1], out[n].done, out[n].d)
      BY <1>1, <1>2, <1>3, <1>6, <2>1 DEF InOrder
    <2> QED BY <1>1, <1>2, <1>6, <2>1, <2>2 DEF Before
  <1> QED BY <1>5, <1>6 DEF Ahead

\* What is known of a context after the frame has left the queue.
LEMMA SoundConsumed ==
  ASSUME SicsInv, NEW n \in Node, air[n] # <<>>, Consume(n),
         NEW z \in Reassembly, NEW c \in Context, z.info[c].len = 0 \/ Kept(Reass, z, c)
  PROVE  Sound(z, c, next', air', out', dups', reboots')
  <1>1. Types /\ TypesAre /\ Reass \in Reassembly
    BY TypesGive DEF SicsInv
  <1>2. /\ next' = next /\ out' = out /\ dups' = dups /\ reboots' = reboots
        /\ AirLess /\ OutLess /\ NextMore /\ TypesAre'
    BY <1>1, ConsumeIs DEF TypesAre
  <1>3. \A d, h : Ahead(air, out, d, h) => Ahead(air', out', d, h)
    BY <1>1, <1>2, LessKeeps
  <1> DEFINE r == Reass
  <1>4. Sound(r, c, next, air, out, dups, reboots)
    BY DEF SicsInv, AllSound
  <1>5. \A m \in Node : next[m] \in Nat /\ next'[m] \in Nat /\ next[m] <= next'[m]
    BY <1>1, <1>2 DEF TypesAre
  <1>6. r \in Reassembly /\ (z.info[c].len = 0 \/ Kept(r, z, c))
    BY <1>1
  <1> HIDE DEF r
  <1> QED BY <1>2, <1>3, <1>4, <1>5, <1>6, SoundKept

\* The reassembly state after a step, from its two parts.
LEMMA ReassIs ==
  ASSUME NEW z, z \in Reassembly, frag_info' = z.info, frag_buf' = z.buf
  PROVE  /\ Reass' = z
         /\ frag_info' \in [Context -> Info] /\ frag_buf' \in [Buffer -> Buf]
  BY DEF Reass, Reassembly

\* The invariant says that no buffer is orphaned.
LEMMA ReassValid ==
  ASSUME SicsInv
  PROVE  Valid(Reass) /\ Reass.info = frag_info /\ Reass.buf = frag_buf
  BY TypesGive DEF SicsInv, Valid

\* A frame arrives, and contexts are only kept or closed.
LEMMA KeptArrival ==
  ASSUME SicsInv, NEW n \in Node, air[n] # <<>>, Consume(n),
         NEW z, Valid(z), frag_info' = z.info, frag_buf' = z.buf,
         \A c \in Context : z.info[c].len = 0 \/ Kept(Reass, z, c),
         HeadersKnown /\ TagsSuffice /\ dups' = 0 /\ reboots' = 0 => Intact'
  PROVE  SicsInv'
  <1>1. /\ Reass' = z /\ frag_info' \in [Context -> Info] /\ frag_buf' \in [Buffer -> Buf]
    BY ReassIs DEF Valid
  <1>2. /\ Types' /\ AirLess /\ OutLess /\ NextMore /\ dups' = dups /\ reboots' = reboots
        /\ my_tag' = my_tag
    BY <1>1, ConsumeIs
  <1>3. NoOrphan(Reass)'
    <2>1. NoOrphan(Reass)' <=> NoOrphan(Reass')
      BY DEF NoOrphan
    <2> QED BY <1>1, <2>1 DEF Valid
  <1> QED BY <1>1, <1>2, <1>3, KeptStep

\* A datagram that arrives in one frame.
LEMMA InputPlainKeeps ==
  ASSUME SicsInv, NEW n \in Node, InputPlain(n)
  PROVE  SicsInv'
  <1> DEFINE f == Head(air[n])
             r == Reass
  <1>1. /\ air[n] # <<>> /\ Consume(n) /\ frag_info' = frag_info /\ frag_buf' = frag_buf
        /\ delivered' = delivered \/ delivered' = delivered \cup {Packet(f.d)}
    BY DEF InputPlain, Arrives
  <1>2. f.d \in Datagram
    BY <1>1, HeadIs DEF Begun
  <1>3. Valid(r) /\ frag_info' = r.info /\ frag_buf' = r.buf /\ \A c \in Context : Kept(r, r, c)
    BY <1>1, ReassValid DEF Kept, Alike
  <1>4. dups' = dups /\ reboots' = reboots
    BY <1>1, ConsumeIs
  <1>5. HeadersKnown /\ TagsSuffice /\ dups' = 0 /\ reboots' = 0 => Intact'
    BY <1>1, <1>2, <1>4 DEF SicsInv, Intact
  <1> HIDE DEF f
  <1> QED BY <1>1, <1>3, <1>5, KeptArrival

\* A first fragment: expired contexts are closed, one may be opened.
LEMMA InputFirstKeeps ==
  ASSUME SicsInv, NEW n \in Node, InputFirst(n)
  PROVE  SicsInv'
  <1> DEFINE f == Head(air[n])
             r == ForFirst(Reass)
             c == Min(FreeContexts(r))
             z == Uncompress(OpenContext(r, c, n, f), c, f)
  <1>1. /\ air[n] # <<>> /\ f.kind = "FRAG1" /\ Consume(n) /\ delivered' = delivered
        /\ LET y == IF FreeContexts(r) = {} THEN r ELSE z
           IN  frag_info' = y.info /\ frag_buf' = y.buf
    BY DEF InputFirst, Arrives, SetReass
  <1>2. /\ f \in Frames /\ Begun(next, n, f.d) /\ GoodFrame(f)
        /\ Live(n, air, out, frag_info, f.tag, f.d)
    BY <1>1, HeadIs
  <1>3. Valid(Reass) /\ Reass.info = frag_info /\ Reass.buf = frag_buf
    BY ReassValid
  <1>4. /\ Valid(r) /\ \A x \in Context : r.info[x].len = 0 \/ Kept(Reass, r, x)
    <2> DEFINE cs == ExpiredContexts(Reass)
               q == Reass
    <2>1. cs \in SUBSET Context /\ Valid(q)
      BY <1>3 DEF ExpiredContexts
    <2>2. r = ClearFragments(q, cs)
      BY DEF ForFirst
    <2> HIDE DEF cs, q, r
    <2>3. /\ Valid(r) /\ \A x \in cs : r.info[x].len = 0
          /\ \A x \in Context \ cs : Kept(q, r, x)
      BY <2>1, <2>2, ClearIs
    <2> QED BY <2>3 DEF q
  <1>5. HeadersKnown /\ TagsSuffice /\ dups' = 0 /\ reboots' = 0 => Intact'
    BY <1>1, ConsumeIs DEF SicsInv, Intact
  <1>6. CASE FreeContexts(r) = {}
    <2>1. frag_info' = r.info /\ frag_buf' = r.buf
      BY <1>1, <1>6
    <2> HIDE DEF r
    <2> QED BY <1>1, <1>4, <1>5, <2>1, KeptArrival
  <1>7. CASE FreeContexts(r) # {}
    <2>1. frag_info' = z.info /\ frag_buf' = z.buf
      BY <1>1, <1>7
    <2> HIDE DEF f, r
    <2>2. c \in Context /\ r.info[c].len = 0
      <3>1. FreeContexts(r) \in SUBSET Nat
        BY Parameters DEF FreeContexts
      <3>2. c \in FreeContexts(r)
        <4> DEFINE T == FreeContexts(r)
        <4>1. T \in SUBSET Nat /\ T # {}
          BY <1>7, <3>1
        <4> HIDE DEF T
        <4> QED BY <4>1, MinIs DEF T
      <3> QED BY <3>2 DEF FreeContexts
    <2> HIDE DEF c
    <2>3. /\ f.d \in Datagram /\ f.d[1] = n /\ NeedsFragments(f.d) /\ f.size = Length(f.d)
          /\ f.offset = 0 /\ f.len = FragFirst /\ f.len \in Nat /\ f.size > 0
      <3>1. /\ f.d \in Datagram /\ f.d[1] = n /\ NeedsFragments(f.d) /\ f.size = Length(f.d)
            /\ f.offset = 0 /\ f.len = FragFirst
        BY <1>1, <1>2 DEF Begun, GoodFrame
      <3>2. Length(f.d) \in Nat /\ FragFirst \in Nat /\ FragFirst > 0
        BY <3>1, DatagramIs, Parameters
      <3> QED BY <3>1, <3>2 DEF NeedsFragments
    <2>4. /\ Valid(z) /\ Stored(z, c) = {}
          /\ z.info[c].len = f.size /\ z.info[c].tag = f.tag
          /\ z.info[c].sender = n /\ z.info[c].opener = f.d
          /\ f.d \notin Unknown =>
               z.info[c].reassembled_len = f.len /\ z.info[c].first_frag_len = f.len
               /\ z.info[c].first_frag = f.d
          /\ \A x \in Context \ {c} : Kept(r, z, x)
      BY <1>2, <1>4, <2>2, <2>3, OpenIs
    <2> HIDE DEF z
    <2>5. ASSUME NEW x \in Context \ {c} PROVE z.info[x].len = 0 \/ Kept(Reass, z, x)
      <3>1. Kept(r, z, x)
        BY <2>4
      <3>2. CASE r.info[x].len = 0
        BY <3>1, <3>2 DEF Kept, Alike
      <3>3. CASE Kept(Reass, r, x)
        BY <3>1, <3>3, KeptTwice
      <3> QED BY <1>4, <3>2, <3>3
    <2>6. z \in Reassembly /\ NoOrphan(z)
      BY <2>4 DEF Valid
    <2>7. Reass' = z /\ frag_info' \in [Context -> Info] /\ frag_buf' \in [Buffer -> Buf]
      BY <2>1, <2>6, ReassIs
    <2>8. /\ Types' /\ AirLess /\ OutLess /\ NextMore /\ dups' = dups /\ reboots' = reboots
          /\ my_tag' = my_tag /\ next' = next /\ out' = out
      BY <1>1, <2>7, ConsumeIs
    <2>9. Sound(z, c, next', air', out', dups', reboots')
      <3>1. Held(z.info[c]) /\ Begun(next', n, f.d)
        BY <1>2, <2>3, <2>4, <2>8 DEF Held
      <3>2. ASSUME HeadersKnown PROVE Accounted(z, c) /\ Collected(z, c, f.len)
        <4>1. f.d \notin Unknown
          BY <2>3, <3>2 DEF HeadersKnown
        <4> QED BY <1>1, <1>2, <2>4, <2>6, <2>2, <4>1, OpenContent DEF f
      <3>3. OneSource(z, c)
        BY <2>4 DEF OneSource
      <3>4. ASSUME HeadersKnown, dups' = 0, reboots' = 0 PROVE Growing(z, c, air', out')
        <4>1. Ahead(air', out', f.d, f.offset + f.len)
          BY <1>1, <2>8, <3>4, HeadAhead DEF f
        <4>2. f.offset + f.len = f.len
          BY <2>3
        <4> QED BY <2>3, <2>4, <3>2, <3>4, <4>1, <4>2 DEF Growing
      <3> QED BY <2>4, <3>1, <3>2, <3>3, <3>4 DEF Sound
    <2>10. AllSound'
      <3>1. ASSUME NEW x \in Context PROVE Sound(z, x, next', air', out', dups', reboots')
        <4>1. CASE x = c
          BY <2>9, <4>1
        <4>2. CASE x # c
          BY <1>1, <2>5, <2>6, <4>2, SoundConsumed
        <4> QED BY <4>1, <4>2
      <3> QED BY <2>7, <3>1 DEF AllSound
    <2>11. ASSUME NEW m \in Node, NEW t \in Tags, NEW d \in Datagram, LiveContext(m, frag_info', t, d)
           PROVE  Live(m, air, out, frag_info, t, d)
      <3>1. PICK x \in Context : /\ z.info[x].len > 0 /\ z.info[x].sender = m
                                 /\ z.info[x].tag = t /\ z.info[x].opener = d
        BY <2>1, <2>11 DEF LiveContext
      <3>2. CASE x = c
        BY <1>2, <2>4, <3>1, <3>2
      <3>3. CASE x # c
        <4>1. Kept(Reass, z, x)
          BY <2>5, <3>1, <3>3
        <4> QED BY <1>3, <3>1, <4>1 DEF Kept, Alike, Live, LiveContext
      <3> QED BY <3>2, <3>3
    <2>12. NoOrphan(Reass)'
      <3>1. NoOrphan(Reass)' <=> NoOrphan(Reass')
        BY DEF NoOrphan
      <3> QED BY <2>6, <2>7, <3>1
    <2> QED BY <1>5, <2>8, <2>10, <2>11, <2>12, SilentStep
  <1> QED BY <1>6, <1>7

\* The following fragment goes to a context that is open for its sender and tag.
LEMMA MatchIs ==
  ASSUME SicsInv, NEW n \in Node, NEW f, Matching(n, f) # {}
  PROVE  LET c == Min(Matching(n, f))
         IN  /\ c \in Context /\ frag_info[c].len > 0 /\ frag_info[c].tag = f.tag
             /\ frag_info[c].sender = n
  <1> DEFINE T == Matching(n, f)
  <1>1. T \in SUBSET Nat /\ T # {}
    BY Parameters DEF Matching
  <1>2. Min(T) \in T
    <2> HIDE DEF T
    <2> QED BY <1>1, MinIs
  <1> QED BY <1>2 DEF Matching

\* Making room keeps the context of the fragment.
LEMMA RoomIs ==
  ASSUME NEW q, Valid(q), NEW c \in Context
  PROVE  LET r == IF FreeBuffers(q) # {} THEN q ELSE TimeoutFragments(q, c)
         IN  /\ Valid(r) /\ Kept(q, r, c)
             /\ \A x \in Context : r.info[x].len = 0 \/ Kept(q, r, x)
  <1> DEFINE cs == ExpiredContexts(q) \ {c}
             y == TimeoutFragments(q, c)
  <1>1. cs \in SUBSET Context /\ c \in Context \ cs
    BY DEF ExpiredContexts
  <1>2. y = ClearFragments(q, cs)
    BY DEF TimeoutFragments
  <1> HIDE DEF cs, y
  <1>3. /\ Valid(y) /\ \A x \in cs : y.info[x].len = 0
        /\ \A x \in Context \ cs : Kept(q, y, x)
    BY <1>1, <1>2, ClearIs
  <1>4. \A x : Kept(q, q, x)
    BY DEF Kept, Alike
  <1>5. Kept(q, y, c) /\ \A x \in Context : y.info[x].len = 0 \/ Kept(q, y, x)
    BY <1>1, <1>3
  <1> QED BY <1>3, <1>4, <1>5 DEF y

\* Storing a fragment leaves every context sound, and the one that it completes whole.
LEMMA StoreSound ==
  ASSUME SicsInv, NEW n \in Node, air[n] # <<>>, Consume(n),
         NEW f, f = Head(air[n]), f.kind = "FRAGN",
         NEW c \in Context, frag_info[c].len > 0, frag_info[c].tag = f.tag, frag_info[c].sender = n,
         NEW r, Valid(r), Kept(Reass, r, c), FreeBuffers(r) # {},
         \A x \in Context : r.info[x].len = 0 \/ Kept(Reass, r, x),
         NEW z, z = CountLen(StoreFragment(r, c, f), c, f)
  PROVE  /\ Valid(z)
         /\ \A x \in Context : Sound(z, x, next', air', out', dups', reboots')
         /\ \A m, t, d : LiveContext(m, z.info, t, d) => LiveContext(m, frag_info, t, d)
         /\ HeadersKnown /\ TagsSuffice /\ dups = 0 /\ reboots = 0 /\ Complete(z, c, f) =>
              CopyFrags(z, c, f.size) = Packet(f.d) /\ f.d \in Datagram
  <1>1. /\ f \in Frames /\ Begun(next, n, f.d) /\ GoodFrame(f) /\ f = air[n][1]
        /\ 1 \in 1 .. Len(air[n]) /\ Live(n, air, out, frag_info, f.tag, f.d)
    BY HeadIs
  <1>2. f.len > 0 /\ f.len <= FragNext /\ f.len \in Nat /\ f.offset \in Nat /\ f.size = Length(f.d) /\ f.d \in Datagram
        /\ f.tag \in Tags
    BY <1>1 DEF GoodFrame, Frames
  <1>3. Valid(Reass) /\ Reass.info = frag_info /\ Reass \in Reassembly /\ r \in Reassembly
    BY ReassValid DEF Valid
  <1>4. /\ r.info[c].len > 0 /\ r.info[c].opener = frag_info[c].opener
        /\ r.info[c].sender = n /\ r.info[c].tag = f.tag
    BY <1>3 DEF Kept, Alike
  <1>5. /\ Valid(z) /\ z.info[c] = Counted(r.info[c], f)
        /\ \E b \in Buffer \ Stored(r, c) :
             /\ Stored(z, c) = Stored(r, c) \cup {b}
             /\ z.buf[b].len = f.len /\ z.buf[b].offset = f.offset
             /\ z.buf[b].pos = f.pos /\ z.buf[b].d = f.d
             /\ \A x \in Stored(r, c) : z.buf[x] = r.buf[x]
        /\ \A x \in Context \ {c} : Kept(r, z, x)
    <2>1. Valid(r) /\ r.info[c].len > 0 /\ FreeBuffers(r) # {} /\ f \in Frames /\ f.len > 0 /\ f.len <= FragNext
      BY <1>1, <1>2, <1>4
    <2> DEFINE y == CountLen(StoreFragment(r, c, f), c, f)
    <2>2. /\ Valid(y) /\ y.info[c] = Counted(r.info[c], f)
          /\ \E b \in Buffer \ Stored(r, c) :
               /\ Stored(y, c) = Stored(r, c) \cup {b}
               /\ y.buf[b].len = f.len /\ y.buf[b].offset = f.offset
               /\ y.buf[b].pos = f.pos /\ y.buf[b].d = f.d
               /\ \A x \in Stored(r, c) : y.buf[x] = r.buf[x]
          /\ \A x \in Context \ {c} : Kept(r, y, x)
      BY <2>1, AddIs
    <2>3. z = y
      OBVIOUS
    <2> HIDE DEF y
    <2> QED BY <2>2, <2>3
  <1>6. PICK b \in Buffer \ Stored(r, c) :
             /\ Stored(z, c) = Stored(r, c) \cup {b}
             /\ z.buf[b].len = f.len /\ z.buf[b].offset = f.offset
             /\ z.buf[b].pos = f.pos /\ z.buf[b].d = f.d
             /\ \A x \in Stored(r, c) : z.buf[x] = r.buf[x]
    BY <1>5
  <1>7. /\ z.info[c].len = r.info[c].len /\ z.info[c].tag = r.info[c].tag
        /\ z.info[c].sender = r.info[c].sender /\ z.info[c].opener = r.info[c].opener
    <2>1. r.info[c] \in Info
      BY <1>3, ReassemblyIs
    <2>2. z.info[c] = Counted(r.info[c], f) /\ f \in Frames
      BY <1>1, <1>5
    <2> QED BY <2>1, <2>2, CountedIs
  <1>8. z \in Reassembly
    BY <1>5 DEF Valid
  <1>9. ASSUME NEW x \in Context \ {c} PROVE z.info[x].len = 0 \/ Kept(Reass, z, x)
    <2>1. Kept(r, z, x)
      BY <1>5
    <2>2. CASE r.info[x].len = 0
      BY <2>1, <2>2 DEF Kept, Alike
    <2>3. CASE Kept(Reass, r, x)
      BY <2>1, <2>3, KeptTwice
    <2> QED BY <2>2, <2>3
  <1>10. \A m, t, d : LiveContext(m, z.info, t, d) => LiveContext(m, frag_info, t, d)
    <2>1. SUFFICES ASSUME NEW m, NEW t, NEW d, NEW x \in Context, z.info[x].len > 0,
                          z.info[x].sender = m, z.info[x].tag = t, z.info[x].opener = d
                   PROVE  LiveContext(m, frag_info, t, d)
      BY DEF LiveContext
    <2>2. CASE x = c
      BY <1>4, <1>7, <2>1, <2>2 DEF LiveContext
    <2>3. CASE x # c
      <3>1. Kept(Reass, z, x)
        BY <1>9, <2>1, <2>3
      <3> QED BY <1>3, <2>1, <3>1 DEF Kept, Alike, LiveContext
    <2> QED BY <2>2, <2>3
  <1>11. /\ next' = next /\ out' = out /\ dups' = dups /\ reboots' = reboots
    BY ConsumeIs
  <1>12. Sound(r, c, next, air, out, dups, reboots)
    <2> DEFINE q == Reass
    <2>1. Sound(q, c, next, air, out, dups, reboots) /\ q \in Reassembly /\ Kept(q, r, c)
      BY <1>3 DEF SicsInv, AllSound
    <2>2. \A m \in Node : next[m] \in Nat /\ next[m] <= next[m]
      BY TypesGive DEF SicsInv
    <2> HIDE DEF q
    <2> QED BY <1>3, <2>1, <2>2, SoundKept
  <1>13. /\ Held(r.info[c]) /\ Begun(next, r.info[c].sender, r.info[c].opener)
         /\ HeadersKnown => Accounted(r, c)
         /\ TagsSuffice /\ reboots = 0 => OneSource(r, c)
         /\ HeadersKnown /\ TagsSuffice /\ dups = 0 /\ reboots = 0 => Growing(r, c, air, out)
    BY <1>4, <1>12 DEF Sound
  <1>14. ASSUME TagsSuffice, reboots = 0 PROVE f.d = r.info[c].opener
    <2>1. TagsUnique(n, air, out, frag_info)
      BY <1>14 DEF SicsInv, TagsGood
    <2>2. Live(n, air, out, frag_info, f.tag, r.info[c].opener)
      BY <1>4 DEF Live, LiveContext
    <2>3. r.info[c].opener \in Datagram
      BY <1>13 DEF Begun
    <2> QED BY <1>1, <1>2, <2>1, <2>2, <2>3 DEF TagsUnique
  <1>15. HeadersKnown => Accounted(z, c)
    <2>1. SUFFICES ASSUME HeadersKnown PROVE Accounted(z, c)
      OBVIOUS
    <2>2. r \in Reassembly /\ z \in Reassembly /\ f \in Frames /\ z.info[c] = Counted(r.info[c], f)
      BY <1>1, <1>3, <1>5, <1>8
    <2>3. Accounted(r, c)
      BY <1>13, <2>1
    <2> QED BY <1>6, <2>2, <2>3, AddAccounted
  <1>16. TagsSuffice /\ reboots = 0 => OneSource(z, c)
    <2>1. SUFFICES ASSUME TagsSuffice, reboots = 0 PROVE OneSource(z, c)
      OBVIOUS
    <2>2. r \in Reassembly /\ f \in Frames /\ z.info[c] = Counted(r.info[c], f)
      BY <1>1, <1>3, <1>5
    <2>3. OneSource(r, c) /\ f.d = r.info[c].opener
      BY <1>13, <1>14, <2>1
    <2> QED BY <1>6, <2>2, <2>3, AddSource
  <1>17. ASSUME HeadersKnown, TagsSuffice, dups = 0, reboots = 0
         PROVE  Collected(z, c, f.offset + f.len) /\ Growing(z, c, air', out')
    <2>1. PICK h \in Nat : Collected(r, c, h) /\ Ahead(air, out, r.info[c].opener, h)
      BY <1>13, <1>17 DEF Growing
    <2>2. h <= f.offset /\ f.d = r.info[c].opener
      BY <1>1, <1>14, <1>17, <2>1 DEF Ahead
    <2>3. Collected(z, c, f.offset + f.len)
      <3>1. /\ r \in Reassembly /\ z \in Reassembly /\ f \in Frames /\ GoodFrame(f)
            /\ z.info[c] = Counted(r.info[c], f)
        BY <1>1, <1>3, <1>5, <1>8
      <3>2. Collected(r, c, h)
        BY <2>1
      <3> QED BY <1>6, <2>2, <3>1, <3>2, AddContent
    <2>4. Ahead(air', out', f.d, f.offset + f.len)
      BY <1>17, HeadAhead
    <2>5. f.offset + f.len \in Nat /\ z.info[c].opener = f.d
      BY <1>2, <1>7, <2>2
    <2> QED BY <2>3, <2>4, <2>5 DEF Growing
  <1>18. Sound(z, c, next', air', out', dups', reboots')
    <2>1. Held(z.info[c]) /\ Begun(next', z.info[c].sender, z.info[c].opener)
      BY <1>7, <1>11, <1>13 DEF Held
    <2> QED BY <1>11, <1>15, <1>16, <1>17, <2>1 DEF Sound
  <1>19. \A x \in Context : Sound(z, x, next', air', out', dups', reboots')
    <2>1. TAKE x \in Context
    <2>2. CASE x = c
      BY <1>18, <2>2
    <2>3. CASE x # c
      BY <1>8, <1>9, <2>3, SoundConsumed
    <2> QED BY <2>2, <2>3
  <1>20. ASSUME HeadersKnown, TagsSuffice, dups = 0, reboots = 0, Complete(z, c, f)
         PROVE  CopyFrags(z, c, f.size) = Packet(f.d) /\ f.d \in Datagram
    <2>1. Collected(z, c, f.offset + f.len) /\ f.offset + f.len \in Nat /\ z.info[c].opener = f.d
      BY <1>2, <1>7, <1>14, <1>17, <1>20
    <2>2. z.info[c].reassembled_len >= Length(f.d)
      BY <1>2, <1>20 DEF Complete
    <2>3. CopyFrags(z, c, Length(f.d)) = Packet(f.d)
      BY <1>2, <1>8, <2>1, <2>2, FullPacket
    <2> QED BY <1>2, <2>3
  <1> QED BY <1>5, <1>10, <1>19, <1>20

\* Filling in the length of a context and freeing it closes it and keeps the others.
LEMMA FinishIs ==
  ASSUME NEW r, Valid(r), NEW c \in Context, NEW f \in Frames
  PROVE  LET z == ClearFragments(Fill(r, c, f), {c})
         IN  /\ Valid(z) /\ z.info[c].len = 0
             /\ \A x \in Context \ {c} : Kept(r, z, x)
  <1> DEFINE i == Filled(r.info[c], f)
             y == Fill(r, c, f)
  <1>1. r \in Reassembly /\ NoOrphan(r) /\ r.info[c] \in Info
        /\ r.info \in [Context -> Info] /\ r.buf \in [Buffer -> Buf]
    BY ReassemblyIs DEF Valid, Reassembly
  <1>2. y = [info |-> [r.info EXCEPT ![c] = i], buf |-> r.buf]
    BY <1>1 DEF Fill
  <1>3. i \in Info /\ i.len = r.info[c].len
    BY <1>1, FilledIs
  <1> HIDE DEF i, y
  <1>4. /\ y \in Reassembly /\ y.buf = r.buf /\ y.info[c] = i
        /\ \A x \in Context \ {c} : y.info[x] = r.info[x]
    BY <1>1, <1>2, <1>3 DEF Reassembly
  <1>5. \A x \in Context : y.info[x].len = r.info[x].len
    BY <1>3, <1>4
  <1>6. Valid(y)
    BY <1>1, <1>4, <1>5 DEF Valid, NoOrphan
  <1>7. \A x \in Context \ {c} : Kept(r, y, x)
    BY <1>4 DEF Kept, Alike, Stored
  <1> DEFINE z == ClearFragments(y, {c})
             cs == {c}
  <1>8. cs \in SUBSET Context /\ z = ClearFragments(y, cs)
    OBVIOUS
  <1> HIDE DEF cs, z
  <1>9. /\ Valid(z) /\ \A x \in cs : z.info[x].len = 0
        /\ \A x \in Context \ cs : Kept(y, z, x)
    BY <1>6, <1>8, ClearIs
  <1>10. \A x \in Context \ {c} : Kept(r, z, x)
    BY <1>7, <1>9, KeptTwice DEF cs
  <1>11. Valid(z) /\ z.info[c].len = 0
    BY <1>9 DEF cs
  <1> QED BY <1>10, <1>11 DEF z, y

\* A following fragment arrives.
LEMMA InputNextKeeps ==
  ASSUME SicsInv, NEW n \in Node, InputNext(n)
  PROVE  SicsInv'
  <1> DEFINE f == Head(air[n])
             c == Min(Matching(n, f))
             q == Reass
             r == IF FreeBuffers(q) # {} THEN q ELSE TimeoutFragments(q, c)
             z == CountLen(StoreFragment(r, c, f), c, f)
  <1>1. air[n] # <<>> /\ f.kind = "FRAGN" /\ Consume(n)
    BY DEF InputNext, Arrives
  <1>2. Valid(q) /\ q.info = frag_info /\ q.buf = frag_buf /\ f \in Frames
    BY <1>1, ReassValid, HeadIs
  <1>3. /\ next' = next /\ dups' = dups /\ reboots' = reboots
    BY <1>1, ConsumeIs
  <1>4. delivered' = delivered => (HeadersKnown /\ TagsSuffice /\ dups' = 0 /\ reboots' = 0 => Intact')
    BY <1>3 DEF SicsInv, Intact
  <1>5. CASE Matching(n, f) = {}
    <2>1. frag_info' = q.info /\ frag_buf' = q.buf /\ delivered' = delivered
      BY <1>2, <1>5 DEF InputNext, receiver
    <2>2. \A x \in Context : Kept(q, q, x)
      BY DEF Kept, Alike
    <2> QED BY <1>1, <1>2, <1>4, <2>1, <2>2, KeptArrival
  <1>6. CASE Matching(n, f) # {}
    <2>1. /\ c \in Context /\ frag_info[c].len > 0 /\ frag_info[c].tag = f.tag
          /\ frag_info[c].sender = n
      <3> HIDE DEF f
      <3> QED BY <1>6, MatchIs
    <2>2. /\ Valid(r) /\ Kept(q, r, c)
          /\ \A x \in Context : r.info[x].len = 0 \/ Kept(q, r, x)
      <3> HIDE DEF q, c
      <3> QED BY <1>2, <2>1, RoomIs
    <2> DEFINE a == AddNext(c, f)
               done == f.offset + f.len <= UipBufSize /\ Complete(a.r, c, f)
    <2>3. /\ FreeBuffers(r) = {} => a.ok = FALSE /\ a.r = r
          /\ FreeBuffers(r) # {} => a.ok = TRUE /\ a.r = z
      BY DEF AddNext
    <2>4. IF a.ok /\ done
            THEN /\ delivered' = delivered \cup {CopyFrags(a.r, c, f.size)}
                 /\ SetReass(ClearFragments(Fill(a.r, c, f), {c}))
            ELSE delivered' = delivered /\ SetReass(a.r)
      BY <1>6 DEF InputNext
    <2>5. CASE FreeBuffers(r) = {}
      <3>1. frag_info' = r.info /\ frag_buf' = r.buf /\ delivered' = delivered
        <4> HIDE DEF a, r, done
        <4> QED BY <2>3, <2>4, <2>5 DEF SetReass
      <3> HIDE DEF r
      <3> QED BY <1>1, <1>4, <2>2, <3>1, KeptArrival
    <2>6. CASE FreeBuffers(r) # {}
      <3>1. /\ Valid(z)
            /\ \A x \in Context : Sound(z, x, next', air', out', dups', reboots')
            /\ \A m, t, d : LiveContext(m, z.info, t, d) => LiveContext(m, frag_info, t, d)
            /\ HeadersKnown /\ TagsSuffice /\ dups = 0 /\ reboots = 0 /\ Complete(z, c, f) =>
                 CopyFrags(z, c, f.size) = Packet(f.d) /\ f.d \in Datagram
        <4> HIDE DEF c, r
        <4> QED BY <1>1, <2>1, <2>2, <2>6, StoreSound
      <3> DEFINE y == ClearFragments(Fill(z, c, f), {c})
      <3>2. \/ /\ delivered' = delivered /\ frag_info' = z.info /\ frag_buf' = z.buf
            \/ /\ Complete(z, c, f) /\ delivered' = delivered \cup {CopyFrags(z, c, f.size)}
               /\ frag_info' = y.info /\ frag_buf' = y.buf
        <4>1. a.r = z /\ a.ok = TRUE
          BY <2>3, <2>6
        <4> HIDE DEF a, z, f, c, r
        <4> QED BY <2>4, <4>1 DEF SetReass
      <3> HIDE DEF r, z, f, c, q
      <3>3. HeadersKnown /\ TagsSuffice /\ dups' = 0 /\ reboots' = 0 => Intact'
        <4>1. ASSUME HeadersKnown, TagsSuffice, dups' = 0, reboots' = 0, Complete(z, c, f),
                     delivered' = delivered \cup {CopyFrags(z, c, f.size)}
              PROVE  Intact'
          <5>1. CopyFrags(z, c, f.size) = Packet(f.d) /\ f.d \in Datagram
            BY <1>3, <3>1, <4>1
          <5>2. Intact
            BY <1>3, <4>1 DEF SicsInv
          <5> QED BY <4>1, <5>1, <5>2 DEF Intact
        <4> QED BY <1>4, <3>2, <4>1
      <3>4. /\ Valid(y) /\ y.info[c].len = 0
            /\ \A x \in Context \ {c} : Kept(z, y, x)
        BY <1>2, <2>1, <3>1, FinishIs
      <3> HIDE DEF y
      <3>5. PICK w \in {z, y} : frag_info' = w.info /\ frag_buf' = w.buf
        BY <3>2
      <3>6. Valid(w) /\ \A x \in Context : w.info[x].len = 0 \/ Kept(z, w, x)
        <4>1. \A x : Kept(z, z, x)
          BY DEF Kept, Alike
        <4> QED BY <3>1, <3>4, <3>5, <4>1
      <3>7. w \in Reassembly /\ NoOrphan(w) /\ z \in Reassembly
        BY <3>1, <3>6 DEF Valid
      <3>8. Reass' = w /\ frag_info' \in [Context -> Info] /\ frag_buf' \in [Buffer -> Buf]
        BY <3>5, <3>7, ReassIs
      <3>9. /\ Types' /\ AirLess /\ OutLess /\ NextMore /\ my_tag' = my_tag
        BY <1>1, <3>8, ConsumeIs
      <3>10. ASSUME NEW x \in Context PROVE Sound(w, x, next', air', out', dups', reboots')
        <4>1. Sound(z, x, next', air', out', dups', reboots')
          BY <3>1
        <4>2. \A m \in Node : next'[m] \in Nat /\ next'[m] <= next'[m]
          BY <3>9 DEF Types
        <4> QED BY <3>6, <3>7, <4>1, <4>2, SoundKept
      <3>11. AllSound'
        BY <3>8, <3>10 DEF AllSound
      <3>12. \A m \in Node : \A t \in Tags : \A d \in Datagram :
               LiveContext(m, frag_info', t, d) => Live(m, air, out, frag_info, t, d)
        <4>1. \A m, t, d : LiveContext(m, w.info, t, d) => LiveContext(m, z.info, t, d)
          BY <3>6, <3>7, KeptLive
        <4> QED BY <3>1, <3>5, <4>1 DEF Live
      <3>13. NoOrphan(Reass)'
        <4>1. NoOrphan(Reass)' <=> NoOrphan(Reass')
          BY DEF NoOrphan
        <4> QED BY <3>7, <3>8, <4>1
      <3> QED BY <1>3, <3>3, <3>9, <3>11, <3>12, <3>13, SilentStep
    <2> QED BY <2>5, <2>6
  <1> QED BY <1>5, <1>6

-----------------------------------------------------------------------------
(* The theorems.                                                           *)

\* Nothing is sent, stored or delivered at the start.
LEMMA InitInv ==
  ASSUME Init
  PROVE  SicsInv
  <1> DEFINE i == [len |-> 0, tag |-> 0, sender |-> NONE, reassembled_len |-> 0, expired |-> FALSE,
                   first_frag_len |-> 0, first_frag |-> NONE, opener |-> NONE]
             v == [len |-> 0, index |-> 0, offset |-> 0, pos |-> 0, d |-> NONE]
  <1>1. /\ next = [n \in Node |-> 1] /\ out = [n \in Node |-> NONE]
        /\ my_tag = [n \in Node |-> 0] /\ air = [n \in Node |-> <<>>]
        /\ frag_info = [c \in Context |-> i] /\ frag_buf = [b \in Buffer |-> v]
        /\ delivered = {} /\ lost = 0 /\ dups = 0 /\ reboots = 0
    BY DEF Init
  <1>2. i \in Info /\ v \in Buf /\ i.len = 0 /\ v.len = 0
    BY Parameters DEF Info, Buf, OptDatagram
  <1> HIDE DEF i, v
  <1>3. /\ \A n \in Node : next[n] = 1 /\ out[n] = NONE /\ my_tag[n] = 0 /\ air[n] = <<>>
        /\ \A c \in Context : frag_info[c] = i
        /\ \A b \in Buffer : frag_buf[b] = v
    BY <1>1
  <1>4. \A n \in Node : Len(air[n]) = 0 /\ Len(Size[n]) \in Nat
    BY <1>3, Parameters
  <1>5. Types
    <2>1. next \in [Node -> Nat] /\ out \in [Node -> Out \cup {NONE}]
      BY <1>1
    <2>2. my_tag \in [Node -> Tags] /\ frag_info \in [Context -> Info] /\ frag_buf \in [Buffer -> Buf]
      BY <1>1, <1>2, Parameters
    <2>3. air \in [Node -> Seq(Frames)]
      <3>1. <<>> \in Seq(Frames)
        OBVIOUS
      <3> QED BY <1>1, <3>1
    <2>4. \A n \in Node : next[n] \in 1 .. Len(Size[n]) + 1
      BY <1>3, <1>4
    <2> QED BY <1>1, <2>1, <2>2, <2>3, <2>4 DEF Types
  <1>6. FramesGood /\ OutGood /\ NoOrphan(Reass) /\ AllSound
    BY <1>2, <1>3, <1>4 DEF FramesGood, OutGood, NoOrphan, Reass, AllSound, Sound
  <1>7. \A n \in Node : InOrder(air[n], out[n])
    BY <1>3, <1>4 DEF InOrder
  <1>8. TagsGood
    <2>1. \A n \in Node : \A t, d : ~Live(n, air, out, frag_info, t, d)
      BY <1>2, <1>3, <1>4 DEF Live, LiveFrame, LiveOut, LiveContext
    <2>2. \A n \in Node : my_tag[n] < next[n]
      BY <1>3
    <2> QED BY <2>1, <2>2 DEF TagsGood, TagsUnique, TagsFresh
  <1> QED BY <1>1, <1>5, <1>6, <1>7, <1>8 DEF SicsInv, Intact

\* A step that changes nothing.
LEMMA StutterKeeps ==
  ASSUME SicsInv, UNCHANGED vars
  PROVE  SicsInv'
  <1>1. /\ next' = next /\ out' = out /\ my_tag' = my_tag /\ air' = air /\ delivered' = delivered
        /\ frag_info' = frag_info /\ frag_buf' = frag_buf
        /\ lost' = lost /\ dups' = dups /\ reboots' = reboots
    BY DEF vars, sender, receiver, env
  <1>2. Types /\ TypesAre
    BY TypesGive DEF SicsInv
  <1>3. Types' /\ AirLess /\ OutLess /\ NextMore
    BY <1>1, <1>2, SameLess DEF OutLess, NextMore, TypesAre, Types
  <1>4. NoOrphan(Reass)' /\ \A c \in Context : Kept(Reass, Reass', c)
    BY <1>1, ReceiverKept DEF SicsInv
  <1>5. HeadersKnown /\ TagsSuffice /\ dups' = 0 /\ reboots' = 0 => Intact'
    BY <1>1 DEF SicsInv, Intact
  <1> QED BY <1>1, <1>3, <1>4, <1>5, KeptStep

\* The inductive invariant holds whatever is sent, lost, repeated or expires.
THEOREM SicsInvariant == Spec => []SicsInv
  <1>1. ASSUME SicsInv, [Next]_vars PROVE SicsInv'
    <2>1. CASE \E n \in Node, s \in TxStatus : OutputPlain(n, s)
      BY <1>1, <2>1, PlainKeeps
    <2>2. CASE \E n \in Node, s \in TxStatus : OutputFirst(n, s)
      BY <1>1, <2>2, FirstKeeps
    <2>3. CASE \E n \in Node, s \in TxStatus : OutputNext(n, s)
      BY <1>1, <2>3, NextKeeps
    <2>4. CASE \E n \in Node : InputPlain(n)
      BY <1>1, <2>4, InputPlainKeeps
    <2>5. CASE \E n \in Node : InputFirst(n)
      BY <1>1, <2>5, InputFirstKeeps
    <2>6. CASE \E n \in Node : InputNext(n)
      BY <1>1, <2>6, InputNextKeeps
    <2>7. CASE Done \/ UNCHANGED vars
      BY <1>1, <2>7, StutterKeeps DEF Done
    <2>8. CASE \E n \in Node : OutputNoBuffers(n)
      BY <1>1, <2>8, NoBuffersKeeps
    <2>9. CASE \E n \in Node : Reboot(n)
      BY <1>1, <2>9, RebootKeeps
    <2>10. CASE \E n \in Node : Lose(n)
      BY <1>1, <2>10, LoseKeeps
    <2>11. CASE \E n \in Node : Repeat(n)
      BY <1>1, <2>11, RepeatKeeps
    <2>12. CASE \E c \in Context : Expire(c)
      BY <1>1, <2>12, ExpireKeeps
    <2> QED BY <1>1, <2>1, <2>2, <2>3, <2>4, <2>5, <2>6, <2>7, <2>8, <2>9, <2>10, <2>11, <2>12
            DEF Next, Normal, Trouble
  <1> QED BY <1>1, InitInv, PTL DEF Spec

\* The state has the shape of the C data: tags, lengths and indices stay in
\* their ranges, and an open context has the length of a datagram.
THEOREM SicsTypes == Spec => []TypeOK
  <1>1. ASSUME SicsInv PROVE TypeOK
    <2>1. Types
      BY <1>1 DEF SicsInv
    <2>2. /\ \A n \in Node : next[n] \in 1 .. Len(Size[n]) + 1
          /\ my_tag \in [Node -> 0 .. TagMod - 1]
      BY <2>1 DEF Types, Tags
    <2>3. ASSUME NEW c \in Context PROVE frag_info[c].len \in {0} \cup {Length(d) : d \in Datagram}
      <3>1. Sound(Reass, c, next, air, out, dups, reboots) /\ Reass.info = frag_info
            /\ frag_info[c].len \in Nat
        BY <1>1, <2>1, ReassValid DEF SicsInv, AllSound, Types, Info
      <3>2. CASE frag_info[c].len > 0
        BY <3>1, <3>2 DEF Sound, Held
      <3>3. CASE frag_info[c].len = 0
        BY <3>3
      <3> QED BY <3>1, <3>2, <3>3
    <2>4. \A b \in Buffer : frag_buf[b].len \in 0 .. FragNext /\ frag_buf[b].index \in 0 .. Contexts
      BY <2>1 DEF Types, Buf
    <2> QED BY <2>2, <2>3, <2>4 DEF TypeOK
  <1> QED BY <1>1, SicsInvariant, PTL

\* A fragment buffer in use belongs to a context in use, for any number of
\* senders, contexts and buffers, and whatever the radio does (clear_fragments,
\* timeout_fragments, store_fragment).
THEOREM BuffersNotLeaked == Spec => []NoOrphanBuffer
  <1>1. SicsInv => NoOrphanBuffer
    BY DEF SicsInv, NoOrphan, NoOrphanBuffer, Reass
  <1> QED BY <1>1, SicsInvariant, PTL

\* The sum that LenAccounted takes is that of the invariant.
LEMMA UsedSum ==
  ASSUME Types, NEW c \in Context
  PROVE  MapThenSumSet(LAMBDA b : frag_buf[b].len, Used(c)) = SumOver(Lengths(Reass), Stored(Reass, c))
  <1> DEFINE S == Stored(Reass, c)
             w == Lengths(Reass)
             IsSum(f) == f = [s \in SUBSET S |->
                               IF s = {} THEN 0 ELSE frag_buf[Choice(s)].len + f[s \ {Choice(s)}]]
             h == CHOOSE f : IsSum(f)
  <1>1. Used(c) = S /\ IsFiniteSet(S) /\ \A b \in S : w[b] = frag_buf[b].len
    <2>1. Reass \in Reassembly /\ Reass.buf = frag_buf
      BY TypesGive
    <2>2. Used(c) = S
      BY <2>1 DEF Used, Stored
    <2>3. IsFiniteSet(S) /\ \A b \in S : w[b] = Reass.buf[b].len
      <3> DEFINE q == Reass
      <3>1. q \in Reassembly
        BY <2>1
      <3> HIDE DEF q
      <3>2. IsFiniteSet(Stored(q, c)) /\ \A b \in Stored(q, c) : Lengths(q)[b] = q.buf[b].len
        BY <3>1, StoredFinite
      <3> QED BY <3>2 DEF q
    <2> QED BY <2>1, <2>2, <2>3
  <1>2. MapThenSumSet(LAMBDA b : frag_buf[b].len, S) = h[S]
    BY DEF MapThenSumSet, MapThenFoldSet, Choice
  <1> HIDE DEF S, w
  <1>3. \A s \in SUBSET S : s # {} => Choice(s) \in S
    BY DEF Choice
  <1>4. ASSUME NEW f PROVE IsSum(f) <=> SumEq(f, w, SUBSET S)
    <2> DEFINE a == [s \in SUBSET S |->
                      IF s = {} THEN 0 ELSE frag_buf[Choice(s)].len + f[s \ {Choice(s)}]]
               e == [s \in SUBSET S |->
                      IF s = {} THEN 0 ELSE w[Choice(s)] + f[s \ {Choice(s)}]]
    <2>1. ASSUME NEW s \in SUBSET S PROVE a[s] = e[s]
      <3>1. CASE s = {}
        BY <3>1
      <3>2. CASE s # {}
        <4>1. w[Choice(s)] = frag_buf[Choice(s)].len
          BY <1>1, <1>3, <3>2
        <4>2. a[s] = frag_buf[Choice(s)].len + f[s \ {Choice(s)}]
          BY <3>2
        <4>3. e[s] = w[Choice(s)] + f[s \ {Choice(s)}]
          BY <3>2
        <4> HIDE DEF a, e
        <4> QED BY <4>1, <4>2, <4>3
      <3> QED BY <3>1, <3>2
    <2>2. a = [s \in SUBSET S |-> a[s]] /\ e = [s \in SUBSET S |-> e[s]]
      OBVIOUS
    <2>3. (IsSum(f) <=> f = a) /\ (SumEq(f, w, SUBSET S) <=> f = e)
      BY DEF SumEq
    <2> HIDE DEF a, e, IsSum
    <2>4. a = e
      BY <2>1, <2>2
    <2> QED BY <2>3, <2>4
  <1>5. PICK g : SumEq(g, w, SUBSET S)
    BY <1>1, SumExists
  <1> HIDE DEF IsSum
  <1>6. SumEq(h, w, SUBSET S)
    <2>1. IsSum(g)
      BY <1>4, <1>5
    <2>2. IsSum(h)
      BY <2>1
    <2> HIDE DEF h
    <2> QED BY <1>4, <2>2
  <1> HIDE DEF h
  <1>7. PICK k : SumEq(k, w, SUBSET S) /\ SumOver(w, S) = k[S]
    BY <1>1, SumIs
  <1>8. h[S] = k[S]
    <2> DEFINE C == SUBSET S
    <2>1. /\ Closed(C) /\ SumEq(h, w, C) /\ SumEq(k, w, C) /\ S \in C
          /\ \A s \in C \cap C : s # {} => w[Choice(s)] = w[Choice(s)]
      BY <1>1, <1>6, <1>7, SubsetsClosed
    <2> HIDE DEF C
    <2>2. \A s \in C \cap C : h[s] = k[s]
      BY <2>1, SumUnique
    <2> QED BY <2>1, <2>2
  <1> QED BY <1>1, <1>2, <1>7, <1>8 DEF S, w

\* The length that decides when a packet is complete is the length of what is
\* stored, if the headers of all fragmented datagrams can be uncompressed
\* (add_fragment, input).
THEOREM LengthsAreAccounted ==
  ASSUME HeadersKnown
  PROVE  Spec => []LenAccounted
  <1>1. ASSUME SicsInv PROVE LenAccounted
    <2>1. SUFFICES ASSUME NEW c \in Context, frag_info[c].len > 0
                   PROVE  frag_info[c].reassembled_len = frag_info[c].first_frag_len
                            + MapThenSumSet(LAMBDA b : frag_buf[b].len, Used(c))
      BY DEF LenAccounted
    <2>2. Sound(Reass, c, next, air, out, dups, reboots) /\ Reass.info = frag_info /\ Types
      BY <1>1, ReassValid DEF SicsInv, AllSound
    <2>3. Accounted(Reass, c)
      BY <2>1, <2>2, HeadersKnown DEF Sound
    <2>4. MapThenSumSet(LAMBDA b : frag_buf[b].len, Used(c)) = SumOver(Lengths(Reass), Stored(Reass, c))
      BY <2>2, UsedSum
    <2> QED BY <2>2, <2>3, <2>4 DEF Accounted
  <1> QED BY <1>1, SicsInvariant, PTL

\* Fragments of different datagrams are never collected in one context, as long
\* as no sender reboots or comes round to a tag it has used (add_fragment).
THEOREM DatagramsNotMixed ==
  ASSUME TagsSuffice
  PROVE  Spec => []OneDatagramPerContext
  <1>1. ASSUME SicsInv PROVE OneDatagramPerContext
    <2>1. SUFFICES ASSUME reboots = 0, NEW c \in Context, frag_info[c].len > 0, NEW b \in Used(c)
                   PROVE  frag_buf[b].d = frag_info[c].opener
      BY DEF OneDatagramPerContext
    <2>2. Sound(Reass, c, next, air, out, dups, reboots)
          /\ Reass.info = frag_info /\ Reass.buf = frag_buf
      BY <1>1, ReassValid DEF SicsInv, AllSound
    <2>3. OneSource(Reass, c)
      BY <2>1, <2>2, TagsSuffice DEF Sound
    <2>4. b \in Stored(Reass, c)
      BY <2>1, <2>2 DEF Used, Stored
    <2> QED BY <2>2, <2>3, <2>4 DEF OneSource
  <1> QED BY <1>1, SicsInvariant, PTL

\* Every packet given to the IP layer is a datagram that was sent, whole and in
\* order, whatever is lost, interleaved, given up or expires, until a frame is
\* repeated or a sender reboots (add_fragment, copy_frags2uip, input).
THEOREM PacketsIntact ==
  ASSUME HeadersKnown, TagsSuffice
  PROVE  Spec => []DeliveredIntact
  <1>1. SicsInv => DeliveredIntact
    BY HeadersKnown, TagsSuffice DEF SicsInv, Intact, DeliveredIntact
  <1> QED BY <1>1, SicsInvariant, PTL
=============================================================================
