--------------------------- MODULE FramingProofs ---------------------------
(***************************************************************************)
(* Proofs about Framing, for any number of senders, any lengths of bodies  *)
(* and any frame size: the client is never confused, a heartbeat that      *)
(* failed never leads to a second reader of the connection, and Framing    *)
(* implements MessageStream.                                               *)
(*                                                                         *)
(* The frames under way, wire and then buf, lead the client from where it  *)
(* is to where the sender that holds p.mu is: PathInv.  A sender appends   *)
(* a frame at the one end, the client takes one at the other.              *)
(***************************************************************************)
EXTENDS Framing, SequenceTheorems, TLAPS

\* A place in the stream: the content being put together, and how many messages are
\* complete.
Place(c, n) == [c |-> c, n |-> n]
Contents == [on : BOOLEAN, msg : Message \cup {NoMessage}, remaining : Int]
Places == [c : Contents, n : Nat]

\* A message has begun; after its header, rest octets of it are to come.
Begun(m, rest) == [on |-> TRUE, msg |-> m, remaining |-> rest]

\* Frame f takes a client that expects the messages of a from place s to place t, and
\* is what the client may meet there.
Leads(a, s, f, t) ==
  \/ f.kind = "heartbeat" /\ s.c = NoContent /\ t = s
  \/ /\ s.n < Len(a) /\ f.msg = a[s.n + 1]
     /\ \/ /\ f.kind = "method" /\ s.c = NoContent
           /\ t = IF f.msg.body = NoBody THEN Place(NoContent, s.n + 1)
                                         ELSE Place(Begun(f.msg, -1), s.n)
        \/ /\ f.kind = "header" /\ s.c = Begun(f.msg, -1) /\ f.n >= 0
           /\ t = IF f.n = 0 THEN Place(NoContent, s.n + 1) ELSE Place(Begun(f.msg, f.n), s.n)
        \/ /\ f.kind = "body"
           /\ \E r \in Nat : /\ s.c = Begun(f.msg, r) /\ r >= f.n
                             /\ t = IF f.n = r THEN Place(NoContent, s.n + 1)
                                               ELSE Place(Begun(f.msg, r - f.n), s.n)

\* The frames of q lead from place s to place t.
Path(a, q, s, t) ==
  \E st \in [0..Len(q) -> Places] :
    /\ st[0] = s /\ st[Len(q)] = t
    /\ \A i \in 1..Len(q) : Leads(a, st[i - 1], q[i], st[i])

FrameOf == [kind : {"heartbeat", "method", "header", "body"},
            msg : Message \cup {NoMessage}, n : Int]

\* Nothing to read: the client stays where it is.
LEMMA PathEmpty ==
  ASSUME NEW a, NEW s \in Places
  PROVE  Path(a, <<>>, s, s)
<1> DEFINE st == [i \in 0..0 |-> s]
<1>1. st \in [0..Len(<<>>) -> Places] /\ st[0] = s /\ Len(<<>>) = 0
  OBVIOUS
<1> HIDE DEF st
<1>2. QED
  BY <1>1 DEF Path

\* One more frame leads one place further.
LEMMA PathAppend ==
  ASSUME NEW a, NEW q \in Seq(FrameOf), NEW s, NEW t, NEW u \in Places, NEW f \in FrameOf,
         Path(a, q, s, t), Leads(a, t, f, u)
  PROVE  Path(a, Append(q, f), s, u)
<1>1. PICK st \in [0..Len(q) -> Places] :
        /\ st[0] = s /\ st[Len(q)] = t
        /\ \A i \in 1..Len(q) : Leads(a, st[i - 1], q[i], st[i])
  BY DEF Path
<1> DEFINE L == Len(q)
           su == [i \in 0..L + 1 |-> IF i <= L THEN st[i] ELSE u]
<1>2. L \in Nat /\ Len(Append(q, f)) = L + 1
  OBVIOUS
<1>3. su \in [0..Len(Append(q, f)) -> Places]
  BY <1>2
<1>4. su[0] = s /\ su[L + 1] = u
  BY <1>1, <1>2
<1>5. ASSUME NEW i \in 1..L + 1
      PROVE  Leads(a, su[i - 1], Append(q, f)[i], su[i])
  <2>1. CASE i <= L
    <3>1. i \in 1..L /\ Append(q, f)[i] = q[i]
      BY <1>2, <2>1
    <3>2. su[i - 1] = st[i - 1] /\ su[i] = st[i]
      BY <1>2, <2>1
    <3>3. QED
      BY <1>1, <3>1, <3>2
  <2>2. CASE i = L + 1
    <3>1. su[i - 1] = t /\ su[i] = u /\ Append(q, f)[i] = f
      BY <1>1, <1>2, <2>2
    <3>2. QED
      BY <3>1
  <2>3. QED
    BY <1>2, <2>1, <2>2
<1> HIDE DEF su
<1>6. QED
  BY <1>2, <1>3, <1>4, <1>5 DEF Path

\* The client takes the first frame, and the others lead on from there.
LEMMA PathTail ==
  ASSUME NEW a, NEW q \in Seq(FrameOf), q # <<>>, NEW s, NEW t, Path(a, q, s, t)
  PROVE  \E u \in Places : Leads(a, s, Head(q), u) /\ Path(a, Tail(q), u, t)
<1>1. PICK st \in [0..Len(q) -> Places] :
        /\ st[0] = s /\ st[Len(q)] = t
        /\ \A i \in 1..Len(q) : Leads(a, st[i - 1], q[i], st[i])
  BY DEF Path
<1> DEFINE L == Len(Tail(q))
           su == [i \in 0..L |-> st[i + 1]]
<1>2. L \in Nat /\ Len(q) = L + 1 /\ Head(q) = q[1]
  OBVIOUS
<1>3. su \in [0..L -> Places] /\ su[0] = st[1] /\ su[L] = t
  BY <1>1, <1>2
<1>4. ASSUME NEW i \in 1..L
      PROVE  Leads(a, su[i - 1], Tail(q)[i], su[i])
  <2>1. i + 1 \in 1..Len(q) /\ Tail(q)[i] = q[i + 1]
    BY <1>2
  <2>2. su[i - 1] = st[(i + 1) - 1] /\ su[i] = st[i + 1]
    BY <1>2
  <2>3. QED
    BY <1>1, <2>1, <2>2
<1> HIDE DEF su
<1>5. Path(a, Tail(q), st[1], t)
  BY <1>3, <1>4 DEF Path
<1>6. Leads(a, s, Head(q), st[1]) /\ st[1] \in Places
  <2>1. 1 \in 1..Len(q) /\ 1 - 1 = 0 /\ 1 \in 0..Len(q)
    BY <1>2
  <2>2. Leads(a, st[1 - 1], q[1], st[1])
    BY <1>1, <2>1
  <2>3. QED
    BY <1>1, <1>2, <2>1, <2>2
<1>7. QED
  BY <1>5, <1>6

\* A message asked for in the meantime changes nothing for the frames under way.
LEMMA PathAsked ==
  ASSUME NEW a \in Seq(Message), NEW m \in Message, NEW q \in Seq(FrameOf), NEW s, NEW t,
         Path(a, q, s, t)
  PROVE  Path(Append(a, m), q, s, t)
<1>1. PICK st \in [0..Len(q) -> Places] :
        /\ st[0] = s /\ st[Len(q)] = t
        /\ \A i \in 1..Len(q) : Leads(a, st[i - 1], q[i], st[i])
  BY DEF Path
<1>2. ASSUME NEW i \in 1..Len(q)
      PROVE  Leads(Append(a, m), st[i - 1], q[i], st[i])
  <2>1. Leads(a, st[i - 1], q[i], st[i]) /\ st[i - 1] \in Places
    BY <1>1
  <2>2. \A n \in Nat : n < Len(a) => n < Len(Append(a, m)) /\ Append(a, m)[n + 1] = a[n + 1]
    OBVIOUS
  <2>3. st[i - 1].n \in Nat
    BY <2>1 DEF Places
  <2>4. QED
    BY <2>1, <2>2, <2>3, Zenon DEF Leads
<1>3. QED
  BY <1>1, <1>2 DEF Path

\* A frame that goes into the buffer, or through it, comes last on the way.
LEMMA LastOnTheWay ==
  ASSUME NEW w \in Seq(FrameOf), NEW b \in Seq(FrameOf), NEW f \in FrameOf
  PROVE  /\ w \o Append(b, f) = Append(w \o b, f)
         /\ Append(w \o b, f) \o <<>> = Append(w \o b, f)
<1>1. w \o b \in Seq(FrameOf)
  OBVIOUS
<1>2. w \o Append(b, f) = Append(w \o b, f)
  BY <1>1
<1>3. QED
  BY <1>1, <1>2, ConcatEmptySeq

\* The client reads the first frame on the way.
LEMMA FirstOnTheWay ==
  ASSUME NEW w \in Seq(FrameOf), NEW b \in Seq(FrameOf), w # <<>>
  PROVE  /\ w \o b # <<>> /\ Head(w \o b) = Head(w)
         /\ Tail(w) \o b = Tail(w \o b)
  OBVIOUS

-----------------------------------------------------------------------------
(* The invariant.                                                          *)

FramingTypes ==
  /\ job \in [Writer -> [msg : Message \cup {NoMessage}, offset : Nat,
                         next : {"none", "method", "header", "body"}]]
  /\ asked \in Seq(Message) /\ delivered \in Seq(Message)
  /\ buf \in Seq(FrameOf) /\ wire \in Seq(FrameOf)
  /\ content \in Contents

\* The sender that holds p.mu, and nobody else, has a message to send: the last one
\* that was asked for.
LockInv ==
  \A w \in Writer :
    /\ mu # w => job[w] = NoJob
    /\ mu = w =>
         /\ job[w].next # "none"
         /\ Len(asked) > 0 /\ job[w].msg = asked[Len(asked)]
         /\ job[w].next # "method" => job[w].msg.body # NoBody
         /\ job[w].next # "body" => job[w].offset = 0
         /\ job[w].next = "body" => job[w].offset < job[w].msg.body

MuInv == mu \in Writer \cup {"none"}

\* The place the frames have to lead to: the one where the holder of p.mu is.
SenderAt ==
  IF mu = "none" THEN Place(NoContent, Len(asked))
  ELSE Place(CASE job[mu].next = "method" -> NoContent
               [] job[mu].next = "header" -> Begun(job[mu].msg, -1)
               [] OTHER -> Begun(job[mu].msg, job[mu].msg.body - job[mu].offset),
             Len(asked) - 1)

\* The frames under way lead the client on, and, unless a write failed, to the place
\* where the sender is.
PathInv ==
  \E t : /\ Path(asked, wire \o buf, Place(content, Len(delivered)), t)
         /\ ~err => t = SenderAt

\* The heartbeat goroutine goes to shutdown only when the bufio.Writer has failed.
HeartbeatInv == hb = "shutdown" => err

IInv == FramingTypes /\ MuInv /\ LockInv /\ PathInv /\ HeartbeatInv /\ NeverConfused /\ OneReader

\* Nothing has been read or written at the start.
LEMMA FramingInit == Init => IInv
<1> SUFFICES ASSUME Init PROVE IInv
  OBVIOUS
<1>0. NoMessage \in Message \cup {NoMessage} /\ NoContent \in Contents
  BY DEF NoContent, Contents, NoBody
<1>1. FramingTypes
  BY <1>0 DEF Init, FramingTypes, NoJob
<1>2. MuInv /\ LockInv /\ HeartbeatInv /\ OneReader
  BY FramingAssumption DEF Init, MuInv, LockInv, HeartbeatInv, OneReader
<1>3. NeverConfused
  BY Zenon DEF Init, NeverConfused
<1>4. PathInv
  <2>1. Place(NoContent, 0) \in Places
    BY <1>0 DEF Place, Places
  <2>2. /\ wire \o buf = <<>>
        /\ Place(content, Len(delivered)) = Place(NoContent, 0)
        /\ SenderAt = Place(NoContent, 0)
    BY DEF Init, SenderAt
  <2>3. QED
    BY <2>1, <2>2, PathEmpty DEF PathInv
<1>5. QED
  BY <1>1, <1>2, <1>3, <1>4 DEF IInv

\* A write that succeeds appends the next frame of the sender; one that fails
\* appends none, and no other succeeds after it.
LEMMA WriteKeepsPath ==
  ASSUME FramingTypes, PathInv, NEW f \in FrameOf, NEW flush, Written(f, flush),
         UNCHANGED <<asked, content, delivered>>,
         ~WriteFails(flush) => SenderAt' \in Places /\ Leads(asked, SenderAt, f, SenderAt')
  PROVE  PathInv' /\ buf' \in Seq(FrameOf) /\ wire' \in Seq(FrameOf)
<1> USE DEF FramingTypes
<1>1. CASE WriteFails(flush)
  <2>1. err' = TRUE /\ UNCHANGED <<buf, wire>>
    BY <1>1, Zenon DEF Written
  <2>2. PathInv'
    BY <2>1 DEF PathInv
  <2>3. QED
    BY <2>1, <2>2
<1>2. CASE ~WriteFails(flush)
  <2>1. ~err /\ UNCHANGED err
    BY <1>2, Zenon DEF WriteFails, Written
  <2>2. /\ buf' = IF flush THEN <<>> ELSE Append(buf, f)
        /\ wire' = IF flush THEN Append(wire \o buf, f) ELSE wire
    BY <1>2, Zenon DEF Written
  <2>3. buf' \in Seq(FrameOf) /\ wire' \in Seq(FrameOf) /\ wire \o buf \in Seq(FrameOf)
    BY <2>2
  <2>4. wire' \o buf' = Append(wire \o buf, f)
    BY <2>2, LastOnTheWay
  <2>5. Path(asked, wire \o buf, Place(content, Len(delivered)), SenderAt)
    <3>1. PICK t : /\ Path(asked, wire \o buf, Place(content, Len(delivered)), t)
                   /\ ~err => t = SenderAt
      BY Zenon DEF PathInv
    <3>2. t = SenderAt
      BY <2>1, <3>1, Zenon
    <3>3. QED
      BY <3>1, <3>2
  <2>6. Path(asked, Append(wire \o buf, f), Place(content, Len(delivered)), SenderAt')
    BY <1>2, <2>3, <2>5, PathAppend
  <2>7. Path(asked', wire' \o buf', Place(content', Len(delivered')), SenderAt')
    BY <2>4, <2>6
  <2>8. PathInv'
    BY <2>7 DEF PathInv
  <2>9. QED
    BY <2>3, <2>8
<1>3. QED
  BY <1>1, <1>2

\* send begins: the frames that are under way lead to the end of the message before.
LEMMA BeginStep ==
  ASSUME IInv, NEW w \in Writer, NEW m \in Message, SendBegin(w, m)
  PROVE  IInv'
<1> USE DEF IInv, SendBegin, Lock, client
<1>1. FramingTypes'
  BY DEF FramingTypes
<1>2. MuInv' /\ HeartbeatInv' /\ NeverConfused' /\ OneReader'
  BY DEF MuInv, HeartbeatInv, NeverConfused, OneReader
<1>3. LockInv'
  BY FramingAssumption DEF LockInv, FramingTypes
<1>4. PathInv'
  <2>1. PICK t : /\ Path(asked, wire \o buf, Place(content, Len(delivered)), t)
                 /\ ~err => t = SenderAt
    BY Zenon DEF PathInv
  <2>2. wire \o buf \in Seq(FrameOf) /\ asked \in Seq(Message)
    BY DEF FramingTypes
  <2>3. Path(Append(asked, m), wire \o buf, Place(content, Len(delivered)), t)
    BY <2>1, <2>2, PathAsked
  <2>4. SenderAt' = SenderAt
    <3>1. SenderAt = Place(NoContent, Len(asked))
      BY DEF SenderAt
    <3>2. mu' = w /\ w # "none" /\ job'[w].next = "method" /\ Len(asked') - 1 = Len(asked)
      BY FramingAssumption DEF FramingTypes
    <3>3. QED
      BY <3>1, <3>2 DEF SenderAt
  <2>5. QED
    BY <2>1, <2>3, <2>4 DEF PathInv
<1>5. QED
  BY <1>1, <1>2, <1>3, <1>4

\* The record of no content is a record of contents.
LEMMA NoContentType == NoContent \in Contents
  BY DEF NoContent, Contents

\* What a step of send leaves alone: the client, and the heartbeat goroutine.
LEMMA SendKeepsRest ==
  ASSUME IInv, NEW w \in Writer, SendStep(w), PathInv', MuInv', LockInv',
         buf' \in Seq(FrameOf), wire' \in Seq(FrameOf),
         job' \in [Writer -> [msg : Message \cup {NoMessage}, offset : Nat,
                             next : {"none", "method", "header", "body"}]]
  PROVE  IInv'
<1>1. UNCHANGED <<asked, hb, content, delivered, confused>>
  BY DEF SendStep, SendMethod, SendHeader, SendBody, client
<1>2. err => err'
  BY Zenon DEF SendStep, SendMethod, SendHeader, SendBody, Written, WriteFails
<1>3. HeartbeatInv'
  BY <1>1, <1>2, Zenon DEF IInv, HeartbeatInv
<1>4. FramingTypes' /\ OneReader'
  BY <1>1 DEF IInv, FramingTypes, OneReader
<1>5. NeverConfused'
  BY <1>1, Zenon DEF IInv, NeverConfused
<1>6. QED
  BY <1>3, <1>4, <1>5 DEF IInv

\* Who has a message to send holds p.mu, and its message is the last one asked for.
LEMMA SenderHolds ==
  ASSUME IInv, NEW w \in Writer, job[w].next # "none"
  PROVE  /\ mu = w /\ w # "none"
         /\ Len(asked) \in Nat /\ Len(asked) > 0
         /\ job[w].msg \in Message /\ job[w].msg = asked[Len(asked)]
         /\ job[w].msg.body \in Nat \cup {NoBody}
<1> USE DEF IInv
<1>1. mu = w /\ w # "none"
  BY FramingAssumption DEF LockInv, NoJob
<1>2. Len(asked) \in Nat /\ Len(asked) > 0 /\ job[w].msg = asked[Len(asked)]
  BY <1>1 DEF LockInv, FramingTypes
<1>3. job[w].msg \in Message
  BY <1>2 DEF FramingTypes
<1>4. QED
  BY <1>1, <1>2, <1>3, FramingAssumption DEF Message

\* The deferred Unlock leaves nothing to send.
LEMMA EndKeepsLock ==
  ASSUME IInv, NEW w \in Writer, job[w].next # "none", SendEnd(w), UNCHANGED asked
  PROVE  MuInv' /\ LockInv' /\ SenderAt' = Place(NoContent, Len(asked))
         /\ job' \in [Writer -> [msg : Message \cup {NoMessage}, offset : Nat,
                                next : {"none", "method", "header", "body"}]]
<1>1. mu = w
  BY SenderHolds
<1>2. QED
  BY <1>1, FramingAssumption
     DEF SendEnd, IInv, FramingTypes, MuInv, LockInv, NoJob, NoMessage, SenderAt

\* The method frame begins a message, and ends it when there is no content.
LEMMA MethodStep ==
  ASSUME IInv, NEW w \in Writer, NEW spill \in BOOLEAN, SendMethod(w, spill)
  PROVE  IInv'
<1> DEFINE m == job[w].msg
           flush == spill \/ m.body = NoBody
           f == Frame("method", m, 0)
<1>0. SendStep(w)
  BY DEF SendStep
<1>1. job[w].next = "method" /\ Written(f, flush) /\ UNCHANGED <<asked, content, delivered>>
  BY DEF SendMethod, client
<1>2. IF WriteFails(flush) \/ m.body = NoBody
      THEN SendEnd(w)
      ELSE job' = [job EXCEPT ![w].next = "header"] /\ UNCHANGED mu
  BY Zenon DEF SendMethod
<1>3. /\ mu = w /\ w # "none" /\ Len(asked) \in Nat /\ Len(asked) > 0
      /\ m \in Message /\ m = asked[Len(asked)] /\ m.body \in Nat \cup {NoBody}
  BY <1>1, SenderHolds
<1>4. f \in FrameOf /\ f.kind = "method" /\ f.msg = m
  BY <1>3 DEF Frame, FrameOf
<1>5. SenderAt = Place(NoContent, Len(asked) - 1)
  BY <1>1, <1>3 DEF SenderAt
<1> HIDE DEF m, f, flush
<1>6. CASE WriteFails(flush) \/ m.body = NoBody
  <2>1. SendEnd(w)
    BY <1>2, <1>6
  <2>2. /\ MuInv' /\ LockInv' /\ SenderAt' = Place(NoContent, Len(asked))
        /\ job' \in [Writer -> [msg : Message \cup {NoMessage}, offset : Nat,
                               next : {"none", "method", "header", "body"}]]
    BY <1>1, <2>1, EndKeepsLock
  <2>3. ASSUME ~WriteFails(flush)
        PROVE  SenderAt' \in Places /\ Leads(asked, SenderAt, f, SenderAt')
    BY <1>3, <1>4, <1>5, <1>6, <2>2, <2>3, NoContentType DEF Leads, Place, Places
  <2>4. PathInv' /\ buf' \in Seq(FrameOf) /\ wire' \in Seq(FrameOf)
    BY <1>1, <1>4, <2>3, WriteKeepsPath DEF IInv
  <2>5. QED
    BY <1>0, <2>2, <2>4, SendKeepsRest
<1>7. CASE ~(WriteFails(flush) \/ m.body = NoBody)
  <2>1. job' = [job EXCEPT ![w].next = "header"] /\ mu' = mu
    BY <1>2, <1>7
  <2>2. /\ MuInv' /\ LockInv' /\ SenderAt' = Place(Begun(m, -1), Len(asked) - 1)
        /\ job' \in [Writer -> [msg : Message \cup {NoMessage}, offset : Nat,
                               next : {"none", "method", "header", "body"}]]
    BY <1>1, <1>3, <1>7, <2>1 DEF m, IInv, FramingTypes, MuInv, LockInv, SenderAt
  <2>3. SenderAt' \in Places /\ Leads(asked, SenderAt, f, SenderAt')
    BY <1>3, <1>4, <1>5, <1>7, <2>2 DEF Leads, Place, Places, Begun, Contents
  <2>4. PathInv' /\ buf' \in Seq(FrameOf) /\ wire' \in Seq(FrameOf)
    BY <1>1, <1>4, <2>3, WriteKeepsPath DEF IInv
  <2>5. QED
    BY <1>0, <2>2, <2>4, SendKeepsRest
<1>8. QED
  BY <1>6, <1>7
\* The header frame announces the body, and ends the message when that is empty.
LEMMA HeaderStep ==
  ASSUME IInv, NEW w \in Writer, NEW spill \in BOOLEAN, SendHeader(w, spill)
  PROVE  IInv'
<1> DEFINE m == job[w].msg
           f == Frame("header", m, m.body)
<1>0. SendStep(w)
  BY DEF SendStep
<1>1. job[w].next = "header" /\ Written(f, spill) /\ UNCHANGED <<asked, content, delivered>>
  BY DEF SendHeader, client
<1>2. IF WriteFails(spill) \/ m.body = 0
      THEN SendEnd(w)
      ELSE job' = [job EXCEPT ![w].next = "body"] /\ UNCHANGED mu
  BY Zenon DEF SendHeader
<1>3. /\ mu = w /\ w # "none" /\ Len(asked) \in Nat /\ Len(asked) > 0
      /\ m \in Message /\ m = asked[Len(asked)] /\ m.body \in Nat
  BY <1>1, SenderHolds DEF IInv, LockInv
<1>4. f \in FrameOf /\ f.kind = "header" /\ f.msg = m /\ f.n = m.body
  BY <1>3 DEF Frame, FrameOf
<1>5. SenderAt = Place(Begun(m, -1), Len(asked) - 1)
  BY <1>1, <1>3 DEF SenderAt
<1> HIDE DEF m, f
<1>6. CASE WriteFails(spill) \/ m.body = 0
  <2>1. SendEnd(w)
    BY <1>2, <1>6
  <2>2. /\ MuInv' /\ LockInv' /\ SenderAt' = Place(NoContent, Len(asked))
        /\ job' \in [Writer -> [msg : Message \cup {NoMessage}, offset : Nat,
                               next : {"none", "method", "header", "body"}]]
    BY <1>1, <2>1, EndKeepsLock
  <2>3. ASSUME ~WriteFails(spill)
        PROVE  SenderAt' \in Places /\ Leads(asked, SenderAt, f, SenderAt')
    BY <1>3, <1>4, <1>5, <1>6, <2>2, <2>3, NoContentType DEF Leads, Place, Places, Begun
  <2>4. PathInv' /\ buf' \in Seq(FrameOf) /\ wire' \in Seq(FrameOf)
    BY <1>1, <1>4, <2>3, WriteKeepsPath DEF IInv
  <2>5. QED
    BY <1>0, <2>2, <2>4, SendKeepsRest
<1>7. CASE ~(WriteFails(spill) \/ m.body = 0)
  <2>1. job' = [job EXCEPT ![w].next = "body"] /\ mu' = mu
    BY <1>2, <1>7
  <2>2. /\ MuInv' /\ LockInv' /\ SenderAt' = Place(Begun(m, m.body), Len(asked) - 1)
        /\ job' \in [Writer -> [msg : Message \cup {NoMessage}, offset : Nat,
                               next : {"none", "method", "header", "body"}]]
    BY <1>1, <1>3, <1>7, <2>1 DEF m, IInv, FramingTypes, MuInv, LockInv, SenderAt
  <2>3. SenderAt' \in Places /\ Leads(asked, SenderAt, f, SenderAt')
    BY <1>3, <1>4, <1>5, <1>7, <2>2 DEF Leads, Place, Places, Begun, Contents
  <2>4. PathInv' /\ buf' \in Seq(FrameOf) /\ wire' \in Seq(FrameOf)
    BY <1>1, <1>4, <2>3, WriteKeepsPath DEF IInv
  <2>5. QED
    BY <1>0, <2>2, <2>4, SendKeepsRest
<1>8. QED
  BY <1>6, <1>7

\* What a body frame of n octets does when rest octets are to come.
LEMMA BodyLeads ==
  ASSUME NEW a, NEW k \in Nat, k > 0, k = Len(a), NEW f \in FrameOf,
         f.kind = "body", f.msg = a[k], NEW rest \in Nat, f.n <= rest
  PROVE  Leads(a, Place(Begun(f.msg, rest), k - 1), f,
               IF f.n = rest THEN Place(NoContent, k) ELSE Place(Begun(f.msg, rest - f.n), k - 1))
<1> DEFINE s == Place(Begun(f.msg, rest), k - 1)
<1>1. s.n = k - 1 /\ s.c = Begun(f.msg, rest) /\ s.n + 1 = k
  BY DEF Place
<1> HIDE DEF s
<1>2. s.n < Len(a) /\ f.msg = a[s.n + 1]
  BY <1>1
<1>3. \E r \in Nat : /\ s.c = Begun(f.msg, r) /\ r >= f.n
                     /\ (IF f.n = rest THEN Place(NoContent, k) ELSE Place(Begun(f.msg, rest - f.n), k - 1))
                          = IF f.n = r THEN Place(NoContent, s.n + 1)
                                       ELSE Place(Begun(f.msg, r - f.n), s.n)
  <2> WITNESS rest \in Nat
  <2>1. rest >= f.n
    BY DEF FrameOf
  <2> QED
    BY <1>1, <2>1
<1>4. QED
  BY <1>2, <1>3, Zenon DEF Leads, s

\* A piece of the body brings the client as far as the sender; the last one ends the
\* message.
LEMMA BodyStep ==
  ASSUME IInv, NEW w \in Writer, SendBody(w)
  PROVE  IInv'
<1> DEFINE m == job[w].msg
           n == PieceOf(m, job[w].offset)
           rest == m.body - job[w].offset
           f == Frame("body", m, n)
           k == Len(asked)
<1>0. SendStep(w)
  BY DEF SendStep
<1>1. job[w].next = "body" /\ Written(f, TRUE) /\ UNCHANGED <<asked, content, delivered>>
  BY DEF SendBody, client
<1>2. IF WriteFails(TRUE) \/ job[w].offset + n = m.body
      THEN SendEnd(w)
      ELSE job' = [job EXCEPT ![w].offset = job[w].offset + n] /\ UNCHANGED mu
  BY Zenon DEF SendBody
<1>3. /\ mu = w /\ w # "none" /\ Len(asked) \in Nat /\ Len(asked) > 0
      /\ m \in Message /\ m = asked[Len(asked)] /\ m.body \in Nat
  BY <1>1, SenderHolds DEF IInv, LockInv
<1>3a. n \in Nat /\ rest \in Nat /\ n <= rest /\ (job[w].offset + n = m.body <=> n = rest)
      /\ job[w].offset \in Nat
  BY <1>1, <1>3, FramingAssumption DEF IInv, LockInv, FramingTypes, PieceOf
<1>4. f \in FrameOf /\ f.kind = "body" /\ f.msg = m /\ f.n = n
  BY <1>3, <1>3a DEF Frame, FrameOf
<1>5. SenderAt = Place(Begun(m, rest), Len(asked) - 1)
  BY <1>1, <1>3 DEF SenderAt
<1> HIDE DEF m, f, n, rest, k
<1>6. CASE WriteFails(TRUE) \/ job[w].offset + n = m.body
  <2>1. SendEnd(w)
    BY <1>2, <1>6
  <2>2. /\ MuInv' /\ LockInv' /\ SenderAt' = Place(NoContent, Len(asked))
        /\ job' \in [Writer -> [msg : Message \cup {NoMessage}, offset : Nat,
                               next : {"none", "method", "header", "body"}]]
    BY <1>1, <2>1, EndKeepsLock
  <2>3. ASSUME ~WriteFails(TRUE)
        PROVE  SenderAt' \in Places /\ Leads(asked, SenderAt, f, SenderAt')
    <3>1. f.n = rest /\ k \in Nat /\ k > 0 /\ f.msg = asked[k] /\ f.n <= rest /\ rest \in Nat
      BY <1>3, <1>4, <1>6, <1>3a, <2>3 DEF k
    <3>2. Leads(asked, Place(Begun(m, rest), k - 1), f, Place(NoContent, k))
      BY <1>4, <3>1, BodyLeads DEF k
    <3>3. Place(NoContent, k) \in Places
      BY <3>1, NoContentType DEF Place, Places
    <3>4. QED
      BY <1>5, <2>2, <3>2, <3>3 DEF k
  <2>4. PathInv' /\ buf' \in Seq(FrameOf) /\ wire' \in Seq(FrameOf)
    BY <1>1, <1>4, <2>3, WriteKeepsPath DEF IInv
  <2>5. QED
    BY <1>0, <2>2, <2>4, SendKeepsRest
<1>7. CASE ~(WriteFails(TRUE) \/ job[w].offset + n = m.body)
  <2>0. n # rest
    BY <1>7, <1>3a, Zenon
  <2>1. job' = [job EXCEPT ![w].offset = job[w].offset + n] /\ mu' = mu
    BY <1>2, <1>7
  <2>2. /\ MuInv' /\ LockInv' /\ SenderAt' = Place(Begun(m, rest - n), Len(asked) - 1)
        /\ job' \in [Writer -> [msg : Message \cup {NoMessage}, offset : Nat,
                               next : {"none", "method", "header", "body"}]]
    <3>1. job[w].offset + n \in Nat /\ job[w].offset + n < m.body
      BY <1>3, <1>3a, <2>0 DEF rest
    <3>2. job' \in [Writer -> [msg : Message \cup {NoMessage}, offset : Nat,
                              next : {"none", "method", "header", "body"}]]
      BY <2>1, <3>1 DEF IInv, FramingTypes
    <3>3. /\ job'[w].next = "body" /\ job'[w].msg = m /\ job'[w].offset = job[w].offset + n
          /\ \A v \in Writer : v # w => job'[v] = job[v]
      BY <1>1, <2>1 DEF m, IInv, FramingTypes
    <3>4. MuInv'
      BY <2>1 DEF IInv, MuInv
    <3>5. LockInv'
      BY <1>1, <1>3, <2>1, <3>1, <3>3 DEF IInv, LockInv, NoBody
    <3>6. SenderAt' = Place(Begun(m, m.body - (job[w].offset + n)), Len(asked) - 1)
      BY <1>1, <1>3, <2>1, <3>3 DEF SenderAt
    <3>7. m.body - (job[w].offset + n) = rest - n
      BY <1>3, <1>3a DEF rest
    <3>8. QED
      BY <3>2, <3>4, <3>5, <3>6, <3>7
  <2>3. SenderAt' \in Places /\ Leads(asked, SenderAt, f, SenderAt')
    <3>1. f.n # rest /\ k \in Nat /\ k > 0 /\ f.msg = asked[k] /\ f.n <= rest /\ rest \in Nat
      BY <1>3, <1>4, <2>0, <1>3a DEF k
    <3>2. Leads(asked, Place(Begun(m, rest), k - 1), f, Place(Begun(m, rest - n), k - 1))
      BY <1>4, <3>1, BodyLeads DEF k
    <3>3. Place(Begun(m, rest - n), k - 1) \in Places
      BY <1>3, <1>3a, <3>1 DEF Place, Places, Begun, Contents
    <3>4. QED
      BY <1>5, <2>2, <3>2, <3>3 DEF k
  <2>4. PathInv' /\ buf' \in Seq(FrameOf) /\ wire' \in Seq(FrameOf)
    BY <1>1, <1>4, <2>3, WriteKeepsPath DEF IInv
  <2>5. QED
    BY <1>0, <2>2, <2>4, SendKeepsRest
<1>8. QED
  BY <1>6, <1>7

\* A heartbeat falls between two messages: nobody holds p.mu.
LEMMA HeartbeatStep ==
  ASSUME IInv, HeartbeatWrite
  PROVE  IInv'
<1>1. /\ mu = "none" /\ Written(Heartbeat, TRUE)
      /\ hb' = IF WriteFails(TRUE) THEN "shutdown" ELSE "wait"
      /\ UNCHANGED <<mu, job, asked, content, delivered, confused>>
  BY Zenon DEF HeartbeatWrite, HeartbeatTurn, client
<1>2. Heartbeat \in FrameOf /\ Heartbeat.kind = "heartbeat"
  BY DEF Heartbeat, Frame, FrameOf
<1>3. SenderAt = Place(NoContent, Len(asked)) /\ SenderAt' = SenderAt
  BY <1>1 DEF SenderAt
<1>4. SenderAt' \in Places /\ Leads(asked, SenderAt, Heartbeat, SenderAt')
  BY <1>2, <1>3, NoContentType DEF IInv, FramingTypes, Leads, Place, Places
<1>5. PathInv' /\ buf' \in Seq(FrameOf) /\ wire' \in Seq(FrameOf)
  BY <1>1, <1>2, <1>4, WriteKeepsPath DEF IInv
<1>6. FramingTypes' /\ MuInv' /\ LockInv'
  BY <1>1, <1>5 DEF IInv, FramingTypes, MuInv, LockInv
<1>7. WriteFails(TRUE) => err'
  BY <1>1, Zenon DEF Written
<1>8. HeartbeatInv' /\ OneReader'
  BY <1>1, <1>7 DEF HeartbeatInv, OneReader
<1>9. NeverConfused'
  BY <1>1, Zenon DEF IInv, NeverConfused
<1>10. QED
  BY <1>5, <1>6, <1>8, <1>9 DEF IInv

\* shutdown is reached only after a failed write, so its own write fails too.
LEMMA HeartbeatShutdownStep ==
  ASSUME IInv, HeartbeatShutdown
  PROVE  IInv'
<1>1. err /\ WriteFails(TRUE)
  BY Zenon DEF IInv, HeartbeatInv, HeartbeatShutdown, WriteFails
<1>2. /\ err' /\ hb' = "done"
      /\ UNCHANGED <<mu, job, asked, buf, wire, content, delivered, confused>>
  BY <1>1, Zenon DEF HeartbeatShutdown, Written, client
<1>3. FramingTypes' /\ MuInv' /\ LockInv' /\ HeartbeatInv' /\ OneReader'
  BY <1>2 DEF IInv, FramingTypes, MuInv, LockInv, HeartbeatInv, OneReader
<1>4. PathInv'
  BY <1>2 DEF IInv, PathInv
<1>5. NeverConfused'
  BY <1>2, Zenon DEF IInv, NeverConfused
<1>6. QED
  BY <1>3, <1>4, <1>5 DEF IInv

\* What the client does with the frame it may meet: it goes where the frame leads, is
\* not confused, and receives at most the message whose turn it is.
LEMMA ClientFollows ==
  ASSUME IInv, ClientRead, NEW u \in Places,
         Leads(asked, Place(content, Len(delivered)), Head(wire), u)
  PROVE  /\ u = Place(content', Len(delivered')) /\ ~confused'
         /\ content' \in Contents /\ delivered' \in Seq(Message)
         /\ \/ delivered' = delivered
            \/ /\ Len(delivered) < Len(asked)
               /\ delivered' = Append(delivered, asked[Len(delivered) + 1])
<1> DEFINE f == Head(wire)
           n == Len(delivered)
<1>1. /\ n \in Nat /\ delivered \in Seq(Message) /\ asked \in Seq(Message)
      /\ content \in Contents /\ f \in FrameOf
  BY DEF IInv, FramingTypes, ClientRead
<1>2. Place(content, n).c = content /\ Place(content, n).n = n
  BY DEF Place
<1>3. CASE f.kind = "heartbeat"
  <2>1. content = NoContent /\ u = Place(content, n)
    BY <1>2, <1>3 DEF Leads
  <2>2. confused' = content.on /\ UNCHANGED <<content, delivered>>
    BY <1>3 DEF ClientRead
  <2>3. content.on = FALSE
    BY <2>1 DEF NoContent
  <2>4. QED
    BY <1>1, <2>1, <2>2, <2>3
<1>4. CASE f.kind # "heartbeat"
  <2>0. n < Len(asked) /\ f.msg = asked[n + 1] /\ f.msg \in Message
    BY <1>1, <1>2, <1>4 DEF Leads
  <2> DEFINE Ends == Complete(f.msg) /\ u = Place(NoContent, n + 1) /\ ~confused'
  <2>1. ASSUME Ends
        PROVE  /\ u = Place(content', Len(delivered')) /\ ~confused'
               /\ content' \in Contents /\ delivered' \in Seq(Message)
               /\ delivered' = Append(delivered, asked[n + 1])
    BY <1>1, <2>0, <2>1, NoContentType DEF Complete
  <2>1a. ASSUME NEW r \in Int, content' = Begun(f.msg, r), UNCHANGED delivered,
                u = Place(Begun(f.msg, r), n), ~confused'
         PROVE  /\ u = Place(content', Len(delivered')) /\ ~confused'
                /\ content' \in Contents /\ delivered' \in Seq(Message)
                /\ delivered' = delivered
    <3>1. Begun(f.msg, r) \in Contents
      BY <2>0 DEF Begun, Contents
    <3>2. QED
      BY <1>1, <2>1a, <3>1
  <2>2. CASE f.kind = "method"
    <3>1. /\ content = NoContent
          /\ u = IF f.msg.body = NoBody THEN Place(NoContent, n + 1)
                                        ELSE Place(Begun(f.msg, -1), n)
      BY <1>2, <2>2 DEF Leads
    <3>2. /\ confused' = content.on
          /\ IF f.msg.body = NoBody THEN Complete(f.msg)
             ELSE content' = Begun(f.msg, -1) /\ UNCHANGED delivered
      BY <2>2 DEF ClientRead, Begun
    <3>3. content.on = FALSE
      BY <3>1 DEF NoContent
    <3>4. CASE f.msg.body = NoBody
      BY <2>0, <2>1, <3>1, <3>2, <3>3, <3>4
    <3>5. CASE f.msg.body # NoBody
      BY <2>1a, <3>1, <3>2, <3>3, <3>5
    <3>6. QED
      BY <3>4, <3>5
  <2>3. CASE f.kind = "header"
    <3>1. /\ content = Begun(f.msg, -1) /\ f.n \in Nat
          /\ u = IF f.n = 0 THEN Place(NoContent, n + 1) ELSE Place(Begun(f.msg, f.n), n)
      BY <1>1, <1>2, <2>3 DEF Leads, FrameOf
    <3>2. content.on = TRUE /\ content.msg = f.msg /\ content.remaining = -1
      BY <3>1 DEF Begun
    <3>3. /\ confused' = ~(content.on /\ content.msg = f.msg /\ content.remaining = -1)
          /\ IF f.n = 0 THEN Complete(f.msg)
             ELSE content' = [content EXCEPT !.remaining = f.n] /\ UNCHANGED delivered
      BY <2>3 DEF ClientRead
    <3>4. CASE f.n = 0
      BY <2>0, <2>1, <3>1, <3>2, <3>3, <3>4
    <3>5. CASE f.n # 0
      <4>1. content' = Begun(f.msg, f.n)
        BY <3>1, <3>3, <3>5 DEF Begun
      <4>2. f.n \in Int /\ UNCHANGED delivered
        BY <3>1, <3>2, <3>3, <3>5
      <4>3. u = Place(Begun(f.msg, f.n), n)
        BY <3>1, <3>5
      <4>4. ~confused'
        BY <3>1, <3>2, <3>3
      <4>5. QED
        BY <2>1a, <4>1, <4>2, <4>3, <4>4
    <3>6. QED
      BY <3>4, <3>5
  <2>4. CASE f.kind = "body"
    <3>1. PICK r \in Nat : /\ content = Begun(f.msg, r) /\ r >= f.n
                          /\ u = IF f.n = r THEN Place(NoContent, n + 1)
                                            ELSE Place(Begun(f.msg, r - f.n), n)
      BY <1>2, <2>4 DEF Leads
    <3>2. content.on = TRUE /\ content.msg = f.msg /\ content.remaining = r /\ f.n \in Int
      BY <1>1, <3>1 DEF Begun, FrameOf
    <3>3. /\ confused' = ~(content.on /\ content.msg = f.msg /\ content.remaining >= f.n)
          /\ IF f.n = content.remaining THEN Complete(f.msg)
             ELSE content' = [content EXCEPT !.remaining = @ - f.n] /\ UNCHANGED delivered
      BY <2>4 DEF ClientRead
    <3>4. CASE f.n = r
      BY <2>0, <2>1, <3>1, <3>2, <3>3, <3>4
    <3>5. CASE f.n # r
      <4>1. content' = Begun(f.msg, r - f.n)
        BY <3>1, <3>2, <3>3, <3>5 DEF Begun
      <4>2. r - f.n \in Int /\ UNCHANGED delivered
        BY <3>1, <3>2, <3>3, <3>5
      <4>3. u = Place(Begun(f.msg, r - f.n), n)
        BY <3>1, <3>5
      <4>4. ~confused'
        BY <3>1, <3>2, <3>3
      <4>5. QED
        BY <2>1a, <4>1, <4>2, <4>3, <4>4
    <3>6. QED
      BY <3>4, <3>5
  <2>5. QED
    BY <1>1, <1>4, <2>2, <2>3, <2>4 DEF FrameOf
<1>5. QED
  BY <1>3, <1>4

\* The client reads on, and receives at most the message whose turn it is.
LEMMA ClientStep ==
  ASSUME IInv, ClientRead
  PROVE  /\ IInv'
         /\ \/ delivered' = delivered
            \/ /\ Len(delivered) < Len(asked)
               /\ delivered' = Append(delivered, asked[Len(delivered) + 1])
<1>1. /\ wire # <<>> /\ wire' = Tail(wire)
      /\ UNCHANGED <<mu, job, asked, buf, broken, err, hb, canceller>>
  BY DEF ClientRead
<1>2. PICK t : /\ Path(asked, wire \o buf, Place(content, Len(delivered)), t)
               /\ ~err => t = SenderAt
  BY Zenon DEF IInv, PathInv
<1>3. wire \in Seq(FrameOf) /\ buf \in Seq(FrameOf) /\ wire \o buf \in Seq(FrameOf)
  BY DEF IInv, FramingTypes
<1>4. PICK u \in Places : /\ Leads(asked, Place(content, Len(delivered)), Head(wire), u)
                         /\ Path(asked, Tail(wire) \o buf, u, t)
  BY <1>1, <1>2, <1>3, FirstOnTheWay, PathTail
<1>5. /\ u = Place(content', Len(delivered')) /\ ~confused'
      /\ content' \in Contents /\ delivered' \in Seq(Message)
      /\ \/ delivered' = delivered
         \/ /\ Len(delivered) < Len(asked)
            /\ delivered' = Append(delivered, asked[Len(delivered) + 1])
  BY <1>4, ClientFollows
<1>6. FramingTypes' /\ MuInv' /\ LockInv' /\ HeartbeatInv' /\ OneReader'
  BY <1>1, <1>3, <1>5 DEF IInv, FramingTypes, MuInv, LockInv, HeartbeatInv, OneReader
<1>7. SenderAt' = SenderAt
  BY <1>1 DEF SenderAt
<1>8. Path(asked', wire' \o buf', Place(content', Len(delivered')), t)
  BY <1>1, <1>4, <1>5
<1>9. PathInv'
  BY <1>1, <1>2, <1>7, <1>8, Zenon DEF PathInv
<1>10. NeverConfused'
  BY <1>5, Zenon DEF NeverConfused
<1>11. QED
  BY <1>5, <1>6, <1>9, <1>10 DEF IInv

\* Cancelling, and a connection that breaks, touch neither frames nor senders.
LEMMA OtherStep ==
  ASSUME IInv, Cancel \/ setShutdownMessage \/ Break \/ UNCHANGED vars
  PROVE  IInv'
<1>1. /\ UNCHANGED <<mu, job, asked, buf, wire, err, hb>>
      /\ UNCHANGED <<content, delivered, confused>>
  BY DEF Cancel, setShutdownMessage, Break, vars, client
<1>2. FramingTypes' /\ MuInv' /\ LockInv' /\ HeartbeatInv' /\ OneReader'
  BY <1>1 DEF IInv, FramingTypes, MuInv, LockInv, HeartbeatInv, OneReader
<1>3. SenderAt' = SenderAt
  BY <1>1 DEF SenderAt
<1>4. PathInv'
  BY <1>1, <1>3 DEF IInv, PathInv
<1>5. NeverConfused'
  BY <1>1, Zenon DEF IInv, NeverConfused
<1>6. QED
  BY <1>2, <1>4, <1>5 DEF IInv

\* Every step of the writers and of the client keeps the invariant.
LEMMA FramingStep == IInv /\ [Next]_vars => IInv'
<1> SUFFICES ASSUME IInv, [Next]_vars PROVE IInv'
  OBVIOUS
<1>1. ASSUME NEW w \in Writer, NEW m \in Message, SendBegin(w, m) PROVE IInv'
  BY <1>1, BeginStep
<1>2. ASSUME NEW w \in Writer, SendStep(w) PROVE IInv'
  BY <1>2, MethodStep, HeaderStep, BodyStep DEF SendStep
<1>3. CASE HeartbeatWrite
  BY <1>3, HeartbeatStep
<1>4. CASE HeartbeatShutdown
  BY <1>4, HeartbeatShutdownStep
<1>5. CASE ClientRead
  BY <1>5, ClientStep
<1>6. CASE Cancel \/ setShutdownMessage \/ Break \/ UNCHANGED vars
  BY <1>6, OtherStep
<1>7. QED
  BY <1>1, <1>2, <1>3, <1>4, <1>5, <1>6 DEF Next

\* The invariant holds in every behaviour.
LEMMA FramingAlways == Spec => []IInv
  BY FramingInit, FramingStep, PTL DEF Spec

-----------------------------------------------------------------------------
\* The client never meets a frame out of place, whichever goroutines write through
\* Proxy.send and runHeartbeat, wherever the bufio.Writer spills and the connection
\* breaks.
THEOREM ClientNeverConfused == Spec => []NeverConfused
<1>1. IInv => NeverConfused
  BY DEF IInv
<1>2. QED
  BY <1>1, FramingAlways, PTL

\* runHeartbeat goes on to shutdown after a failed write, and never as far as reading
\* the connection: the bufio.Writer returns its error again.
THEOREM HeartbeatNeverReads == Spec => []OneReader
<1>1. IInv => OneReader
  BY DEF IInv
<1>2. QED
  BY <1>1, FramingAlways, PTL

\* What reaches the client is a stream of whole messages in the order of the turns in
\* Proxy.send: every step of Framing is one of MessageStream, or changes nothing there.
THEOREM FramingImplementsStream == Spec => StreamOfMessages
<1>1. Init => Stream!Init
  BY DEF Init, Stream!Init
<1>2. IInv /\ [Next]_vars => [Stream!Next]_(Stream!vars)
  <2> SUFFICES ASSUME IInv, [Next]_vars PROVE [Stream!Next]_(Stream!vars)
    OBVIOUS
  <2>1. ASSUME NEW w \in Writer, NEW m \in Message, SendBegin(w, m)
        PROVE  Stream!Next
    BY <2>1 DEF SendBegin, client, Stream!Next, Stream!Ask
  <2>2. CASE ClientRead
    <3>1. UNCHANGED asked
      BY <2>2 DEF ClientRead
    <3>2. QED
      BY <2>2, <3>1, ClientStep DEF Stream!Next, Stream!Deliver, Stream!vars
  <2>3. ASSUME NEW w \in Writer, SendStep(w)
        PROVE  UNCHANGED Stream!vars
    BY <2>3 DEF SendStep, SendMethod, SendHeader, SendBody, client, Stream!vars
  <2>4. CASE \/ HeartbeatWrite \/ HeartbeatShutdown \/ Cancel \/ setShutdownMessage
             \/ Break \/ UNCHANGED vars
    BY <2>4 DEF HeartbeatWrite, HeartbeatShutdown, Cancel, setShutdownMessage, Break, vars,
                client, Stream!vars
  <2>5. QED
    BY <2>1, <2>2, <2>3, <2>4 DEF Next
<1>3. QED
  BY <1>1, <1>2, FramingAlways, PTL DEF Spec, StreamOfMessages, Stream!Spec
=============================================================================
