------------------------------ MODULE Framing ------------------------------
(***************************************************************************)
(* How the goroutines of a proxy write to its client: Proxy.send cuts a    *)
(* message into frames under p.mu, the heartbeat goroutine writes between  *)
(* them, and setShutdownMessage waits for the same mutex.  Frames collect  *)
(* in the bufio.Writer until a write flushes them.                         *)
(***************************************************************************)
EXTENDS Integers, Sequences, TLC

CONSTANTS
  Writer,     \* the goroutines that call Proxy.send
  Length,     \* the lengths a body may have
  Piece,      \* octets of a body that fit in a frame: frameMax - 8
  MaxSend,    \* bound: messages sent
  Window      \* frames under way from which on a write to the connection blocks

ASSUME FramingAssumption ==
  /\ "none" \notin Writer
  /\ Length \subseteq Nat
  /\ Piece \in Nat \ {0}
  /\ MaxSend \in Nat
  /\ Window \in Nat \ {0}

NoBody == -1   \* a message that is not a MessageWithContent
\* The messages are ones whose header can be written: the header of a delivery with a table inside
\* its Headers is refused by writeField after its method frame went into the buffer (Codec, Writable)
Message == [writer : Writer, body : Length \union {NoBody}]

VARIABLES
  mu,         \* who holds p.mu: a writer, or "none"
  job,        \* by writer: what is left of the message it sends
  asked,      \* messages in the order in which their senders got p.mu
  buf,        \* frames in the bufio.Writer
  wire,       \* frames flushed and not yet read by the client
  broken,     \* the connection is gone
  err,        \* the bufio.Writer's error, which stays
  hb,         \* the heartbeat goroutine
  canceller,  \* a goroutine that calls setShutdownMessage
  content,    \* the client: the message it is putting together
  delivered,  \* the client: the messages it has received
  confused    \* the client: it met a frame that does not belong where it is

client == <<content, delivered, confused>>
vars == <<mu, job, asked, buf, wire, broken, err, hb, canceller, client>>

NoMessage == [writer |-> "none", body |-> NoBody]
NoJob == [msg |-> NoMessage, next |-> "none", offset |-> 0]
NoContent == [on |-> FALSE, msg |-> NoMessage, remaining |-> 0]

\* n: the size that a header announces, the octets that a body frame carries
Frame(kind, msg, n) == [kind |-> kind, msg |-> msg, n |-> n]
Heartbeat == Frame("heartbeat", NoMessage, 0)

Octets == UNION {0..l : l \in Length \union {0}}
Frames == [kind : {"heartbeat", "method", "header", "body"}, msg : Message \union {NoMessage}, n : Octets]

TypeOK ==
  /\ mu \in Writer \union {"none"}
  /\ job \in [Writer -> [msg : Message \union {NoMessage}, offset : Octets,
                          next : {"none", "method", "header", "body"}]]
  /\ asked \in Seq(Message) /\ delivered \in Seq(Message)
  /\ buf \in Seq(Frames) /\ wire \in Seq(Frames)
  /\ broken \in BOOLEAN /\ err \in BOOLEAN /\ confused \in BOOLEAN
  /\ hb \in {"off", "wait", "shutdown", "recv", "done"}
  /\ canceller \in {"idle", "asked", "done"}
  /\ content \in [on : BOOLEAN, msg : Message \union {NoMessage}, remaining : Octets \union {-1}]

\* Heartbeats are negotiated off, or the goroutine waits for its timer
Init ==
  /\ mu = "none"
  /\ job = [w \in Writer |-> NoJob]
  /\ asked = <<>> /\ buf = <<>> /\ wire = <<>>
  /\ broken = FALSE /\ err = FALSE
  /\ hb \in {"off", "wait"}
  /\ canceller = "idle"
  /\ content = NoContent /\ delivered = <<>> /\ confused = FALSE

(***************************************************************************)
(* The bufio.Writer.  WriteFrameNoFlush leaves the frame in the buffer,    *)
(* unless that is full (spill); WriteFrame flushes.  An error stays: every *)
(* later write returns it.                                                 *)
(***************************************************************************)
WriteFails(flush) == err \/ (flush /\ broken)
WriteBlocks(flush) == flush /\ ~err /\ ~broken /\ Len(wire) >= Window

Written(f, flush) ==
  IF WriteFails(flush)
  THEN err' = TRUE /\ UNCHANGED <<buf, wire>>
  ELSE /\ buf' = IF flush THEN <<>> ELSE Append(buf, f)
       /\ wire' = IF flush THEN Append(wire \o buf, f) ELSE wire
       /\ UNCHANGED err

(***************************************************************************)
(* Proxy.send                                                              *)
(***************************************************************************)
\* Mutant of Lock: p.mu is not taken.
NoLock(w) == mu' = w
Lock(w) == mu = "none" /\ mu' = w

\* send begins: the turn of the message
SendBegin(w, m) ==
  /\ job[w] = NoJob
  /\ Len(asked) < MaxSend
  /\ m.writer = w
  /\ Lock(w)
  /\ job' = [job EXCEPT ![w] = [msg |-> m, next |-> "method", offset |-> 0]]
  /\ asked' = Append(asked, m)
  /\ UNCHANGED <<buf, wire, broken, err, hb, canceller, client>>

\* Mutant of SendEnd: no defer, so that a failed write leaves p.mu locked.
SendEndLeaks(w) ==
  /\ job' = [job EXCEPT ![w] = NoJob]
  /\ mu' = IF err' THEN w ELSE "none"

\* The deferred Unlock
SendEnd(w) ==
  /\ job' = [job EXCEPT ![w] = NoJob]
  /\ mu' = "none"

PieceOf(m, offset) == IF m.body - offset < Piece THEN m.body - offset ELSE Piece

\* The method frame: alone it is flushed, before content it is not
SendMethod(w, spill) ==
  LET m == job[w].msg
      flush == spill \/ m.body = NoBody
  IN /\ job[w].next = "method"
     /\ ~WriteBlocks(flush)
     /\ Written(Frame("method", m, 0), flush)
     /\ IF WriteFails(flush) \/ m.body = NoBody
        THEN SendEnd(w)
        ELSE job' = [job EXCEPT ![w].next = "header"] /\ UNCHANGED mu
     /\ UNCHANGED <<asked, broken, hb, canceller, client>>

\* The header frame is not flushed, even when no body follows
SendHeader(w, spill) ==
  LET m == job[w].msg IN
  /\ job[w].next = "header"
  /\ ~WriteBlocks(spill)
  /\ Written(Frame("header", m, m.body), spill)
  /\ IF WriteFails(spill) \/ m.body = 0
     THEN SendEnd(w)
     ELSE job' = [job EXCEPT ![w].next = "body"] /\ UNCHANGED mu
  /\ UNCHANGED <<asked, broken, hb, canceller, client>>

\* One turn of the loop over the body: each piece is flushed
SendBody(w) ==
  LET m == job[w].msg
      end == job[w].offset + PieceOf(m, job[w].offset)
  IN /\ job[w].next = "body"
     /\ ~WriteBlocks(TRUE)
     /\ Written(Frame("body", m, PieceOf(m, job[w].offset)), TRUE)
     /\ IF WriteFails(TRUE) \/ end = m.body
        THEN SendEnd(w)
        ELSE job' = [job EXCEPT ![w].offset = end] /\ UNCHANGED mu
     /\ UNCHANGED <<asked, broken, hb, canceller, client>>

SendStep(w) ==
  \/ \E spill \in BOOLEAN : SendMethod(w, spill) \/ SendHeader(w, spill)
  \/ SendBody(w)

(***************************************************************************)
(* runHeartbeat.  The timer may run out whenever the goroutine waits.      *)
(***************************************************************************)
\* Mutant of HeartbeatTurn: the frame is written without p.mu.
HeartbeatTurnAny == TRUE
HeartbeatTurn == mu = "none"

HeartbeatWrite ==
  /\ hb = "wait" /\ HeartbeatTurn /\ ~WriteBlocks(TRUE)
  /\ Written(Heartbeat, TRUE)
  /\ hb' = IF WriteFails(TRUE) THEN "shutdown" ELSE "wait"
  /\ UNCHANGED <<mu, job, asked, broken, canceller, client>>

\* Mutant of HeartbeatShutdown: the answer is read though Connection.Close was not sent.
HeartbeatShutdownReads ==
  /\ hb = "shutdown" /\ mu = "none" /\ ~WriteBlocks(TRUE)
  /\ Written(Frame("method", NoMessage, 0), TRUE)
  /\ hb' = "recv"
  /\ UNCHANGED <<mu, job, asked, broken, canceller, client>>

\* shutdown: Connection.Close is sent, and its answer is read if that succeeds
HeartbeatShutdown ==
  /\ hb = "shutdown" /\ mu = "none" /\ ~WriteBlocks(TRUE)
  /\ Written(Frame("method", NoMessage, 0), TRUE)
  /\ hb' = IF WriteFails(TRUE) THEN "done" ELSE "recv"
  /\ UNCHANGED <<mu, job, asked, broken, canceller, client>>

(***************************************************************************)
(* disconnectProxies calls setShutdownMessage before it cancels a proxy    *)
(***************************************************************************)
Cancel ==
  /\ canceller = "idle"
  /\ canceller' = "asked"
  /\ UNCHANGED <<mu, job, asked, buf, wire, broken, err, hb, client>>

setShutdownMessage ==
  /\ canceller = "asked" /\ mu = "none"
  /\ canceller' = "done"
  /\ UNCHANGED <<mu, job, asked, buf, wire, broken, err, hb, client>>

(***************************************************************************)
(* The client: reads frames and puts content together; its connection may  *)
(* break                                                                   *)
(***************************************************************************)
Complete(m) == delivered' = Append(delivered, m) /\ content' = NoContent

ClientRead ==
  /\ wire # <<>> /\ ~confused
  /\ wire' = Tail(wire)
  /\ LET f == Head(wire) IN
     CASE f.kind = "heartbeat" ->
            confused' = content.on /\ UNCHANGED <<content, delivered>>
       [] f.kind = "method" ->
            /\ confused' = content.on
            /\ IF f.msg.body = NoBody THEN Complete(f.msg)
               ELSE /\ content' = [on |-> TRUE, msg |-> f.msg, remaining |-> -1]
                    /\ UNCHANGED delivered
       [] f.kind = "header" ->
            /\ confused' = ~(content.on /\ content.msg = f.msg /\ content.remaining = -1)
            /\ IF f.n = 0 THEN Complete(f.msg)
               ELSE content' = [content EXCEPT !.remaining = f.n] /\ UNCHANGED delivered
       [] f.kind = "body" ->
            /\ confused' = ~(content.on /\ content.msg = f.msg /\ content.remaining >= f.n)
            /\ IF f.n = content.remaining THEN Complete(f.msg)
               ELSE content' = [content EXCEPT !.remaining = @ - f.n] /\ UNCHANGED delivered
  /\ UNCHANGED <<mu, job, asked, buf, broken, err, hb, canceller>>

Break ==
  /\ ~broken
  /\ broken' = TRUE
  /\ UNCHANGED <<mu, job, asked, buf, wire, err, hb, canceller, client>>

Next ==
  \/ \E w \in Writer : (\E m \in Message : SendBegin(w, m)) \/ SendStep(w)
  \/ HeartbeatWrite \/ HeartbeatShutdown
  \/ Cancel \/ setShutdownMessage
  \/ ClientRead \/ Break

Spec == Init /\ [][Next]_vars

(***************************************************************************)
(* Fairness.  Goroutines run; sync.Mutex is starvation-free, so whoever    *)
(* waits for p.mu gets it although others come back again and again; the   *)
(* timer runs out on an idle connection; the client reads.                 *)
(***************************************************************************)
Fairness ==
  /\ \A w \in Writer : WF_vars(SendStep(w))
  /\ SF_vars(HeartbeatWrite) /\ SF_vars(HeartbeatShutdown)
  /\ SF_vars(setShutdownMessage)
  /\ WF_vars(ClientRead)

FairSpec == Spec /\ Fairness

(***************************************************************************)
(* Properties                                                              *)
(***************************************************************************)
Stream == INSTANCE MessageStream WITH Message <- Message, asked <- asked, delivered <- delivered

\* The frames of all senders and of the heartbeat goroutine, as they reach the client, make up
\* whole messages in the order in which their senders got p.mu
StreamOfMessages == Stream!Spec

\* The client never meets a frame of another message, or a heartbeat, inside a message, nor a
\* body that does not add up to its header
NeverConfused == ~confused

\* The goroutine that sent a heartbeat in vain goes on to shutdown, but never gets to read the
\* connection, which the main loop is reading
OneReader == hb # "recv"

\* A message given to send arrives, unless the connection breaks; without heartbeats one with
\* an empty body may wait in the buffer for the next write
EveryMessageArrives ==
  \A i \in 1..MaxSend :
    (/\ Len(asked) >= i
     /\ hb # "off" \/ (i <= Len(asked) /\ asked[i].body # 0))
      ~> (Len(delivered) >= i \/ broken)

\* As long as the client reads, who wants to cancel the proxy is not held up by its writers
CancellerProceeds == canceller = "asked" ~> canceller = "done"

\* Together: nobody who waits for p.mu or for a flush waits for good
WritersProceed == EveryMessageArrives /\ CancellerProceeds

=============================================================================
