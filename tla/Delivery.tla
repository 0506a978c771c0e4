------------------------------ MODULE Delivery ------------------------------
(***************************************************************************)
(* Deliveries and acknowledgements of one client channel (delivery.go, and *)
(* Basic.Consume, Get, Ack, Nack and Cancel of methods.go).                *)
(*                                                                         *)
(* Each upstream channel numbers the messages it delivers 1, 2, 3, ...     *)
(* The proxy merges them into one numbering, t * N + u for the t-th        *)
(* message of upstream u, and takes it apart again when the client answers *)
(* a delivery.  The main loop handles one client frame after the other; a  *)
(* Basic.Consume leaves one goroutine for each upstream behind, which      *)
(* writes deliveries to the client at its own pace.                        *)
(*                                                                         *)
(* A session is the life of the client channel from a Channel.Open to the  *)
(* next Channel.Close.  Consumers are numbered in the order of their       *)
(* Basic.Consume.                                                          *)
(***************************************************************************)
EXTENDS Integers, Sequences, FiniteSets

CONSTANTS
  N,          \* number of upstreams
  MaxOpen,    \* bound: Channel.Opens in a behaviour
  MaxConsume, \* bound: Basic.Consumes in a behaviour
  MaxMsg,     \* bound: messages one upstream channel delivers
  Gets,       \* does the client use Basic.Get?
  Multiple,   \* does the client answer with multiple = true?
  Breaks      \* are consumers cancelled, or channels closed by a broker?

ASSUME DeliveryAssumption ==
  /\ N \in {1, 2}                   \* config.Validate admits no other number
  /\ MaxOpen \in Nat \ {0}
  /\ MaxConsume \in Nat
  /\ MaxMsg \in Nat \ {0}
  /\ Gets \in BOOLEAN
  /\ Multiple \in BOOLEAN
  /\ Breaks \in BOOLEAN

Upstream == 0 .. N - 1
Session  == 1 .. MaxOpen
Consumer == 1 .. MaxConsume
MsgTag   == 1 .. MaxMsg
ByGet    == 0               \* in the place of a consumer: fetched by Basic.Get

VARIABLES
  \* the proxy's main loop
  pc,       \* where it is: between frames, or inside a handler
  i,        \* loop index over the upstreams
  todo,     \* upstreams a Basic.Get has still to ask
  session,  \* number of Channel.Opens handled
  hasChan,  \* is the client channel in every Upstream.channel map?
  consumes, \* number of Basic.Consumes handled
  consOf,   \* consOf[k]: the session consumer k was made in
  cur,      \* the consumer a Basic.Cancel is about
  \* the upstream channels (amqp091-go and the brokers behind it)
  chOpen,   \* chOpen[s][u]: channel open
  last,     \* last[s][u]: the last delivery tag it used
  unacked,  \* unacked[s][u]: tags delivered and not settled
  up,       \* up[k][u]: consumer k on upstream u
  buf,      \* buf[k][u]: deliveries the library holds for it
  \* the consume goroutines, one for each consumer and upstream
  gpc,      \* where it is
  hold,     \* hold[k][u]: the tag it is about to send
  ctx2,     \* ctx2[k]: is the context the goroutines of k share cancelled?
  \* the client's end
  alive,    \* can a frame still be written to the client?
  okSent,   \* consumers whose Basic.Consume-Ok was written
  received, \* the deliveries written to the client
  answered, \* the ones it has answered, or takes to be answered
  settled,  \* what its answers made the upstreams settle
  refused   \* the deliveries whose answer an upstream refused

mainVars == <<pc, i, todo, session, hasChan, consumes, consOf, cur>>
libVars == <<chOpen, last, unacked, up, buf>>
goVars == <<gpc, hold, ctx2>>
clientVars == <<alive, okSent, received, answered, settled, refused>>
vars == <<mainVars, libVars, goVars, clientVars>>

-----------------------------------------------------------------------------
(* delivery.go.                                                            *)

\* Mutants of Tag: no interleaving, one-based upstreams, zero-based messages.
TagFlat(t, u) == t

TagShifted(t, u) == t * N + u + 1

TagZeroBased(t, u) == (t - 1) * N + u - 1

\* Tag: the number under which the client sees message t of upstream u.
Tag(t, u) == t * N + u

\* Mutants of RestoreTag: rounded up, one too low.
RestoreTagNext(tag) == tag \div N + 1

\* restoreDeliveryTag: the upstream's own number, and the upstream.
RestoreTag(tag) == tag \div N

RestoreIndex(tag) == tag % N

-----------------------------------------------------------------------------
(* Types.                                                                  *)

\* A delivery written to the client: its tag, the message it carries (upstream
\* u of session os, tag t), for whom (k), when (session s, channel open in the
\* client's eyes) and whether Basic.Consume-Ok was written before it.
Delivery == [tag : Nat, os : Session, u : Upstream, t : MsgTag,
             k : Consumer \cup {ByGet}, s : 0 .. MaxOpen, seen : BOOLEAN,
             announced : BOOLEAN]

\* A message settled by the answer to delivery d.
Settled == [s : Session, u : Upstream, t : Nat, d : Delivery, multiple : BOOLEAN]

TypeMain ==
  /\ pc \in {"idle", "consume", "start", "cancel", "get", "close", "closing",
            "exit", "dead"}
  /\ i \in 0 .. N
  /\ todo \subseteq Upstream
  /\ session \in 0 .. MaxOpen
  /\ hasChan \in BOOLEAN
  /\ consumes \in 0 .. MaxConsume
  /\ consOf \in [Consumer -> 0 .. MaxOpen]
  /\ cur \in 0 .. MaxConsume

TypeLib ==
  /\ chOpen \in [Session -> [Upstream -> BOOLEAN]]
  /\ last \in [Session -> [Upstream -> 0 .. MaxMsg]]
  /\ unacked \in [Session -> [Upstream -> SUBSET MsgTag]]
  /\ up \in [Consumer -> [Upstream -> {"none", "active", "cancelled"}]]
  /\ buf \in [Consumer -> [Upstream -> Seq(MsgTag)]]

TypeGo ==
  /\ gpc \in [Consumer -> [Upstream -> {"none", "recv", "send", "done"}]]
  /\ hold \in [Consumer -> [Upstream -> 0 .. MaxMsg]]
  /\ ctx2 \in [Consumer -> BOOLEAN]

TypeClient ==
  /\ alive \in BOOLEAN
  /\ okSent \subseteq Consumer
  /\ received \subseteq Delivery
  /\ answered \subseteq Delivery
  /\ settled \subseteq Settled
  /\ refused \subseteq Delivery

\* The ranges of the variables.
TypeOK == TypeMain /\ TypeLib /\ TypeGo /\ TypeClient

Init ==
  /\ pc = "idle" /\ i = 0 /\ todo = {} /\ session = 0 /\ hasChan = FALSE
  /\ consumes = 0 /\ consOf = [k \in Consumer |-> 0] /\ cur = 0
  /\ chOpen = [s \in Session |-> [u \in Upstream |-> FALSE]]
  /\ last = [s \in Session |-> [u \in Upstream |-> 0]]
  /\ unacked = [s \in Session |-> [u \in Upstream |-> {}]]
  /\ up = [k \in Consumer |-> [u \in Upstream |-> "none"]]
  /\ buf = [k \in Consumer |-> [u \in Upstream |-> <<>>]]
  /\ gpc = [k \in Consumer |-> [u \in Upstream |-> "none"]]
  /\ hold = [k \in Consumer |-> [u \in Upstream |-> 0]]
  /\ ctx2 = [k \in Consumer |-> FALSE]
  /\ alive = TRUE /\ okSent = {} /\ received = {} /\ answered = {}
  /\ settled = {} /\ refused = {}

-----------------------------------------------------------------------------
(* The upstream channels (external).                                       *)

\* The channel is open in the client's eyes.
Seen == hasChan /\ pc \notin {"close", "closing"}

\* Channels us of session s are closed: the brokers take back what is not
\* settled, the library drops what it holds for their consumers.
CloseLib(s, us) ==
  /\ chOpen' = [chOpen EXCEPT ![s] = [u \in Upstream |-> u \notin us /\ @[u]]]
  /\ unacked' = [unacked EXCEPT ![s] = [u \in Upstream |-> IF u \in us THEN {} ELSE @[u]]]
  /\ up' = [k \in Consumer |-> [u \in Upstream |->
              IF consOf[k] = s /\ u \in us /\ up[k][u] = "active"
              THEN "cancelled" ELSE up[k][u]]]
  /\ buf' = [k \in Consumer |-> [u \in Upstream |->
               IF consOf[k] = s /\ u \in us THEN <<>> ELSE buf[k][u]]]
  /\ last' = last

\* A broker delivers a message to a consumer; the library queues it.
BrokerDeliver(k, u) ==
  LET s == consOf[k]
      t == last[s][u] + 1
  IN
  /\ up[k][u] = "active"
  /\ chOpen[s][u]
  /\ last[s][u] < MaxMsg
  /\ last' = [last EXCEPT ![s][u] = t]
  /\ unacked' = [unacked EXCEPT ![s][u] = @ \cup {t}]
  /\ buf' = [buf EXCEPT ![k][u] = Append(@, t)]
  /\ UNCHANGED <<mainVars, goVars, clientVars, chOpen, up>>

\* A broker cancels a consumer (its queue was deleted).  The library still hands
\* out what it holds, then closes the Go channel.
BrokerCancel(k, u) ==
  /\ Breaks
  /\ up[k][u] = "active"
  /\ up' = [up EXCEPT ![k][u] = "cancelled"]
  /\ UNCHANGED <<mainVars, goVars, clientVars, chOpen, last, unacked, buf>>

\* A channel exception: a broker closes the channel on its own.  Nothing in the
\* proxy watches for it.
BrokerCloseChannel(u) ==
  /\ Breaks
  /\ session > 0
  /\ chOpen[session][u]
  /\ CloseLib(session, {u})
  /\ UNCHANGED <<mainVars, goVars, clientVars>>

-----------------------------------------------------------------------------
(* The main loop.                                                          *)

\* replyChannelOpen: a channel on every upstream, then Channel.Open-Ok.  A failure
\* of either is a plain error, which ends the loop (MainExit).
ChannelOpen ==
  /\ pc = "idle" /\ alive
  /\ ~hasChan
  /\ session < MaxOpen
  /\ session' = session + 1
  /\ hasChan' = TRUE
  /\ chOpen' = [chOpen EXCEPT ![session + 1] = [u \in Upstream |-> TRUE]]
  /\ UNCHANGED <<pc, i, todo, consumes, consOf, cur, goVars, clientVars,
                 last, unacked, up, buf>>

\* replyChannelClose, one upstream after the other.
ChannelClose ==
  /\ pc = "idle" /\ alive
  /\ hasChan
  /\ pc' = "close" /\ i' = 0
  /\ UNCHANGED <<todo, session, hasChan, consumes, consOf, cur, libVars, goVars,
                 clientVars>>

\* ch.Close of a channel that is closed already succeeds.
CloseUpstream ==
  /\ pc = "close" /\ i < N
  /\ CloseLib(session, {i})
  /\ i' = i + 1
  /\ UNCHANGED <<pc, todo, session, hasChan, consumes, consOf, cur, goVars, clientVars>>

\* Channel.Close-Ok.
CloseDone ==
  /\ pc = "close" /\ i = N
  /\ hasChan' = FALSE
  /\ pc' = IF alive THEN "idle" ELSE "exit"
  /\ i' = 0
  /\ UNCHANGED <<todo, session, consumes, consOf, cur, libVars, goVars, clientVars>>

\* replyBasicConsume: a consumer on every upstream,
BasicConsume ==
  /\ pc = "idle" /\ alive
  /\ hasChan
  /\ consumes < MaxConsume
  /\ consumes' = consumes + 1
  /\ consOf' = [consOf EXCEPT ![consumes + 1] = session]
  /\ pc' = "consume" /\ i' = 0
  /\ UNCHANGED <<todo, session, hasChan, cur, libVars, goVars, clientVars>>

ConsumeUpstream ==
  /\ pc = "consume" /\ i < N
  /\ chOpen[session][i]
  /\ up' = [up EXCEPT ![consumes][i] = "active"]
  /\ i' = i + 1
  /\ UNCHANGED <<pc, todo, session, hasChan, consumes, consOf, cur, goVars, clientVars,
                 chOpen, last, unacked, buf>>

\* then Basic.Consume-Ok, whose failure is an AMQPError that cannot be sent,
ConsumeOk ==
  /\ pc = "consume" /\ i = N
  /\ i' = 0
  /\ \/ /\ alive
        /\ okSent' = okSent \cup {consumes}
        /\ pc' = "start"
     \/ /\ ~alive
        /\ okSent' = okSent
        /\ pc' = "exit"
  /\ UNCHANGED <<todo, session, hasChan, consumes, consOf, cur, libVars, goVars,
                 alive, received, answered, settled, refused>>

\* and the goroutines.
ConsumeStart ==
  /\ pc = "start"
  /\ gpc' = [gpc EXCEPT ![consumes] = [u \in Upstream |-> "recv"]]
  /\ pc' = "idle"
  /\ UNCHANGED <<i, todo, session, hasChan, consumes, consOf, cur, libVars, hold, ctx2,
                 clientVars>>

\* replyBasicCancel: the consumer is cancelled on one upstream after the other.
BasicCancel(k) ==
  /\ Breaks
  /\ pc = "idle" /\ alive
  /\ hasChan
  /\ k \in okSent
  /\ consOf[k] = session
  /\ pc' = "cancel" /\ i' = 0
  /\ cur' = k
  /\ UNCHANGED <<todo, session, hasChan, consumes, consOf, libVars, goVars, clientVars>>

CancelUpstream ==
  /\ pc = "cancel" /\ i < N
  /\ chOpen[session][i]
  /\ up' = [up EXCEPT ![cur][i] = "cancelled"]
  /\ i' = i + 1
  /\ UNCHANGED <<pc, todo, session, hasChan, consumes, consOf, cur, goVars, clientVars,
                 chOpen, last, unacked, buf>>

\* Basic.Cancel-Ok.
CancelDone ==
  /\ pc = "cancel" /\ i = N
  /\ pc' = IF alive THEN "idle" ELSE "exit"
  /\ i' = 0 /\ cur' = 0
  /\ UNCHANGED <<todo, session, hasChan, consumes, consOf, libVars, goVars, clientVars>>

\* An upstream channel a handler needs is closed.  Consume, Get and Cancel write
\* Connection.Close, after which no client sends requests, and the loop goes on;
\* in Channel.Close it is a plain error, which ends the loop.
HandlerFail ==
  /\ \/ pc \in {"consume", "cancel", "close"} /\ i < N /\ ~chOpen[session][i]
     \/ pc = "get" /\ \E u \in todo : ~chOpen[session][u]
  /\ pc' = IF alive /\ pc # "close" THEN "closing" ELSE "exit"
  /\ i' = 0 /\ todo' = {} /\ cur' = 0
  /\ UNCHANGED <<session, hasChan, consumes, consOf, libVars, goVars, clientVars>>

\* The record of a delivery.
Written(s, u, t, k) ==
  [tag |-> Tag(t, u), os |-> s, u |-> u, t |-> t, k |-> k, s |-> session,
   seen |-> Seen, announced |-> k = ByGet \/ k \in okSent]

\* replyBasicGet asks the upstreams in random order,
BasicGet ==
  /\ Gets
  /\ pc = "idle" /\ alive
  /\ hasChan
  /\ pc' = "get"
  /\ todo' = Upstream
  /\ UNCHANGED <<i, session, hasChan, consumes, consOf, cur, libVars, goVars, clientVars>>

\* passes over the ones that have no message,
GetNothing(u) ==
  /\ pc = "get" /\ u \in todo
  /\ chOpen[session][u]
  /\ todo' = todo \ {u}
  /\ UNCHANGED <<pc, i, session, hasChan, consumes, consOf, cur, libVars, goVars, clientVars>>

\* hands on the first message it gets (an error of this send is not looked at),
GetMessage(u) ==
  LET t == last[session][u] + 1 IN
  /\ pc = "get" /\ u \in todo
  /\ chOpen[session][u]
  /\ last[session][u] < MaxMsg
  /\ last' = [last EXCEPT ![session][u] = t]
  /\ unacked' = [unacked EXCEPT ![session][u] = @ \cup {t}]
  /\ received' = IF alive THEN received \cup {Written(session, u, t, ByGet)} ELSE received
  /\ pc' = "idle" /\ todo' = {}
  /\ UNCHANGED <<i, session, hasChan, consumes, consOf, cur, chOpen, up, buf, goVars,
                 alive, okSent, answered, settled, refused>>

\* or says Basic.Get-Empty.
GetEmpty ==
  /\ pc = "get" /\ todo = {}
  /\ pc' = IF alive THEN "idle" ELSE "exit"
  /\ UNCHANGED <<i, todo, session, hasChan, consumes, consOf, cur, libVars, goVars, clientVars>>

\* The messages an answer to tag t of channel u is about.
Covered(u, t, multiple) ==
  {x \in unacked[session][u] : x = t \/ (multiple /\ x <= t)}

\* ch.Ack or ch.Nack on a closed channel is a plain error, which ends the loop.
AnswerLost(u) ==
  /\ ~chOpen[session][u]
  /\ pc' = "exit"
  /\ UNCHANGED <<libVars, settled, refused>>

\* An upstream settles what the answer covers,
AnswerSettles(d, u, t, multiple) ==
  /\ chOpen[session][u]
  /\ t \in unacked[session][u]
  /\ settled' = settled \cup
       {[s |-> session, u |-> u, t |-> x, d |-> d, multiple |-> multiple] :
          x \in Covered(u, t, multiple)}
  /\ unacked' = [unacked EXCEPT ![session][u] = @ \ Covered(u, t, multiple)]
  /\ UNCHANGED <<pc, chOpen, last, up, buf, refused>>

\* or refuses a tag it does not know by closing the channel.
AnswerRefused(d, u, t) ==
  /\ chOpen[session][u]
  /\ t \notin unacked[session][u]
  /\ CloseLib(session, {u})
  /\ refused' = refused \cup {d}
  /\ UNCHANGED <<pc, settled>>

\* An answer to delivery d: the upstream and its tag are taken from the client's
\* tag (GetChannelByDeliveryTag, UpstreamDeliveryTag).
Answer(d, multiple) ==
  LET u == RestoreIndex(d.tag)
      t == RestoreTag(d.tag)
  IN
  /\ pc = "idle" /\ alive
  /\ hasChan
  /\ multiple => Multiple
  /\ d \in received \ answered
  /\ d.seen /\ d.s = session
  /\ answered' = answered \cup {d} \cup
       {x \in received : multiple /\ x.s = session /\ x.tag <= d.tag}
  /\ AnswerLost(u) \/ AnswerSettles(d, u, t, multiple) \/ AnswerRefused(d, u, t)
  /\ UNCHANGED <<i, todo, session, hasChan, consumes, consOf, cur, goVars, alive, okSent,
                 received>>

\* replyBasicAck, and replyBasicNack, which differs only in what the broker does
\* with the message.
BasicAck(d, multiple) == Answer(d, multiple)
BasicNack(d, multiple) == Answer(d, multiple)

\* The client or the network is gone, or the deferred conn.Close has run.
ClientGone ==
  /\ alive
  /\ alive' = FALSE
  /\ UNCHANGED <<mainVars, libVars, goVars, okSent, received, answered, settled, refused>>

\* The main loop ends: end of file, an error, the context cancelled.
MainExit ==
  /\ pc \in {"idle", "closing"}
  /\ pc' = "exit"
  /\ UNCHANGED <<i, todo, session, hasChan, consumes, consOf, cur, libVars, goVars, clientVars>>

\* Proxy.Close closes the upstream connections and every channel with them.
ProxyClose ==
  /\ pc = "exit"
  /\ pc' = "dead"
  /\ \/ session > 0 /\ CloseLib(session, Upstream)
     \/ session = 0 /\ UNCHANGED libVars
  /\ UNCHANGED <<i, todo, session, hasChan, consumes, consOf, cur, goVars, clientVars>>

-----------------------------------------------------------------------------
(* consume.                                                                *)

\* Take a message from the Go channel.
GoRecv(k, u) ==
  /\ gpc[k][u] = "recv"
  /\ buf[k][u] # <<>>
  /\ hold' = [hold EXCEPT ![k][u] = Head(buf[k][u])]
  /\ buf' = [buf EXCEPT ![k][u] = Tail(@)]
  /\ gpc' = [gpc EXCEPT ![k][u] = "send"]
  /\ UNCHANGED <<mainVars, clientVars, chOpen, last, unacked, up, ctx2>>

\* Mutants of GoSend: the message is sent again; it is dropped while the main loop
\* is inside a handler.
GoSendAgain(k, u) ==
  /\ gpc[k][u] = "send"
  /\ alive
  /\ received' = received \cup {Written(consOf[k], u, hold[k][u], k)}
  /\ UNCHANGED <<mainVars, libVars, gpc, hold, ctx2, alive, okSent, answered, settled, refused>>

GoSendUnlessBusy(k, u) ==
  /\ gpc[k][u] = "send"
  /\ alive
  /\ received' = IF pc = "idle" THEN received \cup {Written(consOf[k], u, hold[k][u], k)}
                                ELSE received
  /\ gpc' = [gpc EXCEPT ![k][u] = "recv"]
  /\ hold' = [hold EXCEPT ![k][u] = 0]
  /\ UNCHANGED <<mainVars, libVars, ctx2, alive, okSent, answered, settled, refused>>

\* Write it to the client.
GoSend(k, u) ==
  /\ gpc[k][u] = "send"
  /\ alive
  /\ received' = received \cup {Written(consOf[k], u, hold[k][u], k)}
  /\ gpc' = [gpc EXCEPT ![k][u] = "recv"]
  /\ hold' = [hold EXCEPT ![k][u] = 0]
  /\ UNCHANGED <<mainVars, libVars, ctx2, alive, okSent, answered, settled, refused>>

\* Mutant of GoEnd: the closed Go channel goes unnoticed.
GoEndNever(k, u) ==
  /\ gpc[k][u] = "recv"
  /\ ctx2[k]
  /\ gpc' = [gpc EXCEPT ![k][u] = "done"]
  /\ UNCHANGED <<mainVars, libVars, clientVars, hold, ctx2>>

\* Return, and cancel the context of the consumer's other goroutines: the write
\* failed, the Go channel is closed and empty, or the context is cancelled.
GoEnd(k, u) ==
  /\ \/ gpc[k][u] = "send" /\ ~alive
     \/ /\ gpc[k][u] = "recv"
        /\ buf[k][u] = <<>>
        /\ up[k][u] = "cancelled"
     \/ gpc[k][u] = "recv" /\ ctx2[k]
  /\ gpc' = [gpc EXCEPT ![k][u] = "done"]
  /\ ctx2' = [ctx2 EXCEPT ![k] = TRUE]
  /\ UNCHANGED <<mainVars, libVars, clientVars, hold>>

-----------------------------------------------------------------------------
HandlerNext ==
  \/ CloseUpstream \/ CloseDone
  \/ ConsumeUpstream \/ ConsumeOk \/ ConsumeStart
  \/ CancelUpstream \/ CancelDone
  \/ \E u \in Upstream : GetNothing(u) \/ GetMessage(u)
  \/ GetEmpty
  \/ HandlerFail
  \/ ProxyClose

ClientAnswers ==
  \E d \in received, multiple \in BOOLEAN : BasicAck(d, multiple) \/ BasicNack(d, multiple)

ClientNext ==
  \/ ChannelOpen \/ ChannelClose
  \/ BasicConsume \/ BasicGet
  \/ \E k \in Consumer : BasicCancel(k)
  \/ ClientAnswers

GoNext(k, u) == GoRecv(k, u) \/ GoSend(k, u) \/ GoEnd(k, u)

Next ==
  \/ ClientNext
  \/ HandlerNext
  \/ MainExit
  \/ ClientGone
  \/ \E u \in Upstream : BrokerCloseChannel(u)
  \/ \E k \in Consumer, u \in Upstream :
       BrokerDeliver(k, u) \/ BrokerCancel(k, u) \/ GoNext(k, u)

Spec == Init /\ [][Next]_vars

\* A handler that has been entered goes on, the goroutines run, a loop whose client
\* is gone ends, and the socket of a proxy that has ended is closed.
Fairness ==
  /\ WF_vars(HandlerNext)
  /\ WF_vars(~alive /\ MainExit)
  /\ WF_vars(pc = "dead" /\ ClientGone)
  /\ \A k \in Consumer, u \in Upstream : WF_vars(GoNext(k, u))

FairSpec == Spec /\ Fairness

-----------------------------------------------------------------------------
(* Properties.                                                             *)

\* A delivery that is read in the session it was made in.
Timely(d) == d.s = d.os

\* A single answer settles the one message that the client was given under that
\* tag, on its upstream, whatever the consumers and Basic.Gets that share the
\* numbering (Tag against restoreDeliveryTag).
SettlesMeant ==
  \A x \in settled : ~x.multiple /\ Timely(x.d) =>
    x.s = x.d.os /\ x.u = x.d.u /\ x.t = x.d.t

\* No upstream sees a delivery tag it does not know, which would cost the client its
\* channel, from a client that answers each delivery once, by itself.
NeverRefused == \A d \in refused : ~Timely(d)

\* The client learns of a consumer before it gets the consumer's first message
\* (Basic.Consume-Ok is written before the goroutines start).
OkBeforeDelivery == \A d \in received : d.announced

\* No message is forgotten: one that a broker delivered and that is not settled is
\* in the library's queue, in the hands of a goroutine or with the client, unless
\* the consumer's context was cancelled or the client is gone.
UnackedAccounted ==
  \A s \in Session, u \in Upstream : alive =>
    \A t \in unacked[s][u] :
      \/ \E k \in Consumer :
           /\ consOf[k] = s
           /\ \/ ctx2[k]
              \/ \E n \in 1 .. Len(buf[k][u]) : buf[k][u][n] = t
              \/ gpc[k][u] = "send" /\ hold[k][u] = t
      \/ \E d \in received : d.os = s /\ d.u = u /\ d.t = t

\* The client sees the messages of one upstream queue in the broker's order: a
\* consumer's next message from an upstream has a higher tag than the ones before.
DeliveriesInOrder ==
  \A k \in Consumer, u \in Upstream :
    LET coming == IF gpc[k][u] = "send" THEN <<hold[k][u]>> \o buf[k][u] ELSE buf[k][u]
        past   == {d \in received : d.k = k /\ d.u = u}
    IN  /\ \A n \in 1 .. Len(coming) : \A d \in past : d.t < coming[n]
        /\ \A n \in 2 .. Len(coming) : coming[n - 1] < coming[n]

\* Together: what the client sees of a consumer is Consume-Ok and then the messages
\* of each upstream in their order.
DeliveriesOrdered == OkBeforeDelivery /\ DeliveriesInOrder

\* k is the only source of deliveries in its session.
Alone(k) ==
  /\ \A j \in Consumer : consOf[j] = consOf[k] => j = k
  /\ \A d \in received : d.os = consOf[k] => d.k = k

\* An answer with multiple = true settles only messages that the client has been
\* given, as the brokers' own numbering guarantees: true for a consumer that has
\* the channel to itself (two of them overtake each other).
MultipleSettlesSeen ==
  \A x \in settled : Timely(x.d) /\ x.d.k \in Consumer /\ Alone(x.d.k) =>
    \E d \in received : d.os = x.s /\ d.u = x.u /\ d.t = x.t

\* An answer with multiple = true settles every delivery up to its tag: true with
\* one upstream (replyBasicAck passes the flag to one of them only).
MultipleSettlesAll ==
  pc = "idle" =>
    \A d \in answered :
      Timely(d) /\ d.s = session /\ chOpen[session][d.u] => d.t \notin unacked[d.os][d.u]

\* Together: the multiple flag settles exactly what it covers.
MultipleSettlesExactly == MultipleSettlesSeen /\ MultipleSettlesAll

\* A queued message reaches the client unless its consumer or the connection ends.
QueuedIsDelivered ==
  \A k \in Consumer, u \in Upstream, t \in MsgTag :
    (k \in okSent /\ buf[k][u] # <<>> /\ Head(buf[k][u]) = t)
    ~> (\/ \E d \in received : d.k = k /\ d.u = u /\ d.t = t
        \/ ctx2[k] \/ ~alive)

\* Every goroutine of a consumer ends once the proxy has closed its upstreams.
GoroutinesEnd ==
  pc = "dead" ~> \A k \in Consumer, u \in Upstream : gpc[k][u] \in {"none", "done"}

\* "cancel all consumers on exit of any" (replyBasicConsume): when one goroutine of a
\* consumer has returned, none of the upstreams keeps the consumer.
ExitCancelsAll ==
  \A k \in Consumer : ctx2[k] ~> \A u \in Upstream : up[k][u] # "active"
=============================================================================
