------------------------------- MODULE Confirm -------------------------------
(***************************************************************************)
(* Publisher confirms of one client channel (confirm.go, and the parts of  *)
(* methods.go, proxy.go and upstream.go that open, use and close it).      *)
(*                                                                         *)
(* The client numbers the messages it publishes on a channel 1, 2, 3, ...; *)
(* each upstream numbers the ones routed to it.  A confirmState translates *)
(* the second numbering into the first.  Three kinds of goroutines meet    *)
(* here: the proxy's main loop, which handles one client frame after the   *)
(* other; the reader of each upstream connection (external: amqp091-go),   *)
(* which hands confirmations to bounded Go channels; and one listenConfirm *)
(* goroutine for each Confirm.Select and upstream.                         *)
(*                                                                         *)
(* A session is the life of the client channel from a Channel.Open to the  *)
(* next Channel.Close; an epoch is the life of one confirmState, so one    *)
(* Confirm.Select.                                                         *)
(***************************************************************************)
EXTENDS Naturals, Sequences, FiniteSets

CONSTANTS
  N,           \* number of upstreams; config.Validate admits 1 and 2
  ConfirmBuf,  \* capacity of a NotifyPublish channel, 64 in the code
  MaxOpen,     \* bound: Channel.Opens in a behaviour
  MaxSelect,   \* bound: Confirm.Selects in a behaviour
  MaxPublish,  \* bound: publishes in one epoch
  ReSelect     \* does the client repeat Confirm.Select on an open channel?

ASSUME ConfirmAssumption ==
  /\ N \in Nat \ {0}
  /\ ConfirmBuf \in Nat \ {0}
  /\ MaxOpen \in Nat \ {0}
  /\ MaxSelect \in Nat \ {0}
  /\ MaxPublish \in Nat \ {0}
  /\ ReSelect \in BOOLEAN

Upstream == 0 .. N - 1
Session  == 1 .. MaxOpen
Epoch    == 1 .. MaxSelect
NoEpoch  == 0

VARIABLES
  \* the proxy's main loop
  pc,        \* where it is: between frames, or inside a handler
  i,         \* loop index over the upstreams, or the upstream published to
  session,   \* number of Channel.Opens handled
  hasChan,   \* is the client channel in every Upstream.channel map?
  cs,        \* confirmStates[channelID]: an epoch, or NoEpoch for nil
  epoch,     \* number of confirmStates created
  epochOf,   \* epochOf[e]: the session in which confirmState e was made
  clientTag, \* clientTag[e]: confirmState e's counter
  tagMap,    \* tagMap[e]: confirmState e's map, a set of entries
  \* the client's end of the connection
  alive,     \* can a frame still be written to the client?
  closing,   \* has the proxy sent Connection.Close?
  chanSeen,  \* is the channel open in the client's eyes?
  seqNo,     \* the client's own count of confirmed-mode publishes
  sent,      \* the Basic.Acks and Basic.Nacks written to the client
  \* the upstream channels (amqp091-go and the brokers behind it)
  confirming, \* confirming[s][u]: channel in confirm mode
  chOpen,     \* chOpen[s][u]: channel open
  landed,     \* landed[s][u]: the publishes it numbered, in order
  verdict,    \* verdict[s][u]: the broker's answers (ack?) to them
  \* the listenConfirm goroutines, one for each epoch and upstream
  lpc,       \* where it is
  pushed,    \* confirmations put into its Go channel so far
  got,       \* confirmations it has taken out of it
  held       \* the client tag it is about to send

mainVars == <<pc, i, session, hasChan, cs, epoch, epochOf>>
stateVars == <<clientTag, tagMap>>
clientVars == <<alive, closing, chanSeen, seqNo, sent>>
libVars == <<confirming, chOpen, landed, verdict>>
listenVars == <<lpc, pushed, got, held>>
vars == <<mainVars, stateVars, clientVars, libVars, listenVars>>

-----------------------------------------------------------------------------
(* Types.                                                                  *)

\* An entry of a confirmState's map: (upstream, upstream tag) -> client tag.
Entry == [u : Upstream, utag : Nat, ctag : Nat]

\* A publish numbered by an upstream channel: the confirmState and the client
\* tag it was recorded under, and the number the client gave it.
Publish == [e : Epoch \cup {NoEpoch}, ctag : Nat, seq : Nat]

\* A confirmation written to the client: its frame (ctag, ack), where it came
\* from (e, u, utag), and what the client made of the channel at that moment.
Sent == [e : Epoch, u : Upstream, utag : Nat, ctag : Nat, ack : BOOLEAN,
         session : 0 .. MaxOpen, seen : BOOLEAN, late : BOOLEAN]

TypeMain ==
  /\ pc \in {"idle", "select", "publish", "close", "exit", "exited", "dead"}
  /\ i \in 0 .. N
  /\ session \in 0 .. MaxOpen
  /\ hasChan \in BOOLEAN
  /\ cs \in 0 .. MaxSelect
  /\ epoch \in 0 .. MaxSelect
  /\ epochOf \in [Epoch -> 0 .. MaxOpen]

TypeState ==
  /\ clientTag \in [Epoch -> Nat]
  /\ tagMap \in [Epoch -> SUBSET Entry]

TypeClient ==
  /\ alive \in BOOLEAN
  /\ closing \in BOOLEAN
  /\ chanSeen \in BOOLEAN
  /\ seqNo \in Nat
  /\ sent \subseteq Sent

TypeLib ==
  /\ confirming \in [Session -> [Upstream -> BOOLEAN]]
  /\ chOpen \in [Session -> [Upstream -> BOOLEAN]]
  /\ landed \in [Session -> [Upstream -> Seq(Publish)]]
  /\ verdict \in [Session -> [Upstream -> Seq(BOOLEAN)]]

TypeListen ==
  /\ lpc \in [Epoch -> [Upstream -> {"none", "recv", "send", "failed", "done"}]]
  /\ pushed \in [Epoch -> [Upstream -> Nat]]
  /\ got \in [Epoch -> [Upstream -> Nat]]
  /\ held \in [Epoch -> [Upstream -> Nat]]

\* The ranges of the variables.
TypeOK == TypeMain /\ TypeState /\ TypeClient /\ TypeLib /\ TypeListen

Init ==
  /\ pc = "idle" /\ i = 0 /\ session = 0 /\ hasChan = FALSE
  /\ cs = NoEpoch /\ epoch = 0
  /\ epochOf = [e \in Epoch |-> 0]
  /\ clientTag = [e \in Epoch |-> 0]
  /\ tagMap = [e \in Epoch |-> {}]
  /\ alive = TRUE /\ closing = FALSE /\ chanSeen = FALSE
  /\ seqNo = 0 /\ sent = {}
  /\ confirming = [s \in Session |-> [u \in Upstream |-> FALSE]]
  /\ chOpen = [s \in Session |-> [u \in Upstream |-> FALSE]]
  /\ landed = [s \in Session |-> [u \in Upstream |-> <<>>]]
  /\ verdict = [s \in Session |-> [u \in Upstream |-> <<>>]]
  /\ lpc = [e \in Epoch |-> [u \in Upstream |-> "none"]]
  /\ pushed = [e \in Epoch |-> [u \in Upstream |-> 0]]
  /\ got = [e \in Epoch |-> [u \in Upstream |-> 0]]
  /\ held = [e \in Epoch |-> [u \in Upstream |-> 0]]

-----------------------------------------------------------------------------
(* confirmState.                                                           *)

\* Mutants of RecordPublish.
RecordPublishDown(e, u, utag) ==
  /\ clientTag' = [clientTag EXCEPT ![e] = @ - 1]
  /\ tagMap' = tagMap

RecordPublishOneUpstream(e, u, utag) ==
  LET old == {x \in tagMap[e] : x.utag = utag}
      new == [u |-> 0, utag |-> utag, ctag |-> clientTag[e] + 1]
  IN  /\ clientTag' = [clientTag EXCEPT ![e] = @ + 1]
      /\ tagMap' = [tagMap EXCEPT ![e] = (@ \ old) \cup {new}]

RecordPublishUpstreamTag(e, u, utag) ==
  LET new == [u |-> u, utag |-> utag, ctag |-> utag]
  IN  /\ clientTag' = [clientTag EXCEPT ![e] = @ + 1]
      /\ tagMap' = [tagMap EXCEPT ![e] = @ \cup {new}]

\* RecordPublish: count the publish and map its upstream tag to the count.
RecordPublish(e, u, utag) ==
  LET old == {x \in tagMap[e] : x.u = u /\ x.utag = utag}
      new == [u |-> u, utag |-> utag, ctag |-> clientTag[e] + 1]
  IN  /\ clientTag' = [clientTag EXCEPT ![e] = @ + 1]
      /\ tagMap' = [tagMap EXCEPT ![e] = (@ \ old) \cup {new}]

\* What LookupClientTag finds for an upstream tag: at most one entry.
Found(e, u, utag) == {x \in tagMap[e] : x.u = u /\ x.utag = utag}

-----------------------------------------------------------------------------
(* The library's side (external).                                          *)

\* The Go channels registered with NotifyPublish on a session's channel.
Registered(s, u) == {e \in Epoch : epochOf[e] = s /\ lpc[e][u] # "none"}

\* The reader of the connection has handed on every confirmation it read.  The
\* answer to a request on the channel comes behind them on the wire.
ReaderFree(s, u) == \A e \in Registered(s, u) : pushed[e][u] = Len(verdict[s][u])

\* There is room in the listener's Go channel.
BufRoom(e, u) == pushed[e][u] - got[e][u] < ConfirmBuf

\* A broker answers the next publish.  It may answer in any order; the library
\* hands the answers on in order of their tags, so this is the order here.
BrokerConfirm(s, u) ==
  /\ chOpen[s][u]
  /\ Len(verdict[s][u]) < Len(landed[s][u])
  /\ \E ack \in BOOLEAN :
       verdict' = [verdict EXCEPT ![s][u] = Append(@, ack)]
  /\ UNCHANGED <<mainVars, stateVars, clientVars, listenVars,
                 confirming, chOpen, landed>>

\* The reader puts a confirmation into the Go channels registered on the
\* channel, in the order of their registration, blocking on a full one.
ReaderPush(e, u) ==
  LET s == epochOf[e] IN
  /\ lpc[e][u] # "none"
  /\ chOpen[s][u]
  /\ pushed[e][u] < Len(verdict[s][u])
  /\ BufRoom(e, u)
  /\ \A d \in Registered(s, u) :
       /\ d < e => pushed[d][u] > pushed[e][u]
       /\ d > e => pushed[d][u] = pushed[e][u]
  /\ pushed' = [pushed EXCEPT ![e][u] = @ + 1]
  /\ UNCHANGED <<mainVars, stateVars, clientVars, libVars, lpc, got, held>>

\* A channel exception: the broker closes the channel on its own.  Nothing in
\* the proxy watches for it; the channel stays in Upstream.channel.
BrokerCloseChannel(s, u) ==
  /\ chOpen[s][u]
  /\ ReaderFree(s, u)
  /\ chOpen' = [chOpen EXCEPT ![s][u] = FALSE]
  /\ UNCHANGED <<mainVars, stateVars, clientVars, listenVars,
                 confirming, landed, verdict>>

-----------------------------------------------------------------------------
(* The main loop: Channel.Open, Confirm.Select, Basic.Publish and          *)
(* Channel.Close on the channel.                                           *)

\* An error that is an AMQPError: Connection.Close is written to the client and
\* the loop goes on to the next frame.  Any other error ends the loop.
SendConnectionClose ==
  /\ closing' = TRUE
  /\ pc' = IF alive THEN "idle" ELSE "exit"
  /\ i' = 0
  /\ UNCHANGED <<alive, chanSeen, seqNo, sent>>

\* replyChannelOpen: a channel on every upstream, then Channel.Open-Ok.  A failure
\* of either is a plain error, which ends the loop (MainExit).
ChannelOpen ==
  /\ pc = "idle" /\ alive
  /\ ~hasChan
  /\ session < MaxOpen
  /\ session' = session + 1
  /\ hasChan' = TRUE
  /\ chOpen' = [chOpen EXCEPT ![session + 1] = [u \in Upstream |-> TRUE]]
  /\ chanSeen' = TRUE
  /\ seqNo' = 0
  /\ UNCHANGED <<pc, i, cs, epoch, epochOf, stateVars, alive, closing, sent,
                 confirming, landed, verdict, listenVars>>

\* replyConfirmSelect starts with a new confirmState.
ConfirmSelect ==
  /\ pc = "idle" /\ alive
  /\ hasChan
  /\ epoch < MaxSelect
  /\ cs = NoEpoch \/ ReSelect
  /\ pc' = "select" /\ i' = 0
  /\ epoch' = epoch + 1
  /\ epochOf' = [epochOf EXCEPT ![epoch + 1] = session]
  /\ UNCHANGED <<session, hasChan, cs, stateVars, clientVars, libVars, listenVars>>

\* One turn of its loop: ch.Confirm, ch.NotifyPublish and the goroutine.
SelectUpstream ==
  /\ pc = "select" /\ i < N
  /\ chOpen[session][i]
  /\ ReaderFree(session, i)
  /\ confirming' = [confirming EXCEPT ![session][i] = TRUE]
  /\ lpc' = [lpc EXCEPT ![epoch][i] = "recv"]
  /\ pushed' = [pushed EXCEPT ![epoch][i] = Len(verdict[session][i])]
  /\ got' = [got EXCEPT ![epoch][i] = Len(verdict[session][i])]
  /\ i' = i + 1
  /\ UNCHANGED <<pc, session, hasChan, cs, epoch, epochOf, stateVars, clientVars,
                 chOpen, landed, verdict, held>>

\* ch.Confirm fails: the goroutines started so far stay, the state does not.
SelectFail ==
  /\ pc = "select" /\ i < N
  /\ ~chOpen[session][i]
  /\ SendConnectionClose
  /\ UNCHANGED <<session, hasChan, cs, epoch, epochOf, stateVars, libVars, listenVars>>

\* setConfirmState and Confirm.Select-Ok.
SelectDone ==
  /\ pc = "select" /\ i = N
  /\ cs' = epoch
  /\ pc' = IF alive THEN "idle" ELSE "exit"
  /\ i' = 0
  /\ UNCHANGED <<session, hasChan, epoch, epochOf, stateVars, clientVars,
                 libVars, listenVars>>

\* replyBasicPublish up to the publish: pick the upstream by routing key
\* (GetChannelWithIndex: any of them here) and, in confirm mode, record the
\* mapping for the tag the library will use next.
PublishRecord(u) ==
  /\ pc = "idle" /\ alive
  /\ hasChan
  /\ cs # NoEpoch => clientTag[cs] < MaxPublish
  /\ Len(landed[session][u]) < MaxPublish
  /\ pc' = "publish" /\ i' = u
  /\ \/ /\ cs # NoEpoch
        /\ RecordPublish(cs, u, Len(landed[session][u]) + 1)
        /\ seqNo' = seqNo + 1
     \/ /\ cs = NoEpoch
        /\ UNCHANGED <<stateVars, seqNo>>
  /\ UNCHANGED <<session, hasChan, cs, epoch, epochOf, alive, closing, chanSeen,
                 sent, libVars, listenVars>>

\* PublishWithContext succeeds; a channel in confirm mode numbers the message.
PublishSend ==
  /\ pc = "publish"
  /\ chOpen[session][i]
  /\ landed' = IF confirming[session][i]
               THEN [landed EXCEPT ![session][i] = Append(@,
                       [e    |-> cs,
                        ctag |-> IF cs = NoEpoch THEN 0 ELSE clientTag[cs],
                        seq  |-> seqNo])]
               ELSE landed
  /\ pc' = "idle" /\ i' = 0
  /\ UNCHANGED <<session, hasChan, cs, epoch, epochOf, stateVars, clientVars,
                 confirming, chOpen, verdict, listenVars>>

\* PublishWithContext fails (a closed channel, headers the library refuses): no
\* tag is used up.
PublishFail ==
  /\ pc = "publish"
  /\ SendConnectionClose
  /\ UNCHANGED <<session, hasChan, cs, epoch, epochOf, stateVars, libVars, listenVars>>

\* replyChannelClose first forgets the confirmState; the client, which has sent
\* Channel.Close, no longer looks at what arrives on the channel.
ChannelClose ==
  /\ pc = "idle" /\ alive
  /\ hasChan
  /\ pc' = "close" /\ i' = 0
  /\ cs' = NoEpoch
  /\ chanSeen' = FALSE
  /\ UNCHANGED <<session, hasChan, epoch, epochOf, stateVars, alive, closing, seqNo,
                 sent, libVars, listenVars>>

\* Upstream.CloseChannel, one upstream after the other.  Closing the library's
\* channel closes the Go channels; what is in them can still be received.
CloseUpstream ==
  /\ pc = "close" /\ i < N
  /\ chOpen[session][i] => ReaderFree(session, i)
  /\ chOpen' = [chOpen EXCEPT ![session][i] = FALSE]
  /\ i' = i + 1
  /\ UNCHANGED <<pc, session, hasChan, cs, epoch, epochOf, stateVars, clientVars,
                 confirming, landed, verdict, listenVars>>

\* ch.Close fails (the upstream is gone): a plain error, which ends the loop.
CloseFail ==
  /\ pc = "close" /\ i < N
  /\ ~chOpen[session][i]
  /\ pc' = "exit" /\ i' = 0
  /\ UNCHANGED <<session, hasChan, cs, epoch, epochOf, stateVars, clientVars,
                 libVars, listenVars>>

\* Channel.Close-Ok.
CloseDone ==
  /\ pc = "close" /\ i = N
  /\ hasChan' = FALSE
  /\ pc' = IF alive THEN "idle" ELSE "exit"
  /\ i' = 0
  /\ UNCHANGED <<session, cs, epoch, epochOf, stateVars, clientVars, libVars,
                 listenVars>>

-----------------------------------------------------------------------------
(* The end of the connection.                                              *)

\* The client or the network is gone: writes fail from now on.
ClientGone ==
  /\ alive
  /\ alive' = FALSE
  /\ UNCHANGED <<mainVars, stateVars, closing, chanSeen, seqNo, sent, libVars, listenVars>>

\* The main loop ends: end of file, an error that is no AMQPError, the context
\* cancelled, an upstream gone.
MainExit ==
  /\ pc = "idle"
  /\ pc' = "exit"
  /\ UNCHANGED <<i, session, hasChan, cs, epoch, epochOf, stateVars, clientVars,
                 libVars, listenVars>>

\* Proxy.Close closes the upstream connections, and their channels with them.
ProxyClose ==
  /\ pc = "exit"
  /\ \A s \in Session, u \in Upstream : chOpen[s][u] => ReaderFree(s, u)
  /\ pc' = "exited"
  /\ chOpen' = [s \in Session |-> [u \in Upstream |-> FALSE]]
  /\ UNCHANGED <<i, session, hasChan, cs, epoch, epochOf, stateVars, clientVars,
                 confirming, landed, verdict, listenVars>>

\* The deferred conn.Close runs after Proxy.Close.
ConnClose ==
  /\ pc = "exited"
  /\ pc' = "dead"
  /\ alive' = FALSE
  /\ UNCHANGED <<i, session, hasChan, cs, epoch, epochOf, stateVars, closing,
                 chanSeen, seqNo, sent, libVars, listenVars>>

-----------------------------------------------------------------------------
(* listenConfirm.                                                          *)

\* Mutant of ListenRecv: the entry is not deleted.
ListenRecvKeep(e, u) ==
  LET utag == got[e][u] + 1
      hit  == Found(e, u, utag)
  IN
  /\ lpc[e][u] = "recv"
  /\ got[e][u] < pushed[e][u]
  /\ got' = [got EXCEPT ![e][u] = utag]
  /\ tagMap' = tagMap
  /\ \/ /\ hit = {}
        /\ UNCHANGED <<lpc, held>>
     \/ \E x \in hit :
          /\ held' = [held EXCEPT ![e][u] = x.ctag]
          /\ lpc' = [lpc EXCEPT ![e][u] = "send"]
  /\ UNCHANGED <<mainVars, clientTag, clientVars, libVars, pushed>>

\* Receive a confirmation and look its tag up, dropping the entry; a tag that is
\* not found is logged and skipped.
ListenRecv(e, u) ==
  LET utag == got[e][u] + 1
      hit  == Found(e, u, utag)
  IN
  /\ lpc[e][u] = "recv"
  /\ got[e][u] < pushed[e][u]
  /\ got' = [got EXCEPT ![e][u] = utag]
  /\ tagMap' = [tagMap EXCEPT ![e] = @ \ hit]
  /\ \/ /\ hit = {}
        /\ UNCHANGED <<lpc, held>>
     \/ \E x \in hit :
          /\ held' = [held EXCEPT ![e][u] = x.ctag]
          /\ lpc' = [lpc EXCEPT ![e][u] = "send"]
  /\ UNCHANGED <<mainVars, clientTag, clientVars, libVars, pushed>>

\* Mutant of ListenSend: the goroutine returns also when the write has succeeded.
ListenSendReturns(e, u) ==
  /\ lpc[e][u] = "send"
  /\ alive
  /\ sent' = sent \cup
       {[e |-> e, u |-> u, utag |-> got[e][u], ctag |-> held[e][u],
         ack |-> verdict[epochOf[e]][u][got[e][u]],
         session |-> session, seen |-> chanSeen, late |-> closing]}
  /\ lpc' = [lpc EXCEPT ![e][u] = "done"]
  /\ held' = [held EXCEPT ![e][u] = 0]
  /\ UNCHANGED <<mainVars, stateVars, alive, closing, chanSeen, seqNo, libVars,
                 pushed, got>>

\* Write the Basic.Ack or Basic.Nack.
ListenSend(e, u) ==
  /\ lpc[e][u] = "send"
  /\ alive
  /\ sent' = sent \cup
       {[e |-> e, u |-> u, utag |-> got[e][u], ctag |-> held[e][u],
         ack |-> verdict[epochOf[e]][u][got[e][u]],
         session |-> session, seen |-> chanSeen, late |-> closing]}
  /\ lpc' = [lpc EXCEPT ![e][u] = "recv"]
  /\ held' = [held EXCEPT ![e][u] = 0]
  /\ UNCHANGED <<mainVars, stateVars, alive, closing, chanSeen, seqNo, libVars,
                 pushed, got>>

\* The write fails: the goroutine returns and nobody empties its Go channel.
ListenFail(e, u) ==
  /\ lpc[e][u] = "send"
  /\ ~alive
  /\ lpc' = [lpc EXCEPT ![e][u] = "failed"]
  /\ UNCHANGED <<mainVars, stateVars, clientVars, libVars, pushed, got, held>>

\* The Go channel is closed and empty: the range loop ends.
ListenEnd(e, u) ==
  /\ lpc[e][u] = "recv"
  /\ got[e][u] = pushed[e][u]
  /\ ~chOpen[epochOf[e]][u]
  /\ lpc' = [lpc EXCEPT ![e][u] = "done"]
  /\ UNCHANGED <<mainVars, stateVars, clientVars, libVars, pushed, got, held>>

-----------------------------------------------------------------------------
MainNext ==
  \/ ChannelOpen
  \/ ConfirmSelect \/ SelectUpstream \/ SelectFail \/ SelectDone
  \/ \E u \in Upstream : PublishRecord(u)
  \/ PublishSend \/ PublishFail
  \/ ChannelClose \/ CloseUpstream \/ CloseFail \/ CloseDone
  \/ MainExit \/ ProxyClose \/ ConnClose

ListenNext(e, u) ==
  \/ ListenRecv(e, u) \/ ListenSend(e, u) \/ ListenFail(e, u) \/ ListenEnd(e, u)

Next ==
  \/ MainNext
  \/ ClientGone
  \/ \E s \in Session, u \in Upstream : BrokerConfirm(s, u) \/ BrokerCloseChannel(s, u)
  \/ \E e \in Epoch, u \in Upstream : ReaderPush(e, u) \/ ListenNext(e, u)

Spec == Init /\ [][Next]_vars

\* Go schedules every goroutine that can run: a handler that has been entered goes
\* on, the loop notices a dead socket, the library's readers and the listeners run.
HandlerNext ==
  \/ SelectUpstream \/ SelectFail \/ SelectDone
  \/ PublishSend \/ PublishFail
  \/ CloseUpstream \/ CloseFail \/ CloseDone
  \/ ~alive /\ MainExit
  \/ ProxyClose \/ ConnClose

Fairness ==
  /\ WF_vars(HandlerNext)
  /\ \A e \in Epoch, u \in Upstream :
       WF_vars(ReaderPush(e, u)) /\ WF_vars(ListenNext(e, u))

FairSpec == Spec /\ Fairness

-----------------------------------------------------------------------------
(* Properties.                                                             *)

\* The publish an upstream confirmation is about.
Origin(e, u, utag) == landed[epochOf[e]][u][utag]

\* What a confirmation tells the client is true of the message: the tag that
\* listenConfirm writes is the one RecordPublish gave the very publish that the
\* upstream numbered utag, and ack or nack is the upstream's verdict on it.  Only
\* what is written after Connection.Close, which a client must ignore, is exempt.
ConfirmSound ==
  \A r \in sent : ~r.late =>
    /\ r.utag \in 1 .. Len(verdict[epochOf[r.e]][r.u])
    /\ r.utag \in 1 .. Len(landed[epochOf[r.e]][r.u])
    /\ Origin(r.e, r.u, r.utag).e = r.e
    /\ Origin(r.e, r.u, r.utag).ctag = r.ctag
    /\ r.ack = verdict[epochOf[r.e]][r.u][r.utag]

\* No confirmation is lost or doubled: until Connection.Close is sent, every tag a
\* confirmState has given out is in exactly one place: its map, the hands of one
\* listener, or among the frames written.
ConfirmConserved ==
  ~closing => \A e \in Epoch : \A n \in 1 .. clientTag[e] :
    Cardinality({x \in tagMap[e] : x.ctag = n})
    + Cardinality({u \in Upstream : lpc[e][u] \in {"send", "failed"} /\ held[e][u] = n})
    + Cardinality({r \in sent : r.e = e /\ r.ctag = n}) = 1

\* A confirmation carries the number under which the client itself published the
\* message on the channel (RecordPublish counts what the client counts).
TagsFollowClient ==
  \A r \in sent : ~r.late => Origin(r.e, r.u, r.utag).seq = r.ctag

\* A confirmation that reaches an open client channel is about a message published
\* since that channel was opened, not about its predecessor of the same number.
\* This does not hold (replyChannelClose does not wait for the listeners) and no
\* run checks it; with MaxOpen = 2 TLC shows the stale confirmation.
ConfirmsStayInSession ==
  \A r \in sent : ~r.late /\ r.seen => r.session = epochOf[r.e]

\* Every verdict on a recorded publish reaches the client, unless the client is
\* gone or has been sent Connection.Close: no interleaving of the main loop, the
\* readers and the listeners swallows one.
ConfirmDelivered ==
  \A e \in Epoch, u \in Upstream, k \in 1 .. MaxPublish :
    (/\ lpc[e][u] # "none"
     /\ k <= Len(verdict[epochOf[e]][u])
     /\ Origin(e, u, k).e = e)
    ~> (\/ \E r \in sent : r.e = e /\ r.u = u /\ r.utag = k
        \/ ~alive
        \/ closing)

\* Once Proxy.Close has been called every upstream channel is closed in the end
\* (upstream.go on Upstream.Close: "all channels are closed by connection.Close()").
\* This does not hold: when a listener has given up on a dead client and its Go
\* channel is full, the connection's reader stays blocked on it for ever, and
\* Proxy.Close waits for the reader.
ChannelsClosed ==
  pc = "exit" ~> \A s \in Session, u \in Upstream : ~chOpen[s][u]
=============================================================================
