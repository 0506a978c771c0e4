----------------------------- MODULE Connection -----------------------------
(***************************************************************************)
(* One client connection: Server.handleConnection with the handshake, the  *)
(* main loop that reads a frame and dispatches it (process, dispatch0,     *)
(* dispatchN), recv that puts a published message together from its        *)
(* frames, the handlers that repeat a method on every upstream, and the    *)
(* ways to an end: an error, shutdown, the loss of an upstream.  A message *)
(* written to the client is one step here, which Framing justifies.        *)
(***************************************************************************)
EXTENDS Naturals, Sequences, FiniteSets, Pattern

CONSTANTS
  KeyPatterns,   \* the key patterns of each upstream, in order
  Key,           \* routing keys the client uses
  Channel,       \* channels the client has open
  Size,          \* sizes of the bodies it publishes
  MaxFrame,      \* bound: methods and heartbeats the client sends once the connection is open
  MaxPublish,    \* bound: messages it publishes
  MaxLoss        \* bound: upstreams that are lost

ASSUME ConnectionAssumption ==
  /\ Len(KeyPatterns) \in Nat \ {0}
  /\ Channel \subseteq Nat \ {0}
  /\ Size \subseteq Nat

\* Keys and patterns as strings.Split returns them: words over some characters, at least one
ASSUME RoutingAssumption ==
  /\ Key \subseteq Seq(Seq(STRING)) \ {<<>>}
  /\ KeyPatterns \in Seq(Seq(Seq(Seq(STRING)) \ {<<>>}))

N == Len(KeyPatterns)
Upstream == 1..N

VARIABLES
  pc,         \* where handleConnection is
  cur,        \* the method it handles
  got,        \* recv: the frames of its content so far; the fan-out: the upstreams done
  in,         \* frames on their way from the client
  open,       \* the client has not hung up
  said,       \* how many frames of the handshake the client has sent
  todo,       \* by channel: frames the client still has to send of a message
  methods,    \* the methods the client has sent
  beats,      \* how many heartbeats it has sent
  out,        \* what was written to the client
  published,  \* messages handed to upstreams
  applied,    \* by upstream: the methods known to be carried out there
  alive,      \* upstreams whose connection stands
  lost,       \* how many names went into upstreamDisconnect
  stop        \* the proxy's context is done

clientVars == <<open, said, todo, methods, beats>>
upstreams == <<published, applied, alive, lost>>
vars == <<pc, cur, got, in, clientVars, out, upstreams, stop>>

\* Frames.  id numbers the client's methods and the frames of a content share it; n is the size
\* of the content in body frames, or which of them a body frame is
Frame(ch, kind, id, n, key) == [ch |-> ch, kind |-> kind, id |-> id, n |-> n, key |-> key]
Control(kind) == Frame(0, kind, 0, 0, <<>>)
Nothing == Control("none")
Content(f) ==
  <<Frame(f.ch, "header", f.id, f.n, <<>>)>> \o [i \in 1..f.n |-> Frame(f.ch, "body", f.id, i, <<>>)]

\* bind: Queue.Bind, Queue.Unbind, Basic.Qos and Exchange.Declare wait for each upstream.
\* purge: Queue.Purge is called with no-wait, as is Queue.Bind if the client said no-wait, so
\* that nothing is known of their success
Fanned == {"bind", "purge"}

Init ==
  /\ pc = "header" /\ cur = Nothing /\ got = <<>>
  /\ in = <<>> /\ open = TRUE /\ said = 0 /\ todo = [c \in Channel |-> <<>>]
  /\ methods = <<>> /\ beats = 0
  /\ out = <<>>
  /\ published = <<>> /\ applied = [u \in Upstream |-> {}] /\ alive = Upstream /\ lost = 0
  /\ stop = FALSE

(***************************************************************************)
(* The client                                                              *)
(***************************************************************************)
Told(kind) == \E i \in DOMAIN out : out[i].kind = kind
Closing == Told("close") \/ \E i \in DOMAIN methods : methods[i].kind = "close"
Between == \A c \in Channel : todo[c] = <<>>
Ready == open /\ Told("openOk") /\ ~Closing /\ Len(methods) + beats < MaxFrame

MayPublish == Len(SelectSeq(methods, LAMBDA f : f.kind = "publish")) < MaxPublish

\* The AMQP header, Start-Ok after Start, Tune-Ok after Tune and Open right behind it
Spoken == <<"amqp", "startOk", "tuneOk", "open">>
ClientHandshake ==
  /\ open /\ said < Len(Spoken)
  /\ Len(out) >= (IF said = 3 THEN 2 ELSE said)
  /\ in' = Append(in, Control(Spoken[said + 1]))
  /\ said' = said + 1
  /\ UNCHANGED <<pc, cur, got, open, todo, methods, beats, out, upstreams, stop>>

ClientMethod(ch, kind, key, n) ==
  LET f == Frame(ch, kind, Len(methods) + 1, n, key) IN
  /\ Ready
  /\ IF kind = "close" THEN Between ELSE todo[ch] = <<>>
  /\ in' = Append(in, f)
  /\ methods' = Append(methods, f)
  /\ todo' = IF kind = "publish" THEN [todo EXCEPT ![ch] = Content(f)] ELSE todo
  /\ UNCHANGED <<pc, cur, got, open, said, beats, out, upstreams, stop>>

\* The frames of a content, between which those of other channels may come
ClientContent(ch) ==
  /\ open /\ todo[ch] # <<>>
  /\ in' = Append(in, Head(todo[ch]))
  /\ todo' = [todo EXCEPT ![ch] = Tail(@)]
  /\ UNCHANGED <<pc, cur, got, open, said, methods, beats, out, upstreams, stop>>

ClientHeartbeat ==
  /\ Ready
  /\ in' = Append(in, Control("heartbeat"))
  /\ beats' = beats + 1
  /\ UNCHANGED <<pc, cur, got, open, said, todo, methods, out, upstreams, stop>>

\* Connection.Close is answered, and that is the last the client sends
ClientCloseOk ==
  /\ open /\ Told("close") /\ Between
  /\ in' = Append(in, Control("closeOk"))
  /\ open' = FALSE
  /\ UNCHANGED <<pc, cur, got, said, todo, methods, beats, out, upstreams, stop>>

HangUp ==
  /\ open
  /\ open' = FALSE
  /\ todo' = [c \in Channel |-> <<>>]
  /\ UNCHANGED <<pc, cur, got, in, said, methods, beats, out, upstreams, stop>>

ClientNext ==
  /\ pc # "end"   \* the connection is closed
  /\ \/ ClientHandshake \/ ClientHeartbeat \/ ClientCloseOk \/ HangUp
     \/ ClientMethod(0, "close", <<>>, 0)
     \/ \E c \in Channel :
          \/ \E kind \in Fanned \union {"unsupported"} : ClientMethod(c, kind, <<>>, 0)
          \/ /\ MayPublish
             /\ \E key \in Key, n \in Size : ClientMethod(c, "publish", key, n)
          \/ ClientContent(c)

(***************************************************************************)
(* What may happen to the proxy meanwhile                                  *)
(***************************************************************************)
Serving == {"loop", "read", "content", "fan"}

\* disconnectProxies, the API or the end of the server
Cancel ==
  /\ pc \in Serving \union {"connect"} /\ ~stop
  /\ stop' = TRUE
  /\ UNCHANGED <<pc, cur, got, in, clientVars, out, upstreams>>

LoseUpstream(u) ==
  /\ pc \in Serving /\ u \in alive
  /\ N - Cardinality(alive) < MaxLoss
  /\ alive' = alive \ {u}
  /\ UNCHANGED <<pc, cur, got, in, clientVars, out, published, applied, lost, stop>>

\* NotifyClose fires in the monitor of an upstream that was lost
MonitorUpstreamConnection ==
  /\ pc \in Serving /\ lost < N - Cardinality(alive)
  /\ lost' = lost + 1
  /\ UNCHANGED <<pc, cur, got, in, clientVars, out, published, applied, alive, stop>>

(***************************************************************************)
(* handleConnection                                                        *)
(***************************************************************************)
Goto(p) == pc' = p /\ cur' = Nothing /\ got' = <<>>

\* Proxy.send, then on to p; to a client that hung up it may fail, which ends the connection
Send(ch, kind, id, p) ==
  \/ /\ Goto(p)
     /\ out' = IF open THEN Append(out, [ch |-> ch, kind |-> kind, id |-> id]) ELSE out
  \/ ~open /\ Goto("end") /\ UNCHANGED out
Next1(f) == in # <<>> /\ f = Head(in) /\ in' = Tail(in)
Silence == in = <<>>      \* the deadline passes, or the client has hung up

Expected == [header |-> "amqp", startOk |-> "startOk", tuneOk |-> "tuneOk", open |-> "open"]

\* handshake: the method expected next, and the answer to it
HandshakeStep ==
  /\ pc \in DOMAIN Expected /\ in # <<>> /\ Head(in).kind = Expected[pc]
  /\ in' = Tail(in)
  /\ CASE pc = "header"  -> Send(0, "start", 0, "startOk")
       [] pc = "startOk" -> Send(0, "tune", 0, "tuneOk")
       [] pc = "tuneOk"  -> Goto("open") /\ UNCHANGED out
       [] pc = "open"    -> Send(0, "openOk", 0, "connect")
  /\ UNCHANGED <<clientVars, upstreams, stop>>

\* Nothing came within handshakeTimeout, or the authentication cannot be used
HandshakeFails ==
  /\ pc \in DOMAIN Expected
  /\ Silence \/ pc = "startOk"
  /\ Goto("end")
  /\ UNCHANGED <<in, clientVars, out, upstreams, stop>>

ConnectToUpstreams ==
  /\ pc = "connect"
  /\ Goto("loop") \/ Goto("end")
  /\ UNCHANGED <<in, clientVars, out, upstreams, stop>>

\* The select of the main loop: shutdown, sendConnectionError, or the next frame
Select ==
  /\ pc = "loop"
  /\ \/ stop /\ Send(0, "close", 0, "closing")
     \/ lost > 0 /\ Send(0, "close", 0, "closing")
     \/ ~stop /\ lost = 0 /\ Goto("read") /\ UNCHANGED out
  /\ UNCHANGED <<in, clientVars, upstreams, stop>>

\* process without a frame: a deadline goes round the loop, the end of the stream ends it
ReadNothing ==
  /\ pc = "read" /\ Silence
  /\ Goto(IF open THEN "loop" ELSE "end")
  /\ UNCHANGED <<in, clientVars, out, upstreams, stop>>

\* Mutant of Dispatch0: Connection.Close is taken note of only.
Dispatch0Mute ==
  \E f \in {Head(in)} :
    /\ pc = "read" /\ Next1(f) /\ f.ch = 0
    /\ Goto(IF f.kind \in {"close", "heartbeat"} THEN "loop" ELSE "end") /\ UNCHANGED out
    /\ UNCHANGED <<clientVars, upstreams, stop>>

\* dispatch0: after Connection.Close-Ok the loop goes on, any other method ends it
Dispatch0 ==
  \E f \in {Head(in)} :
    /\ pc = "read" /\ Next1(f) /\ f.ch = 0
    /\ CASE f.kind = "close"     -> Send(0, "closeOk", f.id, "loop")
         [] f.kind = "heartbeat" -> Goto("loop") /\ UNCHANGED out
         [] OTHER                -> Goto("end") /\ UNCHANGED out
    /\ UNCHANGED <<clientVars, upstreams, stop>>

\* dispatchN: content follows a publish, other methods go to their handlers; header and body
\* frames out of place end the connection
DispatchN ==
  \E f \in {Head(in)} :
    /\ pc = "read" /\ Next1(f) /\ f.ch # 0
    /\ CASE f.kind = "publish"     -> pc' = "content" /\ cur' = f /\ got' = <<>> /\ UNCHANGED out
         [] f.kind \in Fanned      -> pc' = "fan" /\ cur' = f /\ got' = <<>> /\ UNCHANGED out
         [] f.kind = "unsupported" -> Send(f.ch, "close", f.id, "loop")
         [] OTHER                  -> Goto("end") /\ UNCHANGED out
    /\ UNCHANGED <<clientVars, upstreams, stop>>

(***************************************************************************)
(* recv and replyBasicPublish                                              *)
(***************************************************************************)
\* Mutant of Whole: the count of what remains is off by one.
WholeEarly(fs) == fs # <<>> /\ Len(fs) >= fs[1].n

\* recv counts what remains of the size that the header gave
Whole(fs) == fs # <<>> /\ Len(fs) > fs[1].n

\* Mutant of Publish: a message for an upstream that is gone is handed to another one.
PublishElsewhere(fs) ==
  LET u == Route(cur.key, KeyPatterns)
      v == IF u \in alive \/ alive = {} THEN u ELSE CHOOSE w \in alive : TRUE
  IN IF v \in alive
     THEN /\ published' = Append(published, [id |-> cur.id, up |-> v, content |-> fs])
          /\ Goto("loop") /\ UNCHANGED <<out, applied, alive, lost>>
     ELSE Send(cur.ch, "close", cur.id, "loop") /\ UNCHANGED upstreams

\* replyBasicPublish, which fails if the upstream is gone
Publish(fs) ==
  LET u == Route(cur.key, KeyPatterns) IN
  IF u \in alive
  THEN /\ published' = Append(published, [id |-> cur.id, up |-> u, content |-> fs])
       /\ Goto("loop") /\ UNCHANGED <<out, applied, alive, lost>>
  ELSE Send(cur.ch, "close", cur.id, "loop") /\ UNCHANGED upstreams

ForContent(f) == f.ch = cur.ch

\* A frame of another channel, a heartbeat too, is lost and the client gets an error
RecvContent ==
  \E f \in {Head(in)} :
    /\ pc = "content" /\ Next1(f)
    /\ LET fs == Append(got, f) IN
       IF ~ForContent(f) THEN Send(cur.ch, "close", cur.id, "loop") /\ UNCHANGED upstreams
       ELSE IF Whole(fs) THEN Publish(fs)
       ELSE got' = fs /\ UNCHANGED <<pc, cur, out, upstreams>>
    /\ UNCHANGED <<clientVars, stop>>

RecvNothing ==
  /\ pc = "content" /\ Silence
  /\ Send(cur.ch, "close", cur.id, "loop")
  /\ UNCHANGED <<in, clientVars, upstreams, stop>>

(***************************************************************************)
(* The handlers that go from upstream to upstream.  got counts the calls.  *)
(***************************************************************************)
\* Mutant of Rest: the last upstream is left out.
RestShort == Len(got) < N - 1
Rest == Len(got) < N

FanCall ==
  LET u == Len(got) + 1 IN
  /\ pc = "fan" /\ Rest
  /\ IF u \in alive
     THEN /\ \/ /\ got' = Append(got, u)
                /\ applied' = IF cur.kind = "purge" THEN applied
                              ELSE [applied EXCEPT ![u] = @ \union {cur.id}]
                /\ UNCHANGED <<pc, cur, out>>
             \/ Send(cur.ch, "close", cur.id, "loop") /\ UNCHANGED applied    \* refused
     ELSE Send(cur.ch, "close", cur.id, "loop") /\ UNCHANGED applied
  /\ UNCHANGED <<in, clientVars, published, alive, lost, stop>>

FanReply ==
  /\ pc = "fan" /\ ~Rest
  /\ Send(cur.ch, "ok", cur.id, "loop")
  /\ UNCHANGED <<in, clientVars, upstreams, stop>>

\* Mutant of AwaitCloseOk: a deadline is taken for a quiet client, as in process.
AwaitCloseOkForever ==
  /\ pc = "closing"
  /\ IF Silence THEN Goto(IF open THEN "closing" ELSE "end") /\ UNCHANGED in
     ELSE Goto(IF Head(in).kind = "heartbeat" THEN "closing" ELSE "end") /\ in' = Tail(in)
  /\ UNCHANGED <<clientVars, out, upstreams, stop>>

\* shutdown and sendConnectionError wait for Close-Ok; whatever else comes but a heartbeat
\* ends the connection as well, and so does a deadline
AwaitCloseOk ==
  /\ pc = "closing"
  /\ IF Silence THEN Goto("end") /\ UNCHANGED in
     ELSE Goto(IF Head(in).kind = "heartbeat" THEN "closing" ELSE "end") /\ in' = Tail(in)
  /\ UNCHANGED <<clientVars, out, upstreams, stop>>

ProxyNext ==
  \/ HandshakeStep \/ HandshakeFails \/ ConnectToUpstreams
  \/ Select \/ ReadNothing
  \/ in # <<>> /\ (Dispatch0 \/ DispatchN \/ RecvContent)
  \/ RecvNothing \/ FanCall \/ FanReply \/ AwaitCloseOk

Next ==
  \/ ProxyNext \/ ClientNext
  \/ Cancel \/ MonitorUpstreamConnection
  \/ \E u \in Upstream : LoseUpstream(u)

Spec == Init /\ [][Next]_vars

\* handleConnection runs, its deadlines pass; a client that began a content completes it, unless
\* it hangs up; the monitor of an upstream runs
FairSpec ==
  /\ Spec
  /\ WF_vars(ProxyNext)
  /\ \A c \in Channel : WF_vars(pc # "end" /\ ClientContent(c))
  /\ WF_vars(MonitorUpstreamConnection)

(***************************************************************************)
(* Properties                                                              *)
(***************************************************************************)
TypeOK ==
  /\ pc \in DOMAIN Expected \union Serving \union {"connect", "closing", "end"}
  /\ open \in BOOLEAN /\ stop \in BOOLEAN
  /\ said \in 0..4 /\ beats \in Nat
  /\ lost \in 0..N /\ alive \subseteq Upstream

\* A message that reaches an upstream is one the client published, with the whole of its own
\* content, each at most once and in the order of its channel, however the frames of two
\* channels and heartbeats were interleaved and whatever came late
PublishIntact ==
  /\ \A i \in DOMAIN published :
       LET p == published[i] IN p.content = Content(methods[p.id])
  /\ \A i, j \in DOMAIN published : i < j => published[i].id # published[j].id
  /\ \A i, j \in DOMAIN published :
       i < j /\ methods[published[i].id].ch = methods[published[j].id].ch
         => published[i].id < published[j].id

\* The upstreams one of whose patterns means the key
Meant(key) ==
  {u \in Upstream : \E j \in DOMAIN KeyPatterns[u] : KeyMeans(key, KeyPatterns[u][j])}

\* The first upstream whose patterns mean the key, or the first of all if none does
MeantFor(up, key) ==
  IF Meant(key) = {} THEN up = 1 ELSE up \in Meant(key) /\ \A u \in Meant(key) : up <= u

\* A key of one word that a pattern of several words means: a # stands for no word
Short(key) ==
  /\ Len(key) = 1
  /\ \E u \in Upstream : \E j \in DOMAIN KeyPatterns[u] :
       Len(KeyPatterns[u][j]) > 1 /\ KeyMeans(key, KeyPatterns[u][j])

\* A message that reaches an upstream was published with a key that the patterns of this upstream
\* mean and those of no earlier one, or with a key that no patterns mean and is at the first
\* upstream, although other methods and lost upstreams came between its frames.  Short keys,
\* which Match turns away from their pattern, are the one exception
RoutedAsMeant ==
  \A i \in DOMAIN published :
    LET key == methods[published[i].id].key IN Short(key) \/ MeantFor(published[i].up, key)

\* The same without the exception, as the README has it: "Supported patterns are equivalent to the
\* RabbitMQ's topic exchange routing key patterns", where "`#` matches zero or more words".  The
\* early return of Match does not see to it
RoutingMeans ==
  \A i \in DOMAIN published : MeantFor(published[i].up, methods[published[i].id].key)

\* A method that waits for its upstreams one by one (Queue.Bind without no-wait, Queue.Unbind,
\* Basic.Qos, Exchange.Declare) is answered Ok only once every upstream has carried it out, although upstreams
\* are lost and the proxy is cancelled meanwhile.  Queue.Purge is none of them: it is sent no-wait
\* and answered at once
OkMeansApplied ==
  \A i \in DOMAIN out :
    out[i].kind = "ok" /\ methods[out[i].id].kind = "bind"
      => \A u \in Upstream : out[i].id \in applied[u]

\* A method that has a reply is answered, or the client is told to close, or the connection ends
Answered ==
  \A i \in 1..MaxFrame :
    (Len(methods) >= i /\ (i <= Len(methods) => methods[i].kind # "publish"))
      ~> (pc = "end" \/ Told("close") \/ ~open \/ \E j \in DOMAIN out : out[j].id = i)

\* A cancelled proxy, one that lost an upstream and one whose client is gone all end, whatever
\* the client sends or leaves unsent.  It does read what it is sent: a write to it comes to an end
Ends == (stop \/ alive # Upstream \/ ~open) ~> pc = "end"

=============================================================================
