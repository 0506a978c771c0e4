------------------------------- MODULE Queues -------------------------------
(***************************************************************************)
(* The queues of a client on all upstreams, and the clean-up at the end of *)
(* its connection (upstream.go; replyQueueDeclare and replyQueueDelete in  *)
(* methods.go; Proxy.Close).                                               *)
(*                                                                         *)
(* A proxy declares a client's queue on one upstream after the other, with *)
(* the attributes of the client as the configuration overrides them.       *)
(* Queues with a generated name, and queues whose auto_delete flag the     *)
(* configuration takes away and that are to be emulated, are noted in      *)
(* Upstream.destruct; Upstream.Close deletes them over a channel of the    *)
(* connection before it closes the connection.  The attributes durable,    *)
(* auto_delete and exclusive and each argument of a declaration are a      *)
(* Flag.  Consumers, and so what a broker does for a real auto_delete,     *)
(* are not modelled here.                                                  *)
(***************************************************************************)
EXTENDS Naturals, Sequences, FiniteSets

CONSTANTS
  Proxy,      \* client connections
  Chan,       \* numbers of the channels a client opens
  Name,       \* queue names the clients choose
  N,          \* number of upstreams
  Flag,       \* queue attributes
  ForceOn,    \* the attributes that queue_attributes sets,
  ForceOff,   \* and the ones it takes away
  TryPassive, \* the upstreams with queue_options.try_passive,
  Emulate,    \* and the ones with queue_options.emulate_auto_delete
  Ask,        \* sets of attributes the clients ask for
  MaxRequest, \* bound: requests of the clients about queues
  MaxBreak    \* bound: channels and connections that the brokers break off

ASSUME QueuesAssumption ==
  /\ IsFiniteSet(Proxy)
  /\ Proxy \cap Name = {}
  /\ N \in Nat \ {0}
  /\ {"autoDelete", "exclusive"} \subseteq Flag
  /\ ForceOn \subseteq Flag /\ ForceOff \subseteq Flag /\ ForceOn \cap ForceOff = {}
  /\ TryPassive \subseteq 0 .. N - 1 /\ Emulate \subseteq 0 .. N - 1
  /\ Ask \subseteq SUBSET Flag
  /\ MaxRequest \in Nat /\ MaxBreak \in Nat

Upstream == 0 .. N - 1

\* The name that is generated for the client of p goes by p; a later request for p is
\* one that uses the generated name.
QName == Name \cup Proxy

\* A queue at a broker: its attributes, the proxy that made it, and what that proxy's
\* client had asked for.
QueueRec == [flags : SUBSET Flag, by : Proxy, asked : SUBSET Flag]
NoQueue  == [flags |-> {}]

\* The main goroutine has no request in hand.
Idle == [flags |-> {}]

VARIABLES
  \* each proxy
  pc,        \* where its main goroutine is
  i,         \* i[p]: the upstream that its loop has come to
  req,       \* req[p]: the request in hand, or that none is
  chan,      \* chan[p][u][c]: the channel in Upstream.channel
  conn,      \* conn[p][u]: the upstream connection
  destruct,  \* destruct[p][u]: Upstream.destruct, the queues it is to delete
  gauge,     \* gauge[u]: the gauge UpstreamConnections
  \* the clients and the brokers
  requests,  \* requests so far
  breaks,    \* channels and connections broken off so far
  queue,     \* queue[u][q]
  \* the past
  wanted,    \* names that some client has declared with auto_delete or deleted
  noted      \* noted[p][u]: the queues that were ever in destruct[p][u]

proxyVars == <<pc, i, req, requests, breaks>>
upVars == <<chan, conn, destruct, gauge>>
vars == <<proxyVars, upVars, queue, wanted, noted>>

\* The ranges of the variables.
TypeOK ==
  /\ pc \in [Proxy -> {"new", "idle", "declare", "note", "delete", "closing", "destruct",
                       "closed"}]
  /\ i \in [Proxy -> 0 .. N]
  /\ req \in [Proxy -> {Idle} \cup [chan : Chan, name : QName, flags : SUBSET Flag]
                             \cup [chan : Chan]]
  /\ requests \in 0 .. MaxRequest /\ breaks \in 0 .. MaxBreak
  /\ chan \in [Proxy -> [Upstream -> [Chan -> {"none", "open", "dead"}]]]
  /\ conn \in [Proxy -> [Upstream -> {"none", "up", "lost", "closed"}]]
  /\ destruct \in [Proxy -> [Upstream -> Seq(QName)]]
  /\ gauge \in [Upstream -> 0 .. Cardinality(Proxy)]
  /\ queue \in [Upstream -> [QName -> QueueRec \cup {NoQueue}]]
  /\ wanted \subseteq QName
  /\ noted \in [Proxy -> [Upstream -> SUBSET QName]]

Init ==
  /\ pc = [p \in Proxy |-> "new"]
  /\ i = [p \in Proxy |-> 0]
  /\ req = [p \in Proxy |-> Idle]
  /\ requests = 0 /\ breaks = 0
  /\ chan = [p \in Proxy |-> [u \in Upstream |-> [c \in Chan |-> "none"]]]
  /\ conn = [p \in Proxy |-> [u \in Upstream |-> "none"]]
  /\ destruct = [p \in Proxy |-> [u \in Upstream |-> <<>>]]
  /\ gauge = [u \in Upstream |-> 0]
  /\ queue = [u \in Upstream |-> [q \in QName |-> NoQueue]]
  /\ wanted = {}
  /\ noted = [p \in Proxy |-> [u \in Upstream |-> {}]]

-----------------------------------------------------------------------------
(* The decisions of an upstream.                                           *)

\* QueueDeclareArgs: a generated name has the attributes of amq.gen queues, any
\* other what the client asked for and the configuration overrides.
QueueDeclareArgs(name, flags) ==
  IF name \in Proxy THEN {"autoDelete", "exclusive"} ELSE (flags \ ForceOff) \cup ForceOn

\* Mutant of ShouldEmulateAutoDelete: whether the client asked is not looked at.
ShouldEmulateAnyway(u, flags) == u \in Emulate /\ "autoDelete" \in ForceOff

\* shouldEmulateAutoDelete: the client asked for auto_delete, the configuration says no.
ShouldEmulateAutoDelete(u, flags) ==
  u \in Emulate /\ "autoDelete" \in flags /\ "autoDelete" \in ForceOff

-----------------------------------------------------------------------------
(* A broker.                                                               *)

\* It lets p use the queue q: an exclusive queue is only for the connection it is of.
Allows(p, u, q) ==
  queue[u][q] # NoQueue /\ "exclusive" \in queue[u][q].flags => queue[u][q].by = p

\* It takes the declaration of a queue that is there if the attributes are the same.
Accepts(p, u, q, flags) ==
  queue[u][q] # NoQueue /\ queue[u][q].flags = flags /\ Allows(p, u, q)

\* The queues after p has declared q with these attributes.
Declared(p, u, q, flags) ==
  IF queue[u][q] # NoQueue THEN queue
  ELSE [queue EXCEPT ![u][q] = [flags |-> flags, by |-> p, asked |-> req[p].flags]]

\* The queues after the connection of p to u has ended.
Dropped(p, u) ==
  [queue EXCEPT ![u] = [q \in QName |->
     IF @[q] # NoQueue /\ "exclusive" \in @[q].flags /\ @[q].by = p THEN NoQueue ELSE @[q]]]

-----------------------------------------------------------------------------
(* Setting up.                                                             *)

\* One turn of ConnectToUpstreams: the connection is made, NewUpstream.
ConnectUpstream(p) ==
  /\ pc[p] = "new" /\ i[p] < N
  /\ conn' = [conn EXCEPT ![p][i[p]] = "up"]
  /\ gauge' = [gauge EXCEPT ![i[p]] = @ + 1]
  /\ i' = [i EXCEPT ![p] = @ + 1]
  /\ UNCHANGED <<pc, req, requests, breaks, chan, destruct, queue, wanted, noted>>

\* No node of the upstream takes the connection: the handler gives up.
ConnectFail(p) ==
  /\ pc[p] = "new" /\ i[p] < N
  /\ pc' = [pc EXCEPT ![p] = "closing"]
  /\ i' = [i EXCEPT ![p] = 0]
  /\ UNCHANGED <<req, requests, breaks, upVars, queue, wanted, noted>>

\* All upstreams are connected: the main loop begins.
ConnectDone(p) ==
  /\ pc[p] = "new" /\ i[p] = N
  /\ pc' = [pc EXCEPT ![p] = "idle"]
  /\ i' = [i EXCEPT ![p] = 0]
  /\ UNCHANGED <<req, requests, breaks, upVars, queue, wanted, noted>>

\* Channel.Open.  NewChannel goes from upstream to upstream; a lost connection is an
\* error, which ends the main loop with the channels before it opened.
ChannelOpen(p, c) ==
  LET lost == {u \in Upstream : conn[p][u] = "lost"}
      opens == {u \in Upstream : \A v \in lost : u < v}
  IN
  /\ pc[p] = "idle"
  /\ \A u \in Upstream : chan[p][u][c] = "none"
  /\ chan' = [chan EXCEPT ![p] =
                [u \in Upstream |-> IF u \in opens THEN [@[u] EXCEPT ![c] = "open"] ELSE @[u]]]
  /\ pc' = IF lost = {} THEN pc ELSE [pc EXCEPT ![p] = "closing"]
  /\ UNCHANGED <<i, req, requests, breaks, conn, destruct, gauge, queue, wanted, noted>>

\* Channel.Close (CloseChannel; closing a dead channel succeeds).
ChannelClose(p, c) ==
  /\ pc[p] = "idle"
  /\ \A u \in Upstream : chan[p][u][c] # "none"
  /\ chan' = [chan EXCEPT ![p] = [u \in Upstream |-> [@[u] EXCEPT ![c] = "none"]]]
  /\ UNCHANGED <<proxyVars, conn, destruct, gauge, queue, wanted, noted>>

\* A request about a queue, on a channel that is open.
Request(p, c, q, flags, to) ==
  /\ pc[p] = "idle"
  /\ \A u \in Upstream : chan[p][u][c] # "none"
  /\ q \in Name \cup {p}
  /\ requests < MaxRequest
  /\ requests' = requests + 1
  /\ req' = [req EXCEPT ![p] = [chan |-> c, name |-> q, flags |-> flags]]
  /\ pc' = [pc EXCEPT ![p] = to]
  /\ UNCHANGED <<i, breaks, upVars, queue, noted>>

\* A request is done with.
Ends(p, to) ==
  /\ pc' = [pc EXCEPT ![p] = to]
  /\ i' = [i EXCEPT ![p] = 0]
  /\ req' = [req EXCEPT ![p] = Idle]

-----------------------------------------------------------------------------
(* Queue.Declare.                                                          *)

QueueDeclare(p, c, q, flags) ==
  /\ Request(p, c, q, flags, "declare")
  /\ wanted' = IF "autoDelete" \in flags THEN wanted \cup {q} ELSE wanted

\* The channel that the request in hand uses at u.
ReqChan(p, u) == chan[p][u][req[p].chan]

\* The first declaration of try_passive is not passive: the flag that it sets is
\* no-wait, and it has no attributes.  The library reports success before the broker
\* has looked; if the broker does not take it, it closes the channel.
DeclareTryPassive(p, u, q) ==
  /\ u \in TryPassive
  /\ queue' = Declared(p, u, q, {})
  /\ chan' = IF queue[u][q] = NoQueue \/ Accepts(p, u, q, {}) THEN chan
             ELSE [chan EXCEPT ![p][u][req[p].chan] = "dead"]

\* Otherwise the queue is declared with the configured attributes: the broker makes it
\* or finds it to be the same.
DeclareNormal(p, u, q, flags) ==
  /\ u \notin TryPassive
  /\ queue[u][q] = NoQueue \/ Accepts(p, u, q, flags)
  /\ queue' = Declared(p, u, q, flags)
  /\ UNCHANGED chan

\* QueueDeclareWithTryPassive, up to the broker's answer.
DeclareUpstream(p) ==
  LET u == i[p]
      q == req[p].name
  IN
  /\ pc[p] = "declare" /\ u < N
  /\ ReqChan(p, u) = "open"
  /\ \/ DeclareTryPassive(p, u, q)
     \/ DeclareNormal(p, u, q, QueueDeclareArgs(q, req[p].flags))
  /\ pc' = [pc EXCEPT ![p] = "note"]
  /\ UNCHANGED <<i, req, requests, breaks, conn, destruct, gauge, wanted, noted>>

\* RegisterEmulatedAutoDeleteQueue, which the early return of try_passive leaves out,
\* and CleanupAutoGeneratedQueue.
DeclareNote(p) ==
  LET u == i[p]
      q == req[p].name
      notes == q \in Proxy \/ (u \notin TryPassive /\ ShouldEmulateAutoDelete(u, req[p].flags))
  IN
  /\ pc[p] = "note"
  /\ destruct' = IF notes THEN [destruct EXCEPT ![p][u] = Append(@, q)] ELSE destruct
  /\ noted' = IF notes THEN [noted EXCEPT ![p][u] = @ \cup {q}] ELSE noted
  /\ i' = [i EXCEPT ![p] = u + 1]
  /\ pc' = [pc EXCEPT ![p] = "declare"]
  /\ UNCHANGED <<req, requests, breaks, chan, conn, gauge, queue, wanted>>

\* Mutant of DeclareFail: an upstream that refuses is skipped.
DeclareFailSkips(p) ==
  LET u == i[p]
      q == req[p].name
  IN
  /\ pc[p] = "declare" /\ u < N
  /\ \/ ReqChan(p, u) = "dead"
     \/ /\ u \notin TryPassive /\ queue[u][q] # NoQueue
        /\ ~Accepts(p, u, q, QueueDeclareArgs(q, req[p].flags))
  /\ chan' = [chan EXCEPT ![p][u][req[p].chan] = "dead"]
  /\ i' = [i EXCEPT ![p] = u + 1]
  /\ UNCHANGED <<pc, req, requests, breaks, conn, destruct, gauge, queue, wanted, noted>>

\* The broker refuses the declaration, which costs the channel, or the channel is dead
\* already: a plain error, which ends the main loop.
DeclareFail(p) ==
  LET u == i[p]
      q == req[p].name
  IN
  /\ pc[p] = "declare" /\ u < N
  /\ \/ ReqChan(p, u) = "dead"
     \/ /\ u \notin TryPassive /\ queue[u][q] # NoQueue
        /\ ~Accepts(p, u, q, QueueDeclareArgs(q, req[p].flags))
  /\ chan' = [chan EXCEPT ![p][u][req[p].chan] = "dead"]
  /\ Ends(p, "closing")
  /\ UNCHANGED <<requests, breaks, conn, destruct, gauge, queue, wanted, noted>>

-----------------------------------------------------------------------------
(* Queue.Delete.                                                           *)

QueueDelete(p, c, q) ==
  /\ Request(p, c, q, {}, "delete")
  /\ wanted' = wanted \cup {q}

\* The broker deletes the queue; deleting one that is not there succeeds.  What
\* Upstream.destruct holds stays.
DeleteUpstream(p) ==
  LET u == i[p]
      q == req[p].name
  IN
  /\ pc[p] = "delete" /\ u < N
  /\ ReqChan(p, u) = "open" /\ Allows(p, u, q)
  /\ queue' = [queue EXCEPT ![u][q] = NoQueue]
  /\ i' = [i EXCEPT ![p] = u + 1]
  /\ UNCHANGED <<pc, req, requests, breaks, upVars, wanted, noted>>

\* It refuses, or the channel is dead: the client is told, and the main loop goes on
\* with what the client has sent meanwhile.
DeleteFail(p) ==
  LET u == i[p] IN
  /\ pc[p] = "delete" /\ u < N
  /\ ReqChan(p, u) = "dead" \/ ~Allows(p, u, req[p].name)
  /\ chan' = [chan EXCEPT ![p][u][req[p].chan] = "dead"]
  /\ Ends(p, "idle")
  /\ UNCHANGED <<requests, breaks, conn, destruct, gauge, queue, wanted, noted>>

\* Queue.Declare-Ok or Queue.Delete-Ok.
RequestOk(p) ==
  /\ pc[p] \in {"declare", "delete"} /\ i[p] = N
  /\ Ends(p, "idle")
  /\ UNCHANGED <<requests, breaks, upVars, queue, wanted, noted>>

-----------------------------------------------------------------------------
(* The end of the connection.                                              *)

\* The main loop ends: the client has left, the proxy was cancelled, or an upstream
\* connection was lost.
Leave(p) ==
  /\ pc[p] = "idle"
  /\ pc' = [pc EXCEPT ![p] = "closing"]
  /\ UNCHANGED <<i, req, requests, breaks, upVars, queue, wanted, noted>>

\* Upstream.Close takes any channel of the map, dead or not; if there is none it opens
\* one (whose number is that of a free one).
CloseBegin(p) ==
  LET u == i[p]
      have == {c \in Chan : chan[p][u][c] # "none"}
  IN
  /\ pc[p] = "closing" /\ u < N
  /\ \E c \in IF have # {} THEN have ELSE Chan :
       /\ chan[p][u][c] = "none" => conn[p][u] = "up"
       /\ chan' = [chan EXCEPT ![p][u][c] = IF @ = "none" THEN "open" ELSE @]
       /\ req' = [req EXCEPT ![p] = [chan |-> c]]
  /\ conn[p][u] # "none"
  /\ pc' = [pc EXCEPT ![p] = "destruct"]
  /\ UNCHANGED <<i, requests, breaks, conn, destruct, gauge, queue, wanted, noted>>

\* It cannot open one: it returns at once, without the gauge and the destructors.
CloseFail(p) ==
  LET u == i[p] IN
  /\ pc[p] = "closing" /\ u < N
  /\ \A c \in Chan : chan[p][u][c] = "none"
  /\ conn[p][u] = "lost"
  /\ i' = [i EXCEPT ![p] = u + 1]
  /\ UNCHANGED <<pc, req, requests, breaks, upVars, queue, wanted, noted>>

\* Mutant of Destruct: the function in hand is called, the list is then dropped.
DestructOne(p) ==
  LET u == i[p]
      q == Head(destruct[p][u])
  IN
  /\ pc[p] = "destruct" /\ destruct[p][u] # <<>>
  /\ IF ReqChan(p, u) = "open" /\ Allows(p, u, q)
     THEN queue' = [queue EXCEPT ![u][q] = NoQueue] /\ UNCHANGED chan
     ELSE chan' = [chan EXCEPT ![p][u][req[p].chan] = "dead"] /\ UNCHANGED queue
  /\ destruct' = [destruct EXCEPT ![p][u] = <<>>]
  /\ UNCHANGED <<proxyVars, conn, gauge, wanted, noted>>

\* One function of Upstream.destruct deletes its queue.  A failure is only logged, but
\* it costs the channel.
Destruct(p) ==
  LET u == i[p]
      q == Head(destruct[p][u])
  IN
  /\ pc[p] = "destruct" /\ destruct[p][u] # <<>>
  /\ IF ReqChan(p, u) = "open" /\ Allows(p, u, q)
     THEN queue' = [queue EXCEPT ![u][q] = NoQueue] /\ UNCHANGED chan
     ELSE chan' = [chan EXCEPT ![p][u][req[p].chan] = "dead"] /\ UNCHANGED queue
  /\ destruct' = [destruct EXCEPT ![p][u] = Tail(@)]
  /\ UNCHANGED <<proxyVars, conn, gauge, wanted, noted>>

\* The gauge, then the connection; the broker drops its exclusive queues.
CloseConn(p) ==
  LET u == i[p] IN
  /\ pc[p] = "destruct" /\ destruct[p][u] = <<>>
  /\ gauge' = [gauge EXCEPT ![u] = @ - 1]
  /\ conn' = [conn EXCEPT ![p][u] = "closed"]
  /\ queue' = Dropped(p, u)
  /\ pc' = [pc EXCEPT ![p] = "closing"]
  /\ i' = [i EXCEPT ![p] = u + 1]
  /\ req' = [req EXCEPT ![p] = Idle]
  /\ UNCHANGED <<requests, breaks, chan, destruct, wanted, noted>>

\* Proxy.Close has come to the end of the upstreams it has connected.
CloseDone(p) ==
  /\ pc[p] = "closing"
  /\ i[p] < N => conn[p][i[p]] = "none"
  /\ pc' = [pc EXCEPT ![p] = "closed"]
  /\ UNCHANGED <<i, req, requests, breaks, upVars, queue, wanted, noted>>

-----------------------------------------------------------------------------
(* What an upstream may do at any moment.                                  *)

\* A broker closes a channel.
ChannelDies(p, u, c) ==
  /\ breaks < MaxBreak
  /\ conn[p][u] = "up" /\ chan[p][u][c] = "open"
  /\ breaks' = breaks + 1
  /\ chan' = [chan EXCEPT ![p][u][c] = "dead"]
  /\ UNCHANGED <<pc, i, req, requests, conn, destruct, gauge, queue, wanted, noted>>

\* A connection is lost.
ConnDies(p, u) ==
  /\ breaks < MaxBreak
  /\ conn[p][u] = "up"
  /\ breaks' = breaks + 1
  /\ conn' = [conn EXCEPT ![p][u] = "lost"]
  /\ chan' = [chan EXCEPT ![p][u] = [c \in Chan |-> IF @[c] = "open" THEN "dead" ELSE @[c]]]
  /\ queue' = Dropped(p, u)
  /\ UNCHANGED <<pc, i, req, requests, destruct, gauge, wanted, noted>>

Next ==
  \E p \in Proxy :
    \/ ConnectUpstream(p) \/ ConnectFail(p) \/ ConnectDone(p)
    \/ \E c \in Chan : ChannelOpen(p, c) \/ ChannelClose(p, c)
    \/ \E c \in Chan, q \in QName :
         QueueDelete(p, c, q) \/ \E flags \in Ask : QueueDeclare(p, c, q, flags)
    \/ DeclareUpstream(p) \/ DeclareNote(p) \/ DeclareFail(p)
    \/ DeleteUpstream(p) \/ DeleteFail(p) \/ RequestOk(p)
    \/ Leave(p) \/ CloseBegin(p) \/ CloseFail(p) \/ Destruct(p) \/ CloseConn(p) \/ CloseDone(p)
    \/ \E u \in Upstream : ConnDies(p, u) \/ \E c \in Chan : ChannelDies(p, u, c)

Spec == Init /\ [][Next]_vars

-----------------------------------------------------------------------------
(* Properties.                                                             *)

\* When a proxy has closed its connection to an upstream in the regular way and no
\* channel of it there was dead, none of the queues it was to delete is left as the
\* proxy had made it (Upstream.Close, RegisterEmulatedAutoDeleteQueue,
\* CleanupAutoGeneratedQueue).  A dead channel is a real exception: Close may pick it,
\* and then deletes nothing.
CleanedUp ==
  \A p \in Proxy, u \in Upstream :
    conn[p][u] = "closed" /\ (\A c \in Chan : chan[p][u][c] # "dead")
      => \A q \in noted[p][u] : queue[u][q] = NoQueue \/ queue[u][q].by # p

\* No queue of a broker disappears unless its name is generated, the queue is exclusive,
\* or some client has asked for it to be deleted, by Queue.Delete or by auto_delete
\* (shouldEmulateAutoDelete, the functions of Upstream.destruct).
OnlyAskedFor ==
  [][\A u \in Upstream, q \in Name :
       queue[u][q] # NoQueue /\ queue'[u][q] = NoQueue
         => q \in wanted \/ "exclusive" \in queue[u][q].flags]_vars

\* Queue.Declare-Ok means that the client has its queue on every upstream without
\* try_passive: when the loop of replyQueueDeclare is through, the queue is there and
\* open to the client, wherever a broker had refused, a channel died or another client
\* declared the same name meanwhile; unless some client has had the name deleted, or the
\* connection is lost.  (With try_passive the proxy does not wait for the answer.)
DeclaredEverywhere ==
  \A p \in Proxy, u \in Upstream \ TryPassive :
    pc[p] = "declare" /\ i[p] = N
      => \/ queue[u][req[p].name] # NoQueue /\ Allows(p, u, req[p].name)
         \/ req[p].name \in wanted
         \/ conn[p][u] # "up"

\* Every queue that a proxy has made has the attributes that the configuration gives to
\* what its client asked for (README on try_passive: the queue is created "with the
\* configured attributes").  QueueDeclareWithTryPassive does not see to it.
AsConfigured ==
  \A u \in Upstream, q \in QName :
    queue[u][q] # NoQueue => queue[u][q].flags = QueueDeclareArgs(q, queue[u][q].asked)
=============================================================================
