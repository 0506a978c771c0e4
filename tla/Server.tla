------------------------------- MODULE Server -------------------------------
(***************************************************************************)
(* The server's registry of proxies, configuration reload and shutdown     *)
(* (server.go, api.go, the connection loop's part in them).                *)
(*                                                                         *)
(* Every accepted connection has a goroutine (handleConnection) that       *)
(* reads the configuration on its way: for the hash it is stamped with,    *)
(* and, after the handshake, for the upstreams it connects to.  A reload   *)
(* (SIGHUP or the API) replaces the configuration and starts a goroutine   *)
(* that walks the registry and cancels the proxies stamped with another    *)
(* hash.  Proxies notice that they are cancelled only between two client   *)
(* frames.                                                                 *)
(***************************************************************************)
EXTENDS Naturals, FiniteSets

CONSTANTS
  Conn,       \* client connections
  Config,     \* configurations; a configuration stands for its hash too
  InitConfig, \* the one the server starts with
  NoConfig,   \* none yet
  MaxReload,  \* bound: reloads in a behaviour
  Repeat,     \* may a reload bring back an earlier configuration?
  Stops       \* does the server get SIGTERM?

ASSUME ServerAssumption ==
  /\ InitConfig \in Config
  /\ NoConfig \notin Config
  /\ MaxReload \in Nat
  /\ Repeat \in BOOLEAN
  /\ Stops \in BOOLEAN

Reload == 1 .. MaxReload
Stop   == 0                  \* the job that disconnects everyone on SIGTERM
Job    == Reload \cup {Stop}

VARIABLES
  config,    \* Server.config and configHash, always written together
  loaded,    \* configurations ever loaded
  ctxDone,   \* is the context of the process cancelled?
  listening, \* is the listener open?
  exited,    \* has main returned?
  \* each connection's goroutine
  cpc,       \* where it is
  hash,      \* hash[p]: Proxy.configHash
  ups,       \* ups[p]: the configuration whose upstreams p connects to
  active,    \* activeProxies
  cancelled, \* cancelled[p]: is p's context cancelled?
  lost,      \* lost[p]: upstreamDisconnect holds a message
  told,      \* the proxies that have sent Connection.Close
  \* each reload, and the goroutine of disconnectProxies it starts
  jpc,       \* where it is
  jcfg,      \* jcfg[j]: the configuration it loaded
  must,      \* must[j]: the proxies registered when its walk began
  seen,      \* seen[j]: the proxies its walk has visited
  targets    \* targets[j]: the proxies it has yet to cancel

serverVars == <<config, loaded, ctxDone, listening, exited>>
connVars == <<cpc, hash, ups, active, cancelled, lost, told>>
jobVars == <<jpc, jcfg, must, seen, targets>>
vars == <<serverVars, connVars, jobVars>>

\* The ranges of the variables.
TypeOK ==
  /\ config \in Config
  /\ loaded \subseteq Config
  /\ ctxDone \in BOOLEAN /\ listening \in BOOLEAN /\ exited \in BOOLEAN
  /\ cpc \in [Conn -> {"none", "header", "handshake", "registered", "connecting",
                       "loop", "read", "shutdown", "closing", "gone"}]
  /\ hash \in [Conn -> Config \cup {NoConfig}]
  /\ ups \in [Conn -> Config \cup {NoConfig}]
  /\ active \subseteq Conn
  /\ cancelled \in [Conn -> BOOLEAN]
  /\ lost \in [Conn -> BOOLEAN]
  /\ told \subseteq Conn
  /\ jpc \in [Job -> {"none", "update", "spawned", "walk", "cancel", "done"}]
  /\ jcfg \in [Job -> Config \cup {NoConfig}]
  /\ must \in [Job -> SUBSET Conn]
  /\ seen \in [Job -> SUBSET Conn]
  /\ targets \in [Job -> SUBSET Conn]

Init ==
  /\ config = InitConfig /\ loaded = {InitConfig}
  /\ ctxDone = FALSE /\ listening = TRUE /\ exited = FALSE
  /\ cpc = [p \in Conn |-> "none"]
  /\ hash = [p \in Conn |-> NoConfig]
  /\ ups = [p \in Conn |-> NoConfig]
  /\ active = {}
  /\ cancelled = [p \in Conn |-> FALSE]
  /\ lost = [p \in Conn |-> FALSE]
  /\ told = {}
  /\ jpc = [j \in Job |-> "none"]
  /\ jcfg = [j \in Job |-> NoConfig]
  /\ must = [j \in Job |-> {}]
  /\ seen = [j \in Job |-> {}]
  /\ targets = [j \in Job |-> {}]

\* Connection p moves on from one place to another.
Goes(p, from, to) ==
  /\ cpc[p] = from
  /\ cpc' = [cpc EXCEPT ![p] = to]

-----------------------------------------------------------------------------
(* handleConnection.                                                       *)

\* boot accepts a connection, also after SIGTERM as long as the listener is open.
Accept(p) ==
  /\ listening
  /\ Goes(p, "none", "header")
  /\ UNCHANGED <<serverVars, jobVars, hash, ups, active, cancelled, lost, told>>

\* No AMQP header, or a wrong one: the socket is closed, there is no proxy.
HeaderFail(p) ==
  /\ Goes(p, "header", "gone")
  /\ UNCHANGED <<serverVars, jobVars, hash, ups, active, cancelled, lost, told>>

\* NewProxy stamps the proxy with the hash of the configuration.
NewProxy(p) ==
  /\ Goes(p, "header", "handshake")
  /\ hash' = [hash EXCEPT ![p] = config]
  /\ UNCHANGED <<serverVars, jobVars, ups, active, cancelled, lost, told>>

\* handshake fails: the deferred calls run for a proxy that was never registered.
HandshakeFail(p) ==
  /\ Goes(p, "handshake", "closing")
  /\ UNCHANGED <<serverVars, jobVars, hash, ups, active, cancelled, lost, told>>

\* After the handshake: RegisterProxy.
RegisterProxy(p) ==
  /\ Goes(p, "handshake", "registered")
  /\ active' = active \cup {p}
  /\ UNCHANGED <<serverVars, jobVars, hash, ups, cancelled, lost, told>>

\* Mutant of ConnectToUpstreams: the configuration the proxy was made with.
ConnectToUpstreamsOld(p) ==
  /\ Goes(p, "registered", "connecting")
  /\ ups' = [ups EXCEPT ![p] = hash[p]]
  /\ UNCHANGED <<serverVars, jobVars, hash, active, cancelled, lost, told>>

\* ConnectToUpstreams is called with the upstreams of the configuration of now.
ConnectToUpstreams(p) ==
  /\ Goes(p, "registered", "connecting")
  /\ ups' = [ups EXCEPT ![p] = config]
  /\ UNCHANGED <<serverVars, jobVars, hash, active, cancelled, lost, told>>

\* No address of an upstream answers.
ConnectFail(p) ==
  /\ Goes(p, "connecting", "closing")
  /\ UNCHANGED <<serverVars, jobVars, hash, ups, active, cancelled, lost, told>>

ConnectDone(p) ==
  /\ Goes(p, "connecting", "loop")
  /\ UNCHANGED <<serverVars, jobVars, hash, ups, active, cancelled, lost, told>>

\* The top of the loop: a cancelled proxy sends Connection.Close and waits for
\* Connection.Close-Ok (shutdown),
LoopShutdown(p) ==
  /\ ctxDone \/ cancelled[p]
  /\ Goes(p, "loop", "shutdown")
  /\ told' = told \cup {p}
  /\ UNCHANGED <<serverVars, jobVars, hash, ups, active, cancelled, lost>>

\* one that lost an upstream does so too (sendConnectionError),
LoopUpstreamLost(p) ==
  /\ lost[p]
  /\ Goes(p, "loop", "shutdown")
  /\ told' = told \cup {p}
  /\ UNCHANGED <<serverVars, jobVars, hash, ups, active, cancelled, lost>>

\* Mutant of LoopRead: nothing is looked at before the next frame.
LoopReadAlways(p) ==
  /\ Goes(p, "loop", "read")
  /\ UNCHANGED <<serverVars, jobVars, hash, ups, active, cancelled, lost, told>>

\* and any other waits for a client frame.
LoopRead(p) ==
  /\ ~ctxDone /\ ~cancelled[p] /\ ~lost[p]
  /\ Goes(p, "loop", "read")
  /\ UNCHANGED <<serverVars, jobVars, hash, ups, active, cancelled, lost, told>>

\* A frame is processed, or none came within processTimeout.
ReadDone(p) ==
  /\ Goes(p, "read", "loop")
  /\ UNCHANGED <<serverVars, jobVars, hash, ups, active, cancelled, lost, told>>

\* process fails: end of file, or an error that is no AMQPError.
ReadFail(p) ==
  /\ Goes(p, "read", "closing")
  /\ UNCHANGED <<serverVars, jobVars, hash, ups, active, cancelled, lost, told>>

\* Connection.Close-Ok has come, or something else, or nothing in time.
ShutdownDone(p) ==
  /\ Goes(p, "shutdown", "closing")
  /\ UNCHANGED <<serverVars, jobVars, hash, ups, active, cancelled, lost, told>>

\* The deferred calls: the proxy's context, UnregisterProxy, Proxy.Close, conn.Close;
\* the proxy is forgotten.
UnregisterProxy(p) ==
  /\ Goes(p, "closing", "gone")
  /\ active' = active \ {p}
  /\ hash' = [hash EXCEPT ![p] = NoConfig]
  /\ ups' = [ups EXCEPT ![p] = NoConfig]
  /\ cancelled' = [cancelled EXCEPT ![p] = TRUE]
  /\ lost' = [lost EXCEPT ![p] = FALSE]
  /\ told' = told \ {p}
  /\ UNCHANGED <<serverVars, jobVars>>

\* MonitorUpstreamConnection sees an upstream connection end; it watches the first
\* upstream while the others are still being connected.
UpstreamLost(p) ==
  /\ cpc[p] \in {"connecting", "loop", "read"}
  /\ ~lost[p]
  /\ lost' = [lost EXCEPT ![p] = TRUE]
  /\ UNCHANGED <<serverVars, jobVars, cpc, hash, ups, active, cancelled, told>>

\* ShutdownProxy, from the API.
ShutdownProxy(p) ==
  /\ p \in active
  /\ ~cancelled[p]
  /\ cancelled' = [cancelled EXCEPT ![p] = TRUE]
  /\ UNCHANGED <<serverVars, jobVars, cpc, hash, ups, active, lost, told>>

-----------------------------------------------------------------------------
(* Reload: reloadConfigFromFile and apiPutConfigHandler, which do the same.*)

\* A configuration is loaded and found valid.
Load(j, c) ==
  /\ jpc[j] = "none"
  /\ \A k \in Reload : k < j => jpc[k] # "none"
  /\ Repeat \/ c \notin loaded
  /\ loaded' = loaded \cup {c}
  /\ jpc' = [jpc EXCEPT ![j] = "update"]
  /\ jcfg' = [jcfg EXCEPT ![j] = c]
  /\ UNCHANGED <<config, ctxDone, listening, exited, connVars, must, seen, targets>>

\* UpdateConfig; then disconnectOutdatedProxies starts its goroutine.
UpdateConfig(j) ==
  /\ jpc[j] = "update"
  /\ config' = jcfg[j]
  /\ jpc' = [jpc EXCEPT ![j] = "spawned"]
  /\ UNCHANGED <<loaded, ctxDone, listening, exited, connVars, jcfg, must, seen, targets>>

\* disconnectProxies begins to walk the registry.
WalkBegin(j) ==
  /\ jpc[j] = "spawned"
  /\ jpc' = [jpc EXCEPT ![j] = "walk"]
  /\ must' = [must EXCEPT ![j] = active]
  /\ UNCHANGED <<serverVars, connVars, jcfg, seen, targets>>

\* The filters of disconnectOutdatedProxies and disconnectAllProxies.
Outdated(j, p) == j = Stop \/ hash[p] # jcfg[j]

\* sync.Map.Range visits each registered proxy at most once.
WalkVisit(j, p) ==
  /\ jpc[j] = "walk"
  /\ p \in active \ seen[j]
  /\ seen' = [seen EXCEPT ![j] = @ \cup {p}]
  /\ targets' = IF Outdated(j, p) THEN [targets EXCEPT ![j] = @ \cup {p}] ELSE targets
  /\ UNCHANGED <<serverVars, connVars, jpc, jcfg, must>>

\* It misses none that was there all the time; the ones that come while it walks it
\* may miss.
WalkEnd(j) ==
  /\ jpc[j] = "walk"
  /\ must[j] \cap active \subseteq seen[j]
  /\ jpc' = [jpc EXCEPT ![j] = "cancel"]
  /\ must' = [must EXCEPT ![j] = {}]
  /\ seen' = [seen EXCEPT ![j] = {}]
  /\ UNCHANGED <<serverVars, connVars, jcfg, targets>>

\* Mutant of CancelOne: a target that has unregistered meanwhile is left alone.
CancelOneActive(j, p) ==
  /\ jpc[j] = "cancel"
  /\ p \in targets[j] \cap active
  /\ cancelled' = [cancelled EXCEPT ![p] = TRUE]
  /\ targets' = [targets EXCEPT ![j] = @ \ {p}]
  /\ UNCHANGED <<serverVars, cpc, hash, ups, active, lost, told,
                 jpc, jcfg, must, seen>>

\* A worker calls a target's cancel function.  The caller may have stopped waiting
\* (timeout); the workers go on.
CancelOne(j, p) ==
  /\ jpc[j] = "cancel"
  /\ p \in targets[j]
  /\ cancelled' = [cancelled EXCEPT ![p] = TRUE]
  /\ targets' = [targets EXCEPT ![j] = @ \ {p}]
  /\ UNCHANGED <<serverVars, cpc, hash, ups, active, lost, told,
                 jpc, jcfg, must, seen>>

\* All targets are cancelled: the goroutine reports their number.
JobDone(j) ==
  /\ jpc[j] = "cancel"
  /\ targets[j] = {}
  /\ jpc' = [jpc EXCEPT ![j] = "done"]
  /\ UNCHANGED <<serverVars, connVars, jcfg, must, seen, targets>>

-----------------------------------------------------------------------------
(* Shutdown: boot and main.                                                *)

\* SIGTERM or SIGINT: main cancels the context.
SigTerm ==
  /\ Stops
  /\ ~ctxDone
  /\ ctxDone' = TRUE
  /\ UNCHANGED <<config, loaded, listening, exited, connVars, jobVars>>

\* boot's goroutine closes the listener, then starts disconnectAllProxies.
CloseListener ==
  /\ ctxDone /\ listening
  /\ listening' = FALSE
  /\ jpc' = [jpc EXCEPT ![Stop] = "spawned"]
  /\ UNCHANGED <<config, loaded, ctxDone, exited, connVars, jcfg, must, seen, targets>>

\* boot's loop finds the listener closed and returns; run and main return.
Exit ==
  /\ ctxDone /\ ~listening
  /\ exited' = TRUE
  /\ UNCHANGED <<config, loaded, ctxDone, listening, connVars, jobVars>>

-----------------------------------------------------------------------------
\* What a connection's goroutine does by itself.
ConnNext(p) ==
  \/ NewProxy(p) \/ RegisterProxy(p)
  \/ ConnectToUpstreams(p) \/ ConnectFail(p) \/ ConnectDone(p)
  \/ LoopShutdown(p) \/ LoopUpstreamLost(p) \/ LoopRead(p)
  \/ ReadDone(p) \/ ReadFail(p)
  \/ ShutdownDone(p) \/ UnregisterProxy(p)

JobNext(j) ==
  \/ UpdateConfig(j) \/ WalkBegin(j) \/ WalkEnd(j) \/ JobDone(j)
  \/ \E p \in Conn : WalkVisit(j, p) \/ CancelOne(j, p)

Next ==
  /\ ~exited
  /\ \/ \E p \in Conn : \/ Accept(p) \/ HeaderFail(p) \/ HandshakeFail(p)
                        \/ ConnNext(p) \/ UpstreamLost(p) \/ ShutdownProxy(p)
     \/ \E j \in Reload, c \in Config : Load(j, c)
     \/ \E j \in Job : JobNext(j)
     \/ SigTerm \/ CloseListener \/ Exit

Spec == Init /\ [][Next]_vars

\* The goroutines run.  A read returns: processTimeout bounds it.
Fairness ==
  /\ \A p \in Conn : WF_vars(~exited /\ ConnNext(p))
  /\ \A j \in Job : WF_vars(~exited /\ JobNext(j))

FairSpec == Spec /\ Fairness

-----------------------------------------------------------------------------
(* Properties.                                                             *)

\* p is connected, or connecting, to upstreams of a configuration that is not the
\* server's.
Stale(p) == cpc[p] \in {"connecting", "loop", "read"} /\ ups[p] # config

\* A goroutine of disconnectProxies is still going to cancel p.
Doomed(p) ==
  \E j \in Reload :
    \/ jpc[j] = "spawned" /\ hash[p] # jcfg[j]
    \/ jpc[j] = "walk" /\ p \in must[j] \ seen[j] /\ hash[p] # jcfg[j]
    \/ p \in targets[j]

\* No proxy slips through a reload: one that uses the upstreams of an old
\* configuration has been cancelled or is going to be, wherever between NewProxy,
\* RegisterProxy and ConnectToUpstreams the reload met it, and however reloads
\* overlap.
StaleIsDoomed == \A p \in Conn : Stale(p) => cancelled[p] \/ Doomed(p)

\* And so it ends, if its configuration is not current again by then.
StaleEnds ==
  \A p \in Conn : Stale(p) ~> (~Stale(p) \/ exited)

\* A cancelled proxy ends, unless the process ends first.
CancelledEnds ==
  \A p \in Conn : cancelled[p] ~> (cpc[p] = "gone" \/ exited)

\* Together: whoever is to go goes.
DoomedEnd == StaleEnds /\ CancelledEnds

\* The goroutines of all reloads come to their end, though proxies register while one
\* walks and its targets may leave by themselves before it has come to them.  Until then one
\* may cancel a proxy made for a newer configuration, since it compares with the hash
\* it was started with (disconnectOutdatedProxies).
ReloadSettles ==
  <>[](exited \/ \A j \in Reload : jpc[j] \in {"none", "done"})

\* On SIGTERM every registered client is sent Connection.Close before the process ends.
ExitGraceful ==
  exited => \A p \in active : p \in told
=============================================================================
