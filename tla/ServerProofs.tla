---------------------------- MODULE ServerProofs ----------------------------
(***************************************************************************)
(* Proofs about Server, for any set of connections and configurations and  *)
(* any number of reloads that overlap: no proxy slips through a reload     *)
(* that brings a new configuration.                                        *)
(***************************************************************************)
EXTENDS Server, TLAPS

\* Where connection goroutines can be: the proxy is not registered yet, it is
\* registered.
Early == {"none", "header", "handshake"}
Running == {"registered", "connecting", "loop", "read", "shutdown"}

\* What the variables of the reloads and of the proxies range over.
TypeServer == config \in Config /\ loaded \subseteq Config
Places == Early \cup Running \cup {"closing", "gone"}
TypeConn ==
  /\ cpc \in [Conn -> Places]
  /\ hash \in [Conn -> Config \cup {NoConfig}]
  /\ ups \in [Conn -> Config \cup {NoConfig}]
  /\ active \subseteq Conn
  /\ cancelled \in [Conn -> BOOLEAN]
TypeJob ==
  /\ jpc \in [Job -> {"none", "update", "spawned", "walk", "cancel", "done"}]
  /\ jcfg \in [Job -> Config \cup {NoConfig}]
  /\ must \in [Job -> SUBSET Conn]
  /\ seen \in [Job -> SUBSET Conn]
  /\ targets \in [Job -> SUBSET Conn]
Types == TypeServer /\ TypeConn /\ TypeJob

\* A proxy is in the registry from RegisterProxy until the deferred calls; nobody
\* has it on a list before.
Registered ==
  \A p \in Conn :
    /\ cpc[p] \in Running => p \in active
    /\ cpc[p] \in Early => p \notin active /\ \A j \in Reload : p \notin targets[j]

\* A job has met no proxy before its walk, and a reload has a configuration once it
\* is past loading.
JobInv ==
  /\ jpc[Stop] # "update"
  /\ \A j \in Reload : jpc[j] \in {"none", "update", "spawned"} => seen[j] = {} /\ targets[j] = {}
  /\ \A j \in Reload : jpc[j] # "none" => jcfg[j] \in Config

WalkInv == Types /\ Registered /\ JobInv

\* Every configuration in use was loaded.
LoadedInv ==
  /\ config \in loaded
  /\ \A p \in Conn : hash[p] \in loaded \cup {NoConfig} /\ ups[p] \in loaded \cup {NoConfig}
  /\ \A j \in Reload : jpc[j] # "none" => jcfg[j] \in loaded

\* Two reloads never bring the same configuration, and nobody has met the one of a
\* reload that has not called UpdateConfig yet.
FreshInv ==
  /\ \A j, k \in Reload : j # k /\ jpc[j] # "none" /\ jpc[k] # "none" => jcfg[j] # jcfg[k]
  /\ \A j \in Reload : jpc[j] = "update" =>
       /\ config # jcfg[j]
       /\ \A p \in Conn : hash[p] # jcfg[j] /\ ups[p] # jcfg[j]

SlipInv == WalkInv /\ LoadedInv /\ FreshInv /\ StaleIsDoomed
-----------------------------------------------------------------------------
(* The registry and the walks.                                             *)

\* Stop is the job of no reload.
LEMMA StopIsNoReload == Stop \notin Reload /\ Job = Reload \cup {Stop}
  BY DEF Stop, Job, Reload

\* The server starts with nothing registered and nothing on a list.
LEMMA WalkInit == Init => WalkInv
  <1> SUFFICES ASSUME Init PROVE WalkInv
    OBVIOUS
  <1>1. Types
    BY ServerAssumption DEF Init, Types, TypeServer, TypeConn, TypeJob, Places, Early, Running
  <1>2. Registered
    BY StopIsNoReload DEF Init, Registered, Running, Early
  <1>3. JobInv
    BY StopIsNoReload DEF Init, JobInv
  <1> QED
    BY <1>1, <1>2, <1>3 DEF WalkInv

\* A connection's goroutine moves on and touches nothing else that matters here.
Moves(p, from, to) ==
  /\ Goes(p, from, to)
  /\ to \in Places
  /\ from \in Running \/ to \notin Running
  /\ from \in Early \/ to \notin Early
  /\ to \in {"connecting", "loop", "read"} => from \in {"connecting", "loop", "read"}
  /\ UNCHANGED <<config, loaded, hash, ups, active, cancelled, jobVars>>

\* The actions of a connection that are such moves.
Moving(p) ==
  \/ Accept(p) \/ HeaderFail(p) \/ HandshakeFail(p)
  \/ ConnectFail(p) \/ ConnectDone(p)
  \/ LoopShutdown(p) \/ LoopUpstreamLost(p) \/ LoopRead(p)
  \/ ReadDone(p) \/ ReadFail(p) \/ ShutdownDone(p)

\* Every step of a connection takes it from one place to another.
LEMMA MovingMoves ==
  ASSUME NEW p \in Conn, Moving(p)
  PROVE  \E from, to : Moves(p, from, to)
  <1> USE DEF Moves, serverVars, Places, Early, Running
  <1>1. Accept(p) => Moves(p, "none", "header")
    BY DEF Accept
  <1>2. HeaderFail(p) => Moves(p, "header", "gone")
    BY DEF HeaderFail
  <1>3. HandshakeFail(p) => Moves(p, "handshake", "closing")
    BY DEF HandshakeFail
  <1>4. ConnectFail(p) => Moves(p, "connecting", "closing")
    BY DEF ConnectFail
  <1>5. ConnectDone(p) => Moves(p, "connecting", "loop")
    BY DEF ConnectDone
  <1>6. LoopShutdown(p) => Moves(p, "loop", "shutdown")
    BY DEF LoopShutdown
  <1>7. LoopUpstreamLost(p) => Moves(p, "loop", "shutdown")
    BY DEF LoopUpstreamLost
  <1>8. LoopRead(p) => Moves(p, "loop", "read")
    BY DEF LoopRead
  <1>9. ReadDone(p) => Moves(p, "read", "loop")
    BY DEF ReadDone
  <1>10. ReadFail(p) => Moves(p, "read", "closing")
    BY DEF ReadFail
  <1>11. ShutdownDone(p) => Moves(p, "shutdown", "closing")
    BY DEF ShutdownDone
  <1> QED
    BY <1>1, <1>2, <1>3, <1>4, <1>5, <1>6, <1>7, <1>8, <1>9, <1>10, <1>11
       DEF Moving

\* A move keeps the lists right.
LEMMA WalkMoves ==
  ASSUME WalkInv, NEW p \in Conn, NEW from, NEW to, Moves(p, from, to)
  PROVE  WalkInv'
  <1> USE DEF WalkInv, Moves, Goes, jobVars
  <1>1. Types'
    BY DEF Types, TypeServer, TypeConn, TypeJob
  <1>2. Registered'
    BY DEF Types, TypeConn, Registered
  <1>3. JobInv'
    BY DEF JobInv
  <1> QED
    BY <1>1, <1>2, <1>3

\* So does everything else a connection's goroutine does, and its being cancelled:
\* it is registered while it runs, and its hash is set only before.
LEMMA WalkConn ==
  ASSUME WalkInv, NEW p \in Conn,
         \/ Accept(p) \/ HeaderFail(p) \/ HandshakeFail(p)
         \/ ConnNext(p) \/ UpstreamLost(p) \/ ShutdownProxy(p)
  PROVE  WalkInv'
  <1> USE StopIsNoReload DEF WalkInv, Goes, serverVars, jobVars
  <1>1. CASE Moving(p)
    BY <1>1, MovingMoves, WalkMoves
  <1>2. CASE NewProxy(p)
    <2>1. Types'
      BY <1>2 DEF NewProxy, Types, TypeServer, TypeConn, TypeJob, Places, Early, Running
    <2>2. Registered'
      BY <1>2 DEF NewProxy, Types, TypeConn, Registered, Early, Running
    <2>3. JobInv'
      BY <1>2 DEF NewProxy, JobInv
    <2> QED
      BY <2>1, <2>2, <2>3
  <1>3. CASE RegisterProxy(p)
    <2>1. Types'
      BY <1>3 DEF RegisterProxy, Types, TypeServer, TypeConn, TypeJob, Places, Early, Running
    <2>2. Registered'
      BY <1>3 DEF RegisterProxy, Types, TypeConn, Registered, Early, Running
    <2>3. JobInv'
      BY <1>3 DEF RegisterProxy, JobInv
    <2> QED
      BY <2>1, <2>2, <2>3
  <1>4. CASE ConnectToUpstreams(p)
    <2>1. Types'
      BY <1>4 DEF ConnectToUpstreams, Types, TypeServer, TypeConn, TypeJob, Places, Early, Running
    <2>2. Registered'
      BY <1>4 DEF ConnectToUpstreams, Types, TypeConn, Registered, Early, Running
    <2>3. JobInv'
      BY <1>4 DEF ConnectToUpstreams, JobInv
    <2> QED
      BY <2>1, <2>2, <2>3
  <1>5. CASE UnregisterProxy(p)
    <2>1. Types'
      BY <1>5 DEF UnregisterProxy, Types, TypeServer, TypeConn, TypeJob, Places, Early, Running
    <2>2. Registered'
      BY <1>5 DEF UnregisterProxy, Types, TypeConn, Registered, Early, Running
    <2>3. JobInv'
      BY <1>5 DEF UnregisterProxy, JobInv
    <2> QED
      BY <2>1, <2>2, <2>3
  <1>6. CASE UpstreamLost(p)
    <2>1. Types'
      BY <1>6 DEF UpstreamLost, Types, TypeServer, TypeConn, TypeJob, Places, Early, Running
    <2>2. Registered'
      BY <1>6 DEF UpstreamLost, Types, TypeConn, Registered, Early, Running
    <2>3. JobInv'
      BY <1>6 DEF UpstreamLost, JobInv
    <2> QED
      BY <2>1, <2>2, <2>3
  <1>7. CASE ShutdownProxy(p)
    <2>1. Types'
      BY <1>7 DEF ShutdownProxy, Types, TypeServer, TypeConn, TypeJob, Places, Early, Running
    <2>2. Registered'
      BY <1>7 DEF ShutdownProxy, Types, TypeConn, Registered, Early, Running
    <2>3. JobInv'
      BY <1>7 DEF ShutdownProxy, JobInv
    <2> QED
      BY <2>1, <2>2, <2>3
  <1> QED
    BY <1>1, <1>2, <1>3, <1>4, <1>5, <1>6, <1>7 DEF Moving, ConnNext
\* Loading, updating and walking: a walk puts on its list only registered proxies
\* with another hash.
LEMMA WalkJob ==
  ASSUME WalkInv, NEW j \in Job, JobNext(j)
  PROVE  WalkInv'
  <1> USE StopIsNoReload DEF WalkInv, serverVars, connVars
  <1>1. CASE UpdateConfig(j)
    <2>1. Types'
      BY <1>1 DEF UpdateConfig, Types, TypeServer, TypeConn, TypeJob, JobInv
    <2>2. Registered'
      BY <1>1 DEF UpdateConfig, Types, TypeConn, TypeJob, Registered
    <2>3. JobInv'
      BY <1>1 DEF UpdateConfig, Types, TypeJob, JobInv
    <2> QED
      BY <2>1, <2>2, <2>3
  <1>2. CASE WalkBegin(j)
    <2>1. Types'
      BY <1>2 DEF WalkBegin, Types, TypeServer, TypeConn, TypeJob
    <2>2. Registered'
      BY <1>2 DEF WalkBegin, Types, TypeConn, TypeJob, Registered
    <2>3. JobInv'
      BY <1>2 DEF WalkBegin, Types, TypeJob, JobInv
    <2> QED
      BY <2>1, <2>2, <2>3
  <1>3. CASE WalkEnd(j)
    <2>1. Types'
      BY <1>3 DEF WalkEnd, Types, TypeServer, TypeConn, TypeJob
    <2>2. Registered'
      BY <1>3 DEF WalkEnd, Types, TypeConn, TypeJob, Registered
    <2>3. JobInv'
      BY <1>3 DEF WalkEnd, Types, TypeJob, JobInv
    <2> QED
      BY <2>1, <2>2, <2>3
  <1>4. CASE JobDone(j)
    <2>1. Types'
      BY <1>4 DEF JobDone, Types, TypeServer, TypeConn, TypeJob
    <2>2. Registered'
      BY <1>4 DEF JobDone, Types, TypeConn, TypeJob, Registered
    <2>3. JobInv'
      BY <1>4 DEF JobDone, Types, TypeJob, JobInv
    <2> QED
      BY <2>1, <2>2, <2>3
  <1>5. CASE \E p \in Conn : WalkVisit(j, p)
    <2>0. PICK p \in Conn : WalkVisit(j, p)
      BY <1>5
    <2>1. Types'
      BY <2>0 DEF WalkVisit, Types, TypeServer, TypeConn, TypeJob
    <2>2. Registered'
      BY <2>0 DEF WalkVisit, Types, TypeConn, TypeJob, Registered, Early, Running
    <2>3. JobInv'
      BY <2>0 DEF WalkVisit, Types, TypeJob, JobInv
    <2> QED
      BY <2>1, <2>2, <2>3
  <1>6. CASE \E p \in Conn : CancelOne(j, p)
    <2>0. PICK p \in Conn : CancelOne(j, p)
      BY <1>6
    <2>1. Types'
      BY <2>0 DEF CancelOne, Types, TypeServer, TypeConn, TypeJob
    <2>2. Registered'
      BY <2>0 DEF CancelOne, Types, TypeConn, TypeJob, Registered, Early, Running
    <2>3. JobInv'
      BY <2>0 DEF CancelOne, Types, TypeJob, JobInv
    <2> QED
      BY <2>1, <2>2, <2>3
  <1> QED
    BY <1>1, <1>2, <1>3, <1>4, <1>5, <1>6 DEF JobNext

\* Every step keeps the lists right.
LEMMA WalkStep == WalkInv /\ [Next]_vars => WalkInv'
  <1> SUFFICES ASSUME WalkInv, [Next]_vars PROVE WalkInv'
    OBVIOUS
  <1> USE StopIsNoReload DEF WalkInv
  <1>1. CASE \E p \in Conn : \/ Accept(p) \/ HeaderFail(p) \/ HandshakeFail(p)
                            \/ ConnNext(p) \/ UpstreamLost(p) \/ ShutdownProxy(p)
    BY <1>1, WalkConn
  <1>2. CASE \E j \in Reload, c \in Config : Load(j, c)
    <2>0. PICK j \in Reload, c \in Config : Load(j, c)
      BY <1>2
    <2>1. Types'
      BY <2>0 DEF Load, Types, TypeServer, TypeConn, TypeJob, connVars
    <2>2. Registered'
      BY <2>0 DEF Load, Registered, connVars
    <2>3. JobInv'
      BY <2>0 DEF Load, Types, TypeJob, JobInv
    <2> QED
      BY <2>1, <2>2, <2>3
  <1>3. CASE \E j \in Job : JobNext(j)
    BY <1>3, WalkJob
  <1>4. CASE SigTerm \/ Exit \/ UNCHANGED vars
    BY <1>4 DEF SigTerm, Exit, vars, serverVars, connVars, jobVars, Types, TypeServer,
                TypeConn, TypeJob, Registered, JobInv
  <1>5. CASE CloseListener
    <2>1. Types'
      BY <1>5 DEF CloseListener, Types, TypeServer, TypeConn, TypeJob, connVars
    <2>2. Registered'
      BY <1>5 DEF CloseListener, Registered, connVars
    <2>3. JobInv'
      BY <1>5 DEF CloseListener, Types, TypeJob, JobInv
    <2> QED
      BY <2>1, <2>2, <2>3
  <1> QED
    BY <1>1, <1>2, <1>3, <1>4, <1>5 DEF Next
-----------------------------------------------------------------------------
(* No proxy slips through, when no reload brings back an old configuration.*)

\* The server starts with the one configuration it has loaded.
LEMMA SlipInit == Init => SlipInv
  <1> SUFFICES ASSUME Init PROVE SlipInv
    OBVIOUS
  <1> USE StopIsNoReload
  <1>1. LoadedInv /\ FreshInv
    BY DEF Init, LoadedInv, FreshInv
  <1>2. StaleIsDoomed
    BY DEF Init, StaleIsDoomed, Stale
  <1> QED
    BY <1>1, <1>2, WalkInit DEF SlipInv

\* A move changes neither the configurations nor who is doomed.
LEMMA SlipMoves ==
  ASSUME SlipInv, NEW p \in Conn, NEW from, NEW to, Moves(p, from, to)
  PROVE  (LoadedInv /\ FreshInv /\ StaleIsDoomed)'
  <1> USE DEF SlipInv, Moves, Goes, jobVars
  <1>1. LoadedInv' /\ FreshInv'
    BY DEF LoadedInv, FreshInv
  <1>2. StaleIsDoomed'
    BY DEF StaleIsDoomed, Stale, Doomed, WalkInv, Types, TypeConn
  <1> QED
    BY <1>1, <1>2

\* A proxy is not connected yet when it is stamped; what it connects to is current;
\* and what is forgotten is not connected any more.
LEMMA SlipConn ==
  ASSUME SlipInv, NEW p \in Conn,
         \/ Accept(p) \/ HeaderFail(p) \/ HandshakeFail(p)
         \/ ConnNext(p) \/ UpstreamLost(p) \/ ShutdownProxy(p)
  PROVE  (LoadedInv /\ FreshInv /\ StaleIsDoomed)'
  <1> USE StopIsNoReload DEF SlipInv, WalkInv, Types, TypeServer, TypeConn, Goes,
          serverVars, jobVars
  <1>1. CASE Moving(p)
    BY <1>1, MovingMoves, SlipMoves
  <1>2. CASE NewProxy(p)
    <2>1. LoadedInv'
      BY <1>2 DEF NewProxy, LoadedInv
    <2>2. FreshInv'
      BY <1>2 DEF NewProxy, FreshInv, JobInv
    <2>3. StaleIsDoomed'
      BY <1>2 DEF NewProxy, StaleIsDoomed, Stale, Doomed
    <2> QED
      BY <2>1, <2>2, <2>3
  <1>3. CASE RegisterProxy(p)
    <2>1. LoadedInv'
      BY <1>3 DEF RegisterProxy, LoadedInv
    <2>2. FreshInv'
      BY <1>3 DEF RegisterProxy, FreshInv, JobInv
    <2>3. StaleIsDoomed'
      BY <1>3 DEF RegisterProxy, StaleIsDoomed, Stale, Doomed
    <2> QED
      BY <2>1, <2>2, <2>3
  <1>4. CASE ConnectToUpstreams(p)
    <2>1. LoadedInv'
      BY <1>4 DEF ConnectToUpstreams, LoadedInv
    <2>2. FreshInv'
      BY <1>4 DEF ConnectToUpstreams, FreshInv, JobInv
    <2>3. StaleIsDoomed'
      BY <1>4 DEF ConnectToUpstreams, StaleIsDoomed, Stale, Doomed
    <2> QED
      BY <2>1, <2>2, <2>3
  <1>5. CASE UnregisterProxy(p)
    <2>1. LoadedInv'
      BY <1>5 DEF UnregisterProxy, LoadedInv
    <2>2. FreshInv'
      BY <1>5, ServerAssumption DEF UnregisterProxy, FreshInv, JobInv
    <2>3. StaleIsDoomed'
      BY <1>5 DEF UnregisterProxy, StaleIsDoomed, Stale, Doomed
    <2> QED
      BY <2>1, <2>2, <2>3
  <1>6. CASE UpstreamLost(p)
    <2>1. LoadedInv'
      BY <1>6 DEF UpstreamLost, LoadedInv
    <2>2. FreshInv'
      BY <1>6 DEF UpstreamLost, FreshInv, JobInv
    <2>3. StaleIsDoomed'
      BY <1>6 DEF UpstreamLost, StaleIsDoomed, Stale, Doomed
    <2> QED
      BY <2>1, <2>2, <2>3
  <1>7. CASE ShutdownProxy(p)
    <2>1. LoadedInv'
      BY <1>7 DEF ShutdownProxy, LoadedInv
    <2>2. FreshInv'
      BY <1>7 DEF ShutdownProxy, FreshInv, JobInv
    <2>3. StaleIsDoomed'
      BY <1>7 DEF ShutdownProxy, StaleIsDoomed, Stale, Doomed
    <2> QED
      BY <2>1, <2>2, <2>3
  <1> QED
    BY <1>1, <1>2, <1>3, <1>4, <1>5, <1>6, <1>7 DEF Moving, ConnNext

\* UpdateConfig makes stale who is not connected to the new upstreams, and dooms
\* everybody: nobody carries the new hash yet.  The walk that follows hands a proxy
\* it has to visit on to the list, and a worker cancels it.
LEMMA SlipJob ==
  ASSUME SlipInv, NEW j \in Job, JobNext(j)
  PROVE  (LoadedInv /\ FreshInv /\ StaleIsDoomed)'
  <1> USE StopIsNoReload DEF SlipInv, WalkInv, Types, TypeJob, serverVars, connVars
  <1>1. CASE UpdateConfig(j)
    <2>1. j \in Reload
      BY <1>1 DEF UpdateConfig, JobInv
    <2>2. LoadedInv'
      BY <1>1, <2>1 DEF UpdateConfig, LoadedInv
    <2>3. FreshInv'
      BY <1>1, <2>1 DEF UpdateConfig, FreshInv
    <2>4. StaleIsDoomed'
      BY <1>1, <2>1 DEF UpdateConfig, FreshInv, StaleIsDoomed, Stale, Doomed
    <2> QED
      BY <2>2, <2>3, <2>4
  <1>2. CASE WalkBegin(j)
    <2>1. LoadedInv' /\ FreshInv'
      BY <1>2 DEF WalkBegin, LoadedInv, FreshInv
    <2>2. StaleIsDoomed'
      <3> SUFFICES ASSUME NEW p \in Conn, Stale(p)', ~cancelled'[p] PROVE Doomed(p)'
        BY DEF StaleIsDoomed
      <3>1. p \in active /\ Doomed(p)
        BY <1>2 DEF WalkBegin, StaleIsDoomed, Stale, Registered, Running
      <3>2. PICK k \in Reload :
                \/ jpc[k] = "spawned" /\ hash[p] # jcfg[k]
                \/ jpc[k] = "walk" /\ p \in must[k] \ seen[k] /\ hash[p] # jcfg[k]
                \/ p \in targets[k]
        BY <3>1 DEF Doomed
      <3>3. CASE k = j
        BY <1>2, <3>1, <3>2, <3>3 DEF WalkBegin, Doomed, JobInv
      <3>4. CASE k # j
        BY <1>2, <3>2, <3>4 DEF WalkBegin, Doomed
      <3> QED
        BY <3>3, <3>4
    <2> QED
      BY <2>1, <2>2
  <1>3. CASE WalkEnd(j)
    <2>1. LoadedInv' /\ FreshInv'
      BY <1>3 DEF WalkEnd, LoadedInv, FreshInv
    <2>2. StaleIsDoomed'
      <3> SUFFICES ASSUME NEW p \in Conn, Stale(p)', ~cancelled'[p] PROVE Doomed(p)'
        BY DEF StaleIsDoomed
      <3>1. p \in active /\ Doomed(p)
        BY <1>3 DEF WalkEnd, StaleIsDoomed, Stale, Registered, Running
      <3>2. PICK k \in Reload :
                \/ jpc[k] = "spawned" /\ hash[p] # jcfg[k]
                \/ jpc[k] = "walk" /\ p \in must[k] \ seen[k] /\ hash[p] # jcfg[k]
                \/ p \in targets[k]
        BY <3>1 DEF Doomed
      <3>3. CASE k = j
        BY <1>3, <3>1, <3>2, <3>3 DEF WalkEnd, Doomed
      <3>4. CASE k # j
        BY <1>3, <3>2, <3>4 DEF WalkEnd, Doomed
      <3> QED
        BY <3>3, <3>4
    <2> QED
      BY <2>1, <2>2
  <1>4. CASE JobDone(j)
    <2>1. LoadedInv' /\ FreshInv'
      BY <1>4 DEF JobDone, LoadedInv, FreshInv
    <2>2. StaleIsDoomed'
      BY <1>4 DEF JobDone, StaleIsDoomed, Stale, Doomed
    <2> QED
      BY <2>1, <2>2
  <1>5. CASE \E p \in Conn : WalkVisit(j, p)
    <2>0. PICK q \in Conn : WalkVisit(j, q)
      BY <1>5
    <2>1. LoadedInv' /\ FreshInv'
      BY <2>0 DEF WalkVisit, LoadedInv, FreshInv
    <2>2. StaleIsDoomed'
      BY <2>0 DEF WalkVisit, Outdated, StaleIsDoomed, Stale, Doomed
    <2> QED
      BY <2>1, <2>2
  <1>6. CASE \E p \in Conn : CancelOne(j, p)
    <2>0. PICK q \in Conn : CancelOne(j, q)
      BY <1>6
    <2>1. LoadedInv' /\ FreshInv'
      BY <2>0 DEF CancelOne, LoadedInv, FreshInv
    <2>2. StaleIsDoomed'
      BY <2>0 DEF CancelOne, TypeConn, StaleIsDoomed, Stale, Doomed
    <2> QED
      BY <2>1, <2>2
  <1> QED
    BY <1>1, <1>2, <1>3, <1>4, <1>5, <1>6 DEF JobNext

\* What is loaded is new, so no configuration in use and no hash is the same.
LEMMA SlipLoad ==
  ASSUME ~Repeat, SlipInv, NEW j \in Reload, NEW c \in Config, Load(j, c)
  PROVE  (LoadedInv /\ FreshInv /\ StaleIsDoomed)'
  <1> USE StopIsNoReload DEF SlipInv, WalkInv, Types, TypeJob, TypeConn, Load, connVars
  <1>1. LoadedInv'
    BY DEF LoadedInv
  <1>2. FreshInv'
    BY ServerAssumption DEF LoadedInv, FreshInv
  <1>3. StaleIsDoomed'
    BY DEF StaleIsDoomed, Stale, Doomed, JobInv
  <1> QED
    BY <1>1, <1>2, <1>3

\* Reloads that bring new configurations keep every proxy on the current one, or on a
\* list of those to be disconnected.
LEMMA SlipStep == ~Repeat /\ SlipInv /\ [Next]_vars => SlipInv'
  <1> SUFFICES ASSUME ~Repeat, SlipInv, [Next]_vars
      PROVE (LoadedInv /\ FreshInv /\ StaleIsDoomed)'
    BY WalkStep DEF SlipInv
  <1>1. CASE \E p \in Conn : \/ Accept(p) \/ HeaderFail(p) \/ HandshakeFail(p)
                            \/ ConnNext(p) \/ UpstreamLost(p) \/ ShutdownProxy(p)
    BY <1>1, SlipConn
  <1>2. CASE \E j \in Reload, c \in Config : Load(j, c)
    BY <1>2, SlipLoad
  <1>3. CASE \E j \in Job : JobNext(j)
    BY <1>3, SlipJob
  <1>4. CASE SigTerm \/ Exit \/ UNCHANGED vars
    BY <1>4 DEF SigTerm, Exit, vars, serverVars, connVars, jobVars, SlipInv, LoadedInv,
                FreshInv, StaleIsDoomed, Stale, Doomed
  <1>5. CASE CloseListener
    BY <1>5, StopIsNoReload
       DEF CloseListener, connVars, SlipInv, WalkInv, Types, TypeJob, LoadedInv, FreshInv,
           StaleIsDoomed, Stale, Doomed
  <1> QED
    BY <1>1, <1>2, <1>3, <1>4, <1>5 DEF Next

\* No proxy slips through a reload (handleConnection against UpdateConfig and
\* disconnectOutdatedProxies), for any number of connections and of overlapping
\* reloads, provided that no reload brings back a configuration of before: then a
\* proxy may carry the hash of the new configuration and the upstreams of another.
THEOREM NoProxySlips == ~Repeat => (Spec => []StaleIsDoomed)
  <1> SUFFICES ASSUME ~Repeat PROVE Spec => []StaleIsDoomed
    OBVIOUS
  <1>1. SlipInv /\ [Next]_vars => SlipInv'
    BY SlipStep
  <1>2. SlipInv => StaleIsDoomed
    BY DEF SlipInv
  <1> QED
    BY <1>1, <1>2, SlipInit, PTL DEF Spec

=============================================================================
