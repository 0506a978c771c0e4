------------------------------- MODULE Health -------------------------------
(***************************************************************************)
(* Health checks of the nodes of a cluster upstream (health/health.go) and *)
(* how a reload replaces them (initHealthManagers in server.go, called by  *)
(* run, reloadConfigFromFile and apiPutConfigHandler).                     *)
(*                                                                         *)
(* A configuration has at most one cluster with health checks.  Its        *)
(* Manager checks all nodes at once, first inside StartHealthCheck, then   *)
(* at every tick from its own goroutine.  Managers are kept in the map     *)
(* healthManagers under the upstream's name; the gauges of healthy and     *)
(* unhealthy nodes have that name too, so all managers write the same.     *)
(***************************************************************************)
EXTENDS Naturals, FiniteSets

CONSTANTS
  Node,        \* addresses of the cluster
  Config,      \* configurations
  Checked,     \* the configurations that ask for health checks
  Threshold,   \* UnhealthyThreshold
  Recover,     \* RecoveryInterval, in ticks that pass over an unhealthy node
  Overlap,     \* may a reload begin before the one before is done?
  MaxReload,   \* bound: reloads in a behaviour
  MaxFlip,     \* bound: times a node goes down or up
  MaxFails     \* bound: ConsecutiveFails is not counted any further

ASSUME HealthAssumption ==
  /\ IsFiniteSet(Node) /\ Node # {}
  /\ Checked \subseteq Config
  /\ Threshold \in Nat \ {0}
  /\ Recover \in Nat
  /\ Overlap \in BOOLEAN
  /\ MaxReload \in Nat /\ MaxFlip \in Nat
  /\ MaxFails \in Nat /\ MaxFails > Threshold

Job    == 0 .. MaxReload    \* job 0 is run, before the server accepts connections
NoMgr  == MaxReload + 1     \* a manager has the number of the job that made it

VARIABLES
  config,   \* Server.config
  \* each reload
  jpc,      \* where it is
  jcfg,     \* jcfg[j]: the configuration it has loaded
  request,  \* request[j]: is its context the one of an HTTP request?
  old,      \* old[j]: the manager it waits for
  \* the managers
  stored,   \* healthManagers: the manager under the upstream's name
  mpc,      \* where its goroutine is
  mcfg,     \* mcfg[m]: the configuration it was made from
  stop,     \* stop[m]: is its context cancelled?
  pend,     \* pend[m]: the nodes whose check has not returned
  status,   \* status[m][n], fails[m][n]: NodeStatus.Status, ConsecutiveFails
  fails,
  skipped,  \* skipped[m][n]: ticks since LastCheck
  \* the gauges and the world
  gauge,    \* the numbers of healthy and unhealthy nodes last reported
  reach,    \* reach[n]: does the node answer?
  flips,    \* times some node went down or up
  streak,   \* streak[m][n]: failed dials in a row (counted up to Threshold)
  ever      \* ever[m][n]: has a dial succeeded?

jobVars == <<config, jpc, jcfg, request, old>>
mgrVars == <<mpc, mcfg, stop, pend>>
nodeVars == <<status, fails, skipped, streak, ever>>
vars == <<jobVars, mgrVars, nodeVars, stored, gauge, reach, flips>>

\* The ranges of the variables.
TypeOK ==
  /\ config \in Config
  /\ jpc \in [Job -> {"none", "stop", "wait", "start", "initial", "store", "update",
                      "return", "done"}]
  /\ jcfg \in [Job -> Config]
  /\ request \in [Job -> BOOLEAN]
  /\ old \in [Job -> Job \cup {NoMgr}]
  /\ stored \in Job \cup {NoMgr}
  /\ mpc \in [Job -> {"none", "initial", "idle", "round", "ended"}]
  /\ mcfg \in [Job -> Config]
  /\ stop \in [Job -> BOOLEAN]
  /\ pend \in [Job -> SUBSET Node]
  /\ status \in [Job -> [Node -> {"unknown", "healthy", "unhealthy"}]]
  /\ fails \in [Job -> [Node -> 0 .. MaxFails]]
  /\ skipped \in [Job -> [Node -> 0 .. Recover]]
  /\ gauge \in [healthy : 0 .. Cardinality(Node), unhealthy : 0 .. Cardinality(Node)]
  /\ reach \in [Node -> BOOLEAN]
  /\ flips \in 0 .. MaxFlip
  /\ streak \in [Job -> [Node -> 0 .. Threshold]]
  /\ ever \in [Job -> [Node -> BOOLEAN]]

Init ==
  /\ config \in Config
  /\ jpc = [j \in Job |-> IF j = 0 THEN "stop" ELSE "none"]
  /\ jcfg = [j \in Job |-> config]
  /\ request = [j \in Job |-> FALSE]
  /\ old = [j \in Job |-> NoMgr]
  /\ stored = NoMgr
  /\ mpc = [m \in Job |-> "none"]
  /\ mcfg = [m \in Job |-> config]
  /\ stop = [m \in Job |-> FALSE]
  /\ pend = [m \in Job |-> {}]
  /\ status = [m \in Job |-> [n \in Node |-> "unknown"]]
  /\ fails = [m \in Job |-> [n \in Node |-> 0]]
  /\ skipped = [m \in Job |-> [n \in Node |-> 0]]
  /\ gauge = [healthy |-> 0, unhealthy |-> 0]
  /\ reach \in [Node -> BOOLEAN]
  /\ flips = 0
  /\ streak = [m \in Job |-> [n \in Node |-> 0]]
  /\ ever = [m \in Job |-> [n \in Node |-> FALSE]]

-----------------------------------------------------------------------------
(* NodeStatus and checkNode.                                               *)

Least(a, b) == IF a < b THEN a ELSE b

\* An unhealthy node that was checked a short while ago is passed over at a tick.
Resting(m, n) ==
  mpc[m] = "round" /\ status[m][n] = "unhealthy" /\ skipped[m][n] < Recover

\* Mutant of PassOver: LastCheck is set when the node is passed over.
PassOverTouches(m, n) ==
  /\ Resting(m, n)
  /\ UNCHANGED nodeVars

PassOver(m, n) ==
  /\ Resting(m, n)
  /\ skipped' = [skipped EXCEPT ![m][n] = @ + 1]
  /\ UNCHANGED <<status, fails, streak, ever>>

\* Mutant of SetHealthy: the count of failures is not reset.
SetHealthyKeepsCount(m, n) ==
  /\ status' = [status EXCEPT ![m][n] = "healthy"]
  /\ UNCHANGED fails

\* SetHealthy.
SetHealthy(m, n) ==
  /\ status' = [status EXCEPT ![m][n] = "healthy"]
  /\ fails' = [fails EXCEPT ![m][n] = 0]

\* The dial succeeds.
DialOk(m, n) ==
  /\ reach[n] /\ ~Resting(m, n)
  /\ SetHealthy(m, n)
  /\ skipped' = [skipped EXCEPT ![m][n] = 0]
  /\ streak' = [streak EXCEPT ![m][n] = 0]
  /\ ever' = [ever EXCEPT ![m][n] = TRUE]

\* It fails: IncrementFails, and SetUnhealthy, which counts once more, from the
\* threshold on.  The initial check has a threshold of one.
DialFails(m, n) ==
  LET count == fails[m][n] + 1
      limit == IF mpc[m] = "initial" THEN 1 ELSE Threshold
  IN
  /\ ~reach[n] /\ ~Resting(m, n)
  /\ \/ /\ count >= limit
        /\ status' = [status EXCEPT ![m][n] = "unhealthy"]
        /\ fails' = [fails EXCEPT ![m][n] = Least(count + 1, MaxFails)]
     \/ /\ count < limit
        /\ fails' = [fails EXCEPT ![m][n] = count]
        /\ UNCHANGED status
  /\ skipped' = [skipped EXCEPT ![m][n] = 0]
  /\ streak' = [streak EXCEPT ![m][n] = Least(@ + 1, Threshold)]
  /\ UNCHANGED ever

\* The goroutine of one node's check.
CheckNode(m, n) ==
  /\ n \in pend[m]
  /\ PassOver(m, n) \/ DialOk(m, n) \/ DialFails(m, n)
  /\ pend' = [pend EXCEPT ![m] = @ \ {n}]
  /\ UNCHANGED <<jobVars, mpc, mcfg, stop, stored, gauge, reach, flips>>

-----------------------------------------------------------------------------
(* Manager.                                                                *)

\* getHealthSummary.
Summary(m) ==
  [healthy   |-> Cardinality({n \in Node : status[m][n] # "unhealthy"}),
   unhealthy |-> Cardinality({n \in Node : status[m][n] = "unhealthy"})]

\* The end of checkAllNodesInitial, after which the goroutine starts, or of
\* checkAllNodes: the gauges are set.
RoundDone(m) ==
  /\ mpc[m] \in {"initial", "round"}
  /\ pend[m] = {}
  /\ gauge' = Summary(m)
  /\ mpc' = [mpc EXCEPT ![m] = "idle"]
  /\ jpc' = IF mpc[m] = "initial" THEN [jpc EXCEPT ![m] = "store"] ELSE jpc
  /\ UNCHANGED <<config, jcfg, request, old, mcfg, stop, pend, nodeVars, stored, reach,
                 flips>>

\* A tick: checkAllNodes.
Tick(m) ==
  /\ mpc[m] = "idle"
  /\ mpc' = [mpc EXCEPT ![m] = "round"]
  /\ pend' = [pend EXCEPT ![m] = Node]
  /\ UNCHANGED <<jobVars, mcfg, stop, nodeVars, stored, gauge, reach, flips>>

\* Mutant of GoroutineEnd: not before the manager is out of the map.
GoroutineEndUnstored(m) ==
  /\ mpc[m] = "idle"
  /\ stop[m]
  /\ stored # m
  /\ mpc' = [mpc EXCEPT ![m] = "ended"]
  /\ UNCHANGED <<jobVars, mcfg, stop, pend, nodeVars, stored, gauge, reach, flips>>

\* The context is cancelled: the goroutine returns.
GoroutineEnd(m) ==
  /\ mpc[m] = "idle"
  /\ stop[m]
  /\ mpc' = [mpc EXCEPT ![m] = "ended"]
  /\ UNCHANGED <<jobVars, mcfg, stop, pend, nodeVars, stored, gauge, reach, flips>>

-----------------------------------------------------------------------------
(* The jobs: run, and the reloads.                                         *)

\* A reload has loaded a configuration: on SIGHUP with the context of the process,
\* from the API with the one of the request.
Load(j, c, api) ==
  /\ j > 0
  /\ jpc[j] = "none"
  /\ jpc[0] = "done"
  /\ \A k \in Job : jpc[k] = IF k < j THEN IF Overlap THEN jpc[k] ELSE "done" ELSE "none"
  /\ jpc' = [jpc EXCEPT ![j] = "stop"]
  /\ jcfg' = [jcfg EXCEPT ![j] = c]
  /\ request' = [request EXCEPT ![j] = api]
  /\ UNCHANGED <<config, old, mgrVars, nodeVars, stored, gauge, reach, flips>>

\* initHealthManagers stops the manager in the map (Stop): cancel, and wait;
StopOld(j) ==
  /\ jpc[j] = "stop"
  /\ \/ /\ stored # NoMgr
        /\ stop' = [stop EXCEPT ![stored] = TRUE]
        /\ old' = [old EXCEPT ![j] = stored]
        /\ jpc' = [jpc EXCEPT ![j] = "wait"]
     \/ /\ stored = NoMgr
        /\ jpc' = [jpc EXCEPT ![j] = "start"]
        /\ UNCHANGED <<stop, old>>
  /\ UNCHANGED <<config, jcfg, request, mpc, mcfg, pend, nodeVars, stored, gauge, reach,
                 flips>>

\* Mutant of StopWait: Stop does not wait for the goroutine.
StopWaitNot(j) ==
  /\ jpc[j] = "wait"
  /\ stored' = NoMgr
  /\ old' = [old EXCEPT ![j] = NoMgr]
  /\ jpc' = [jpc EXCEPT ![j] = "start"]
  /\ UNCHANGED <<config, jcfg, request, mgrVars, nodeVars, gauge, reach, flips>>

\* when its goroutine has returned, the entry under the name is deleted.
StopWait(j) ==
  /\ jpc[j] = "wait"
  /\ mpc[old[j]] = "ended"
  /\ stored' = NoMgr
  /\ old' = [old EXCEPT ![j] = NoMgr]
  /\ jpc' = [jpc EXCEPT ![j] = "start"]
  /\ UNCHANGED <<config, jcfg, request, mgrVars, nodeVars, gauge, reach, flips>>

\* Then it reads the configuration, which UpdateConfig has yet to replace, makes its
\* manager, and StartHealthCheck does the initial check.
StartManager(j) ==
  /\ jpc[j] = "start"
  /\ \/ /\ config \in Checked
        /\ mcfg' = [mcfg EXCEPT ![j] = config]
        /\ mpc' = [mpc EXCEPT ![j] = "initial"]
        /\ pend' = [pend EXCEPT ![j] = Node]
        /\ jpc' = [jpc EXCEPT ![j] = "initial"]
     \/ /\ config \notin Checked
        /\ jpc' = [jpc EXCEPT ![j] = "update"]
        /\ UNCHANGED <<mcfg, mpc, pend>>
  /\ UNCHANGED <<config, jcfg, request, old, stop, nodeVars, stored, gauge, reach, flips>>

\* The started manager is stored.
StoreManager(j) ==
  /\ jpc[j] = "store"
  /\ stored' = j
  /\ jpc' = [jpc EXCEPT ![j] = "update"]
  /\ UNCHANGED <<config, jcfg, request, old, mgrVars, nodeVars, gauge, reach, flips>>

\* UpdateConfig; what follows in the handler is in module Server.
UpdateConfig(j) ==
  /\ jpc[j] = "update"
  /\ config' = jcfg[j]
  /\ jpc' = [jpc EXCEPT ![j] = "return"]
  /\ UNCHANGED <<jcfg, request, old, mgrVars, nodeVars, stored, gauge, reach, flips>>

\* The handler returns, and with it ends the context of its request.
Return(j) ==
  /\ jpc[j] = "return"
  /\ jpc' = [jpc EXCEPT ![j] = "done"]
  /\ stop' = [stop EXCEPT ![j] = @ \/ request[j]]
  /\ UNCHANGED <<config, jcfg, request, old, mpc, mcfg, pend, nodeVars, stored, gauge,
                 reach, flips>>

-----------------------------------------------------------------------------
\* A node goes down or comes up.
Flip(n) ==
  /\ flips < MaxFlip
  /\ flips' = flips + 1
  /\ reach' = [reach EXCEPT ![n] = ~@]
  /\ UNCHANGED <<jobVars, mgrVars, nodeVars, stored, gauge>>

JobNext(j) ==
  \/ StopOld(j) \/ StopWait(j) \/ StartManager(j) \/ StoreManager(j)
  \/ UpdateConfig(j) \/ Return(j)

Checks(m) ==
  \/ \E n \in Node : CheckNode(m, n)
  \/ RoundDone(m)

Next ==
  \/ \E j \in Job : JobNext(j) \/ Checks(j) \/ Tick(j) \/ GoroutineEnd(j)
  \/ \E j \in Job, c \in Config, api \in BOOLEAN : Load(j, c, api)
  \/ \E n \in Node : Flip(n)

Spec == Init /\ [][Next]_vars

\* Dials return (they have a timeout), tickers tick, handlers go on, and the select
\* between a tick and the cancelled context picks the context sometime.
Fairness ==
  \A j \in Job : /\ WF_vars(JobNext(j))
                 /\ WF_vars(Checks(j))
                 /\ WF_vars(Tick(j))
                 /\ SF_vars(GoroutineEnd(j))

FairSpec == Spec /\ Fairness

-----------------------------------------------------------------------------
(* Properties.                                                             *)

\* A node is held for unhealthy exactly when its last Threshold dials failed, or all
\* of them since the initial check did; SetUnhealthy's second count never brings a
\* node there early (SetHealthy resets it).
UnhealthyMeansFailing ==
  \A m \in Job, n \in Node :
    (status[m][n] = "unhealthy")
      <=> (streak[m][n] = Threshold \/ (streak[m][n] > 0 /\ ~ever[m][n]))

\* The gauges speak of the manager in the map: no late round of a predecessor writes
\* over them, since Stop waits for it.
GaugesOfStored ==
  \A m \in Job : stored = m /\ mpc[m] = "idle" => gauge = Summary(m)

\* When no reload is under way, the only goroutine that runs is the one of the
\* manager in the map, which the next reload can stop.
NoOrphan ==
  (\A j \in Job : jpc[j] \in {"none", "done"}) =>
    \A m \in Job : mpc[m] \in {"idle", "round"} => m = stored

\* Together: no manager is at work but the one in the map.
OnlyStoredManager == GaugesOfStored /\ NoOrphan

\* A manager's view of a node becomes right once the node stays up or down: an
\* unhealthy node is looked at again after the recovery interval.
StatusConverges ==
  \A m \in Job, n \in Node, up \in BOOLEAN :
    <>[](reach[n] = up /\ mpc[m] \in {"idle", "round"} /\ ~stop[m])
      => <>[](status[m][n] = IF up THEN "healthy" ELSE "unhealthy")

\* A reload gets past the manager it stops.
ReloadCompletes ==
  \A j \in Job : jpc[j] = "stop" ~> jpc[j] = "done"

\* README: "Run health checks in a separate goroutine at configured intervals", and a
\* reload "will reload the configuration and apply the new configuration": when no
\* reload is under way, a goroutine checks the nodes of the current configuration.
ChecksFollowConfig ==
  (\A j \in Job : jpc[j] \in {"none", "done"}) /\ config \in Checked =>
    \E m \in Job : mpc[m] \in {"idle", "round"} /\ ~stop[m] /\ mcfg[m] = config
=============================================================================
