---------------------------- MODULE HealthProofs ----------------------------
(***************************************************************************)
(* Proofs about Health, for any nodes, threshold and number of reloads: a  *)
(* node is held for unhealthy exactly when its dials have failed, and,     *)
(* when reloads follow one another, no manager is at work but the one in   *)
(* the map.                                                                *)
(***************************************************************************)
EXTENDS Health, TLAPS

-----------------------------------------------------------------------------
(* A node's status and its failures.                                       *)

Statuses == {"unknown", "healthy", "unhealthy"}

NodeTypes ==
  /\ status \in [Job -> [Node -> Statuses]]
  /\ fails \in [Job -> [Node -> Nat]]
  /\ streak \in [Job -> [Node -> 0 .. Threshold]]
  /\ ever \in [Job -> [Node -> BOOLEAN]]
  /\ mpc \in [Job -> {"none", "initial", "idle", "round", "ended"}]
  /\ pend \in [Job -> SUBSET Node]
  /\ jpc \in [Job -> {"none", "stop", "wait", "start", "initial", "store", "update",
                      "return", "done"}]

\* Nothing is known of a node yet.
Untouched(m, n) ==
  status[m][n] = "unknown" /\ fails[m][n] = 0 /\ streak[m][n] = 0 /\ ~ever[m][n]

\* As long as a node is not unhealthy its count is the number of failures in a row,
\* since SetHealthy resets it and SetUnhealthy has not counted.
CountInv ==
  \A m \in Job, n \in Node :
    status[m][n] # "unhealthy" => fails[m][n] = streak[m][n] /\ streak[m][n] < Threshold

\* A manager has not looked at a node before its initial check, and every node has
\* answered or is unhealthy after it.
PhaseInv ==
  \A m \in Job :
    /\ jpc[m] \in {"none", "stop", "wait", "start"} => mpc[m] = "none"
    /\ mpc[m] \notin {"initial", "round"} => pend[m] = {}
    /\ \A n \in Node :
         IF mpc[m] = "none" \/ (mpc[m] = "initial" /\ n \in pend[m])
         THEN Untouched(m, n)
         ELSE ever[m][n] \/ status[m][n] = "unhealthy"

StatusInv == NodeTypes /\ CountInv /\ PhaseInv /\ UnhealthyMeansFailing

\* No node has been probed at the start.
LEMMA StatusInit == Init => StatusInv
<1> SUFFICES ASSUME Init PROVE StatusInv
  OBVIOUS
<1> USE HealthAssumption DEF Init
<1>1. NodeTypes
  BY DEF NodeTypes, Statuses, Job
<1>2. CountInv /\ PhaseInv
  BY DEF CountInv, PhaseInv, Untouched
<1>3. UnhealthyMeansFailing
  BY DEF UnhealthyMeansFailing
<1>4. QED
  BY <1>1, <1>2, <1>3 DEF StatusInv

\* A check that passes over its node, or whose dial succeeds or fails.
LEMMA StatusCheck ==
  ASSUME StatusInv, NEW m \in Job, NEW n \in Node, CheckNode(m, n)
  PROVE  StatusInv'
<1> USE HealthAssumption DEF StatusInv
<1>1. /\ n \in pend[m] /\ pend' = [pend EXCEPT ![m] = @ \ {n}]
      /\ UNCHANGED <<jpc, mpc>> /\ mpc[m] \in {"initial", "round"}
  BY DEF CheckNode, jobVars, PhaseInv, NodeTypes
<1>2. CASE PassOver(m, n)
  <2>1. UNCHANGED <<status, fails, streak, ever>> /\ mpc[m] = "round"
    BY <1>2 DEF PassOver, Resting
  <2>2. NodeTypes' /\ CountInv' /\ UnhealthyMeansFailing'
    BY <1>1, <2>1 DEF NodeTypes, CountInv, UnhealthyMeansFailing
  <2>3. PhaseInv'
    BY <1>1, <2>1 DEF NodeTypes, PhaseInv, Untouched
  <2>4. QED
    BY <2>2, <2>3
<1>3. CASE DialOk(m, n)
  <2>1. /\ status' = [status EXCEPT ![m][n] = "healthy"]
        /\ fails' = [fails EXCEPT ![m][n] = 0]
        /\ streak' = [streak EXCEPT ![m][n] = 0]
        /\ ever' = [ever EXCEPT ![m][n] = TRUE]
    BY <1>3 DEF DialOk, SetHealthy
  <2>2. NodeTypes'
    BY <1>1, <2>1 DEF NodeTypes, Statuses
  <2>3. CountInv' /\ UnhealthyMeansFailing'
    BY <2>1 DEF NodeTypes, CountInv, UnhealthyMeansFailing
  <2>4. PhaseInv'
    BY <1>1, <2>1 DEF NodeTypes, PhaseInv, Untouched
  <2>5. QED
    BY <2>2, <2>3, <2>4
<1>4. CASE DialFails(m, n)
  <2> DEFINE count == fails[m][n] + 1
             limit == IF mpc[m] = "initial" THEN 1 ELSE Threshold
  <2>1. /\ streak' = [streak EXCEPT ![m][n] = Least(@ + 1, Threshold)]
        /\ UNCHANGED ever
    BY <1>4 DEF DialFails
  <2>2. /\ fails[m][n] \in Nat /\ streak[m][n] \in 0 .. Threshold
        /\ Least(streak[m][n] + 1, Threshold) \in 1 .. Threshold
    BY DEF NodeTypes, Least
  <2>3. CASE count >= limit
    <3>1. /\ status' = [status EXCEPT ![m][n] = "unhealthy"]
          /\ fails' = [fails EXCEPT ![m][n] = Least(count + 1, MaxFails)]
      BY <1>4, <2>2, <2>3 DEF DialFails
    <3>2. NodeTypes'
      BY <1>1, <2>1, <2>2, <3>1 DEF NodeTypes, Statuses, Least
    <3>3. CountInv'
      BY <2>1, <3>1 DEF NodeTypes, CountInv
    <3>4. PhaseInv'
      BY <1>1, <2>1, <3>1 DEF NodeTypes, PhaseInv, Untouched
    <3>5. Least(streak[m][n] + 1, Threshold) = Threshold \/ ~ever[m][n]
      <4>1. CASE mpc[m] = "initial"
        BY <1>1, <4>1 DEF PhaseInv, Untouched
      <4>2. CASE status[m][n] = "unhealthy"
        BY <2>2, <4>2 DEF UnhealthyMeansFailing, Least
      <4>3. CASE mpc[m] # "initial" /\ status[m][n] # "unhealthy"
        BY <2>2, <2>3, <4>3 DEF CountInv, Least
      <4>4. QED
        BY <4>1, <4>2, <4>3
    <3>6. UnhealthyMeansFailing'
      BY <2>1, <2>2, <3>1, <3>5 DEF NodeTypes, UnhealthyMeansFailing
    <3>7. QED
      BY <3>2, <3>3, <3>4, <3>6
  <2>4. CASE count < limit
    <3>1. fails' = [fails EXCEPT ![m][n] = count] /\ UNCHANGED status /\ mpc[m] = "round"
      BY <1>1, <1>4, <2>2, <2>4 DEF DialFails
    <3>2. NodeTypes'
      BY <1>1, <2>1, <2>2, <3>1 DEF NodeTypes
    <3>3. ever[m][n] \/ status[m][n] = "unhealthy"
      BY <3>1 DEF PhaseInv
    <3>4. status[m][n] # "unhealthy" => /\ Least(streak[m][n] + 1, Threshold) = count
                                        /\ count < Threshold
      BY <2>2, <2>4, <3>1 DEF CountInv, Least
    <3>5. CountInv'
      BY <2>1, <3>1, <3>4 DEF NodeTypes, CountInv
    <3>6. PhaseInv'
      BY <1>1, <2>1, <3>1, <3>3 DEF NodeTypes, PhaseInv, Untouched
    <3>7. UnhealthyMeansFailing'
      <4> SUFFICES ASSUME NEW k \in Job, NEW x \in Node
                   PROVE  (status'[k][x] = "unhealthy")
                            <=> (streak'[k][x] = Threshold \/ (streak'[k][x] > 0 /\ ~ever'[k][x]))
        BY DEF UnhealthyMeansFailing
      <4>1. CASE k = m /\ x = n
        <5>1. streak'[k][x] = Least(streak[m][n] + 1, Threshold)
          BY <2>1, <4>1 DEF NodeTypes
        <5>2. CASE status[m][n] = "unhealthy"
          BY <2>1, <2>2, <3>1, <4>1, <5>1, <5>2 DEF UnhealthyMeansFailing, Least
        <5>3. CASE status[m][n] # "unhealthy"
          BY <2>1, <3>1, <3>3, <3>4, <4>1, <5>1, <5>3
        <5>4. QED
          BY <5>2, <5>3
      <4>2. CASE ~(k = m /\ x = n)
        <5>1. streak'[k][x] = streak[k][x]
          BY <2>1, <4>2 DEF NodeTypes
        <5>2. QED
          BY <2>1, <3>1, <5>1 DEF UnhealthyMeansFailing
      <4>3. QED
        BY <4>1, <4>2
    <3>8. QED
      BY <3>2, <3>5, <3>6, <3>7
  <2>5. QED
    BY <1>1, <2>2, <2>3, <2>4
<1>5. QED
  BY <1>2, <1>3, <1>4 DEF CheckNode

\* Managers start, tick and end, and reloads go on: no node's status changes.
LEMMA StatusOther ==
  ASSUME StatusInv, NEW j \in Job,
         JobNext(j) \/ RoundDone(j) \/ Tick(j) \/ GoroutineEnd(j)
  PROVE  StatusInv'
<1> USE DEF StatusInv
<1>1. UNCHANGED <<status, fails, streak, ever>>
  BY DEF JobNext, StopOld, StopWait, StartManager, StoreManager, UpdateConfig, Return,
         RoundDone, Tick, GoroutineEnd, nodeVars
<1>2. CountInv' /\ UnhealthyMeansFailing'
  BY <1>1 DEF CountInv, UnhealthyMeansFailing
<1>3. CASE StopOld(j)
  <2>1. /\ jpc[j] = "stop" /\ UNCHANGED <<mpc, pend>>
        /\ \E to \in {"wait", "start"} : jpc' = [jpc EXCEPT ![j] = to]
    BY <1>3 DEF StopOld
  <2>2. NodeTypes'
    BY <1>1, <2>1 DEF NodeTypes
  <2>3. PhaseInv'
    BY <1>1, <2>1 DEF NodeTypes, PhaseInv, Untouched
  <2>4. QED
    BY <1>2, <2>2, <2>3
<1>4. CASE StopWait(j)
  BY <1>1, <1>2, <1>4 DEF StopWait, mgrVars, NodeTypes, PhaseInv, Untouched
<1>5. CASE StartManager(j)
  <2>1. CASE config \in Checked
    <3>1. /\ mpc' = [mpc EXCEPT ![j] = "initial"]
          /\ pend' = [pend EXCEPT ![j] = Node]
          /\ jpc' = [jpc EXCEPT ![j] = "initial"]
          /\ mpc[j] = "none"
      BY <1>5, <2>1 DEF StartManager, PhaseInv
    <3>2. NodeTypes'
      BY <1>1, <3>1 DEF NodeTypes
    <3>3. PhaseInv'
      BY <1>1, <3>1 DEF NodeTypes, PhaseInv, Untouched
    <3>4. QED
      BY <1>2, <3>2, <3>3
  <2>2. CASE config \notin Checked
    <3>1. jpc' = [jpc EXCEPT ![j] = "update"] /\ UNCHANGED <<mpc, pend>>
      BY <1>5, <2>2 DEF StartManager
    <3>2. NodeTypes' /\ PhaseInv'
      BY <1>1, <3>1 DEF NodeTypes, PhaseInv, Untouched
    <3>3. QED
      BY <1>2, <3>2
  <2>3. QED
    BY <2>1, <2>2
<1>6. CASE StoreManager(j)
  BY <1>1, <1>2, <1>6 DEF StoreManager, mgrVars, NodeTypes, PhaseInv, Untouched
<1>7. CASE UpdateConfig(j)
  BY <1>1, <1>2, <1>7 DEF UpdateConfig, mgrVars, NodeTypes, PhaseInv, Untouched
<1>8. CASE Return(j)
  BY <1>1, <1>2, <1>8 DEF Return, NodeTypes, PhaseInv, Untouched
<1>9. CASE RoundDone(j)
  <2>1. NodeTypes'
    BY <1>1, <1>9 DEF RoundDone, NodeTypes
  <2>2. PhaseInv'
    BY <1>1, <1>9 DEF RoundDone, NodeTypes, PhaseInv, Untouched
  <2>3. QED
    BY <1>2, <2>1, <2>2
<1>10. CASE Tick(j)
  BY <1>1, <1>2, <1>10 DEF Tick, jobVars, NodeTypes, PhaseInv, Untouched
<1>11. CASE GoroutineEnd(j)
  BY <1>1, <1>2, <1>11 DEF GoroutineEnd, jobVars, NodeTypes, PhaseInv, Untouched
<1>12. QED
  BY <1>3, <1>4, <1>5, <1>6, <1>7, <1>8, <1>9, <1>10, <1>11 DEF JobNext

\* Every probe and every reload keeps the counts and the statuses together.
LEMMA StatusStep == StatusInv /\ [Next]_vars => StatusInv'
<1> SUFFICES ASSUME StatusInv, [Next]_vars PROVE StatusInv'
  OBVIOUS
<1> USE DEF StatusInv
<1>1. ASSUME NEW j \in Job, JobNext(j) \/ RoundDone(j) \/ Tick(j) \/ GoroutineEnd(j)
      PROVE  StatusInv'
  BY <1>1, StatusOther
<1>2. ASSUME NEW m \in Job, NEW n \in Node, CheckNode(m, n) PROVE StatusInv'
  BY <1>2, StatusCheck
<1>3. ASSUME NEW j \in Job, NEW c \in Config, NEW api \in BOOLEAN, Load(j, c, api)
      PROVE  StatusInv'
  BY <1>3 DEF Load, mgrVars, nodeVars, NodeTypes, CountInv, PhaseInv, Untouched,
              UnhealthyMeansFailing
<1>4. CASE (\E n \in Node : Flip(n)) \/ UNCHANGED vars
  BY <1>4 DEF Flip, vars, jobVars, mgrVars, nodeVars, NodeTypes, CountInv, PhaseInv,
              Untouched, UnhealthyMeansFailing
<1>5. QED
  BY <1>1, <1>2, <1>3, <1>4 DEF Next, Checks

\* A node is unhealthy exactly when its last Threshold dials failed, or all of them did
\* since the manager began (checkNode, NodeStatus), for every threshold and whatever
\* reloads do meanwhile: the count that SetUnhealthy adds never matters.
THEOREM UnhealthyExactly == Spec => []UnhealthyMeansFailing
<1>1. StatusInv => UnhealthyMeansFailing
  BY DEF StatusInv
<1>2. QED
  BY <1>1, StatusInit, StatusStep, PTL DEF Spec

-----------------------------------------------------------------------------
(* One manager at a time.                                                  *)

\* Manager m is at work: its goroutine, or its initial check.
Live(m) == mpc[m] \in {"initial", "idle", "round"}

\* A reload is under way.
Busy(j) == jpc[j] \notin {"none", "done"}

ManagerTypes ==
  /\ mpc \in [Job -> {"none", "initial", "idle", "round", "ended"}]
  /\ jpc \in [Job -> {"none", "stop", "wait", "start", "initial", "store", "update",
                      "return", "done"}]
  /\ old \in [Job -> Job \cup {NoMgr}]
  /\ stored \in Job \cup {NoMgr}
  /\ status \in [Job -> [Node -> Statuses]]
  /\ pend \in [Job -> SUBSET Node]

\* Reloads follow one another.
OneReload == \A j, k \in Job : Busy(j) /\ Busy(k) => j = k

\* A manager at work is in the map, or the reload that made it has yet to put it there.
KeptInv ==
  \A m \in Job :
    /\ Live(m) => m = stored \/ jpc[m] \in {"initial", "store"}
    /\ mpc[m] = "initial" => jpc[m] = "initial"
    /\ mpc[m] \notin {"initial", "round"} => pend[m] = {}

\* A reload waits for the manager in the map; when it has, the map is empty and nobody
\* is at work but the manager it makes.
ClearInv ==
  \A j \in Job :
    /\ jpc[j] = "wait" => old[j] = stored
    /\ jpc[j] \in {"start", "initial", "store"} => stored = NoMgr
    /\ jpc[j] = "start" => \A m \in Job : ~Live(m)

\* The gauges say what the manager that rests has found.
GaugeInv == \A m \in Job : mpc[m] = "idle" => gauge = Summary(m)

OneManager == ManagerTypes /\ OneReload /\ KeptInv /\ ClearInv /\ GaugeInv

\* The mark for no manager is no manager.
LEMMA NoMgrIsNoJob == NoMgr \notin Job
  BY HealthAssumption DEF NoMgr, Job

\* Only one manager is at work at a time.
LEMMA LiveIsOne ==
  ASSUME OneManager, NEW m \in Job, NEW k \in Job, Live(m), Live(k)
  PROVE  m = k
  BY NoMgrIsNoJob DEF OneManager, OneReload, KeptInv, ClearInv, Busy

\* The server starts without a manager.
LEMMA OneManagerInit == Init => OneManager
<1> SUFFICES ASSUME Init PROVE OneManager
  OBVIOUS
<1>1. ManagerTypes
  BY HealthAssumption DEF Init, ManagerTypes, Statuses, Job
<1>2. OneReload /\ KeptInv /\ ClearInv /\ GaugeInv
  BY DEF Init, OneReload, Busy, KeptInv, ClearInv, GaugeInv, Live
<1>3. QED
  BY <1>1, <1>2 DEF OneManager

\* What managers do: only one that is not at rest changes what it has found, and the
\* gauges are set by the only one that is at work.
LEMMA OneManagerWorks ==
  ASSUME OneManager, NEW m \in Job, Checks(m) \/ Tick(m) \/ GoroutineEnd(m)
  PROVE  OneManager'
<1> USE DEF OneManager
<1>1. ASSUME NEW n \in Node, CheckNode(m, n) PROVE OneManager'
  <2>1. /\ n \in pend[m] /\ pend' = [pend EXCEPT ![m] = @ \ {n}]
        /\ UNCHANGED <<jpc, old, stored, mpc, gauge>> /\ mpc[m] \in {"initial", "round"}
    BY <1>1 DEF CheckNode, jobVars, KeptInv, ManagerTypes
  <2>2. status' = status \/ \E v \in Statuses : status' = [status EXCEPT ![m][n] = v]
    BY <1>1 DEF CheckNode, PassOver, DialOk, SetHealthy, DialFails, Statuses
  <2>3. status' \in [Job -> [Node -> Statuses]] /\ \A k \in Job : k # m => status'[k] = status[k]
    <3>1. ASSUME NEW v \in Statuses, status' = [status EXCEPT ![m][n] = v]
          PROVE  status' \in [Job -> [Node -> Statuses]] /\ \A k \in Job : k # m => status'[k] = status[k]
      BY <3>1 DEF ManagerTypes
    <3>2. QED
      BY <2>2, <3>1 DEF ManagerTypes
  <2>4. ManagerTypes' /\ OneReload' /\ KeptInv' /\ ClearInv'
    BY <2>1, <2>3 DEF ManagerTypes, OneReload, Busy, KeptInv, ClearInv, Live
  <2>5. GaugeInv'
    BY <2>1, <2>3 DEF GaugeInv, Summary
  <2>6. QED
    BY <2>4, <2>5
<1>2. CASE RoundDone(m)
  <2>1. ManagerTypes'
    BY <1>2 DEF RoundDone, nodeVars, ManagerTypes
  <2>2. OneReload'
    BY <1>2 DEF RoundDone, ManagerTypes, OneReload, Busy, KeptInv
  <2>3. KeptInv' /\ ClearInv'
    BY <1>2 DEF RoundDone, ManagerTypes, KeptInv, ClearInv, Live
  <2>4. \A k \in Job : mpc'[k] = "idle" => k = m
    BY <1>2, LiveIsOne DEF RoundDone, ManagerTypes, Live
  <2>5. Summary(m)' = Summary(m)
    BY <1>2 DEF RoundDone, nodeVars, Summary
  <2>6. GaugeInv'
    BY <1>2, <2>4, <2>5 DEF RoundDone, GaugeInv
  <2>7. QED
    BY <2>1, <2>2, <2>3, <2>6
<1>3. CASE Tick(m)
  <2>1. ManagerTypes'
    BY <1>3 DEF Tick, jobVars, nodeVars, ManagerTypes
  <2>2. OneReload' /\ KeptInv' /\ ClearInv'
    BY <1>3 DEF Tick, jobVars, ManagerTypes, OneReload, Busy, KeptInv, ClearInv, Live
  <2>3. GaugeInv'
    BY <1>3 DEF Tick, nodeVars, ManagerTypes, GaugeInv, Summary
  <2>4. QED
    BY <2>1, <2>2, <2>3
<1>4. CASE GoroutineEnd(m)
  <2>1. ManagerTypes'
    BY <1>4 DEF GoroutineEnd, jobVars, nodeVars, ManagerTypes
  <2>2. OneReload' /\ KeptInv' /\ ClearInv'
    BY <1>4 DEF GoroutineEnd, jobVars, ManagerTypes, OneReload, Busy, KeptInv, ClearInv, Live
  <2>3. GaugeInv'
    BY <1>4 DEF GoroutineEnd, nodeVars, ManagerTypes, GaugeInv, Summary
  <2>4. QED
    BY <2>1, <2>2, <2>3
<1>5. QED
  BY <1>1, <1>2, <1>3, <1>4 DEF Checks

\* What a reload does: it waits until the manager in the map has ended before it makes
\* its own.
LEMMA OneManagerReloads ==
  ASSUME OneManager, NEW j \in Job, JobNext(j)
  PROVE  OneManager'
<1> USE NoMgrIsNoJob DEF OneManager
<1>1. GaugeInv'
  <2>1. \A m \in Job : mpc'[m] = "idle" => mpc[m] = "idle"
    BY DEF JobNext, StopOld, StopWait, StartManager, StoreManager, UpdateConfig, Return,
           mgrVars, ManagerTypes
  <2>2. UNCHANGED <<status, gauge>>
    BY DEF JobNext, StopOld, StopWait, StartManager, StoreManager, UpdateConfig, Return,
           nodeVars
  <2>3. QED
    BY <2>1, <2>2 DEF GaugeInv, Summary
<1>2. CASE StopOld(j)
  <2>1. ManagerTypes'
    BY <1>2 DEF StopOld, mgrVars, nodeVars, ManagerTypes
  <2>2. OneReload'
    BY <1>2 DEF StopOld, ManagerTypes, OneReload, Busy
  <2>3. KeptInv'
    BY <1>2 DEF StopOld, mgrVars, ManagerTypes, OneReload, Busy, KeptInv, ClearInv, Live
  <2>4. ClearInv'
    BY <1>2 DEF StopOld, mgrVars, ManagerTypes, OneReload, Busy, KeptInv, ClearInv, Live
  <2>5. QED
    BY <1>1, <2>1, <2>2, <2>3, <2>4
<1>3. CASE StopWait(j)
  <2>1. ManagerTypes'
    BY <1>3 DEF StopWait, mgrVars, nodeVars, ManagerTypes
  <2>2. OneReload'
    BY <1>3 DEF StopWait, ManagerTypes, OneReload, Busy
  <2>3. KeptInv'
    BY <1>3 DEF StopWait, mgrVars, ManagerTypes, OneReload, Busy, KeptInv, ClearInv, Live
  <2>4. ClearInv'
    BY <1>3 DEF StopWait, mgrVars, ManagerTypes, OneReload, Busy, KeptInv, ClearInv, Live
  <2>5. QED
    BY <1>1, <2>1, <2>2, <2>3, <2>4
<1>4. CASE StartManager(j)
  <2>1. ManagerTypes'
    <3>1. UNCHANGED <<old, stored, status>>
      BY <1>4 DEF StartManager, nodeVars
    <3>2. CASE config \in Checked
      <4>1. /\ mpc' = [mpc EXCEPT ![j] = "initial"]
            /\ pend' = [pend EXCEPT ![j] = Node]
            /\ jpc' = [jpc EXCEPT ![j] = "initial"]
        BY <1>4, <3>2 DEF StartManager
      <4>2. QED
        BY <3>1, <4>1 DEF ManagerTypes
    <3>3. CASE config \notin Checked
      BY <1>4, <3>1, <3>3 DEF StartManager, ManagerTypes
    <3>4. QED
      BY <3>2, <3>3
  <2>2. OneReload'
    BY <1>4 DEF StartManager, ManagerTypes, OneReload, Busy
  <2>3. KeptInv'
    BY <1>4 DEF StartManager, mgrVars, ManagerTypes, OneReload, Busy, KeptInv, ClearInv, Live
  <2>4. ClearInv'
    BY <1>4 DEF StartManager, mgrVars, ManagerTypes, OneReload, Busy, KeptInv, ClearInv, Live
  <2>5. QED
    BY <1>1, <2>1, <2>2, <2>3, <2>4
<1>5. CASE StoreManager(j)
  <2>1. ManagerTypes'
    BY <1>5 DEF StoreManager, mgrVars, nodeVars, ManagerTypes
  <2>2. OneReload'
    BY <1>5 DEF StoreManager, ManagerTypes, OneReload, Busy
  <2>3. KeptInv'
    BY <1>5 DEF StoreManager, mgrVars, ManagerTypes, OneReload, Busy, KeptInv, ClearInv, Live
  <2>4. ClearInv'
    BY <1>5 DEF StoreManager, mgrVars, ManagerTypes, OneReload, Busy, KeptInv, ClearInv, Live
  <2>5. QED
    BY <1>1, <2>1, <2>2, <2>3, <2>4
<1>6. CASE UpdateConfig(j)
  <2>1. ManagerTypes'
    BY <1>6 DEF UpdateConfig, mgrVars, nodeVars, ManagerTypes
  <2>2. OneReload'
    BY <1>6 DEF UpdateConfig, ManagerTypes, OneReload, Busy
  <2>3. KeptInv'
    BY <1>6 DEF UpdateConfig, mgrVars, ManagerTypes, OneReload, Busy, KeptInv, ClearInv, Live
  <2>4. ClearInv'
    BY <1>6 DEF UpdateConfig, mgrVars, ManagerTypes, OneReload, Busy, KeptInv, ClearInv, Live
  <2>5. QED
    BY <1>1, <2>1, <2>2, <2>3, <2>4
<1>7. CASE Return(j)
  <2>1. ManagerTypes'
    BY <1>7 DEF Return, mgrVars, nodeVars, ManagerTypes
  <2>2. OneReload'
    BY <1>7 DEF Return, ManagerTypes, OneReload, Busy
  <2>3. KeptInv'
    BY <1>7 DEF Return, mgrVars, ManagerTypes, OneReload, Busy, KeptInv, ClearInv, Live
  <2>4. ClearInv'
    BY <1>7 DEF Return, mgrVars, ManagerTypes, OneReload, Busy, KeptInv, ClearInv, Live
  <2>5. QED
    BY <1>1, <2>1, <2>2, <2>3, <2>4
<1>8. QED
  BY <1>2, <1>3, <1>4, <1>5, <1>6, <1>7 DEF JobNext

\* Reloads that do not overlap leave one manager at work.
LEMMA OneManagerStep == ~Overlap /\ OneManager /\ [Next]_vars => OneManager'
<1> SUFFICES ASSUME ~Overlap, OneManager, [Next]_vars PROVE OneManager'
  OBVIOUS
<1>1. ASSUME NEW j \in Job, JobNext(j) PROVE OneManager'
  BY <1>1, OneManagerReloads
<1>2. ASSUME NEW j \in Job, Checks(j) \/ Tick(j) \/ GoroutineEnd(j) PROVE OneManager'
  BY <1>2, OneManagerWorks
<1>3. ASSUME NEW j \in Job, NEW c \in Config, NEW api \in BOOLEAN, Load(j, c, api)
      PROVE  OneManager'
  <2>1. \A k \in Job : jpc[k] \in {"none", "done"}
    BY <1>3 DEF Load
  <2>2. jpc' = [jpc EXCEPT ![j] = "stop"] /\ UNCHANGED <<old, stored, mpc, pend, status, gauge>>
    BY <1>3 DEF Load, mgrVars, nodeVars
  <2>3. ManagerTypes'
    BY <2>2 DEF OneManager, ManagerTypes
  <2>4. OneReload'
    BY <2>1, <2>2 DEF OneManager, ManagerTypes, OneReload, Busy
  <2>5. KeptInv' /\ ClearInv'
    BY <2>1, <2>2 DEF OneManager, ManagerTypes, KeptInv, ClearInv, Live
  <2>6. GaugeInv'
    BY <2>2 DEF OneManager, GaugeInv, Summary
  <2>7. QED
    BY <2>3, <2>4, <2>5, <2>6 DEF OneManager
<1>4. CASE (\E n \in Node : Flip(n)) \/ UNCHANGED vars
  <2>1. UNCHANGED <<jpc, old, stored, mpc, pend, status, gauge>>
    BY <1>4 DEF Flip, vars, jobVars, mgrVars, nodeVars
  <2>2. ManagerTypes' /\ OneReload' /\ KeptInv' /\ ClearInv'
    BY <2>1 DEF OneManager, ManagerTypes, OneReload, Busy, KeptInv, ClearInv, Live
  <2>3. GaugeInv'
    BY <2>1 DEF OneManager, GaugeInv, Summary
  <2>4. QED
    BY <2>2, <2>3 DEF OneManager
<1>5. QED
  BY <1>1, <1>2, <1>3, <1>4 DEF Next

\* When reloads follow one another, as on SIGHUP, the gauges speak of the manager in
\* healthManagers, and between reloads no other goroutine of a manager runs
\* (initHealthManagers, Manager.Stop); for any number of reloads and whatever nodes do.
THEOREM StoredManagerAlone == ~Overlap => (Spec => []OnlyStoredManager)
<1> SUFFICES ASSUME ~Overlap PROVE Spec => []OnlyStoredManager
  OBVIOUS
<1>1. OneManager /\ [Next]_vars => OneManager'
  BY OneManagerStep
<1>2. OneManager => OnlyStoredManager
  BY DEF OneManager, GaugeInv, KeptInv, Live, OnlyStoredManager, GaugesOfStored, NoOrphan
<1>3. QED
  BY <1>1, <1>2, OneManagerInit, PTL DEF Spec
=============================================================================
