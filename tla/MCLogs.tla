------------------------------- MODULE MCLogs -------------------------------
(***************************************************************************)
(* The server log and the probe logs.  They share no state, so each is     *)
(* explored while the other rests in its initial state.                    *)
(***************************************************************************)
EXTENDS LogBuffer, ProbeLog

\* A proxy whose entries fill its channel, and one that only ends
MCMaxLog == [p1 |-> 4, p2 |-> 0]

Init == LogInit /\ ProbeInit

Next ==
  \/ LogNext /\ ProbeInit /\ UNCHANGED probeVars
  \/ ProbeNext /\ LogInit /\ UNCHANGED logVars

FairSpec == Init /\ [][Next]_<<logVars, probeVars>> /\ LogFairness /\ ProbeFairness

\* The replay gets through, a request that is over leaves nothing behind, and one that asks for a
\* proxy that has ended comes to its end.  A live stream whose proxy ends is none of these: it stays
\* open until its client leaves
RequestsProceed == ReplayCompletes /\ RequestsLeaveNothing /\ EndedProxyEndsStream

=============================================================================
