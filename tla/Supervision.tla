----------------------------- MODULE Supervision -----------------------------
(***************************************************************************)
(* A launch in outline: the guardian process and the workflow it holds     *)
(* behind a gate, without pipes, signals or the worker's part in them.     *)
(* Execution launches its workflows by these steps and no others, each     *)
(* where its worker takes it; Guardian, which has the pipes, implements    *)
(* them.                                                                   *)
(***************************************************************************)
CONSTANT Launches

VARIABLES
    guardian,   \* the watchdog process of each launch
    flow        \* the workflow process of each launch

supervisionVars == <<guardian, flow>>

SupervisionTypeOK ==
    /\ guardian \in [Launches -> {"none", "up", "exited", "stopped", "killed"}]
    /\ flow \in [Launches -> {"none", "gated", "signed", "live", "over", "barred"}]

SupervisionInit ==
    /\ guardian \in [Launches -> {"none", "up"}]
    /\ flow = [l \in Launches |-> "none"]

-----------------------------------------------------------------------------
FlowMoves(l, from, to) ==
    /\ flow[l] = from
    /\ flow' = [flow EXCEPT ![l] = to]

Begins(l) ==
    /\ guardian[l] = "none"
    /\ guardian' = [guardian EXCEPT ![l] = "up"]
    /\ UNCHANGED flow

Forks(l) == guardian[l] = "up" /\ FlowMoves(l, "none", "gated") /\ UNCHANGED guardian

(* The worker has read who the gated process is, and says so.              *)
Acknowledges(l) == guardian[l] = "up" /\ FlowMoves(l, "gated", "signed") /\ UNCHANGED guardian

OpensGate(l) == guardian[l] = "up" /\ FlowMoves(l, "signed", "live") /\ UNCHANGED guardian

(* The workflow leaves by itself, or is stopped.                           *)
Exits(l) == FlowMoves(l, "live", "over") /\ UNCHANGED guardian

(* The gate closes with the guardian, so a process still behind it leaves  *)
(* without executing the workflow.                                         *)
Barred(state) == IF state \in {"none", "gated", "signed"} THEN "barred" ELSE state

(* Exit seen, deadline, signal or end of file on the control pipe: the     *)
(* group is terminated before the guardian leaves.                         *)
Leaves(l) ==
    /\ guardian[l] = "up"
    /\ \/ flow[l] = "over" /\ guardian' = [guardian EXCEPT ![l] = "exited"]
       \/ guardian' = [guardian EXCEPT ![l] = "stopped"]
    /\ flow' = [flow EXCEPT ![l] = IF @ = "live" THEN "over" ELSE Barred(@)]

Dies(l) ==
    /\ guardian[l] = "up"
    /\ guardian' = [guardian EXCEPT ![l] = "killed"]
    /\ flow' = [flow EXCEPT ![l] = Barred(@)]

(* The worker looks after its guardian: the group of a killed one is       *)
(* stopped, which it can name, the workflow having been acknowledged.      *)
StopsOrphan(l) ==
    /\ flow' = [flow EXCEPT ![l] = IF guardian[l] = "killed" /\ @ = "live" THEN "over" ELSE @]
    /\ UNCHANGED guardian

SupervisionNext == \E l \in Launches :
    \/ Begins(l) \/ Forks(l) \/ Acknowledges(l) \/ OpensGate(l) \/ Exits(l)
    \/ Leaves(l) \/ Dies(l) \/ StopsOrphan(l)

SupervisionSpec == SupervisionInit /\ [][SupervisionNext]_supervisionVars
=============================================================================
