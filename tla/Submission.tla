----------------------------- MODULE Submission -----------------------------
(***************************************************************************)
(* Execution, and a history of the submissions that outran their lease: a  *)
(* caller suspended between its create and its launch for longer than the  *)
(* lease finds the run settled by someone else, and goes on writing.       *)
(***************************************************************************)
EXTENDS Execution

VARIABLE late   \* history: runs whose caller was overtaken by their lease

submissionVars == <<execVars, late>>

SubmissionNext ==
    /\ ExecNext
    /\ late' = late \cup {r \in Runs : submitter[r] \in Submitting /\ ~LeaseGood(r)}'

SubmissionSpec ==
    /\ ExecInit /\ late = {}
    /\ [][SubmissionNext]_submissionVars
    /\ ExecFairness

(* Once a run is settled or removed and its caller and worker are done, no *)
(* submitted input or raw evidence is left, and result.json, if there,     *)
(* repeats the ledger's verdict (save_result, scrub_inputs, settled),      *)
(* unless its caller was late.                                             *)
SettledRunsAreClean ==
    \A r \in Runs \ late :
        /\ asked[r] # "fresh" /\ ~Running(r) /\ ~rows[r].pending
        /\ submitter[r] = "ended" /\ worker[r] \in {"none", "gone"}
        => /\ store[r].private = {} /\ store[r].raw = None
           /\ store[r].result \in {None, rows[r].verdict}
=============================================================================
