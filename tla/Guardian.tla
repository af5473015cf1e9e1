------------------------------- MODULE Guardian -------------------------------
(***************************************************************************)
(* One launch in detail: the supervising worker inside                     *)
(* SubprocessWorkflow.execute, the guardian it starts                      *)
(* (process_guardian.py) and the workflow's process group, with the three  *)
(* pipes between them.  The control pipe carries one "S" from worker to    *)
(* guardian and ends with the worker's copy of its write end; the status   *)
(* pipe carries the process identity and a final line back; the gate pipe  *)
(* holds the child before exec until the guardian writes to it, and closes *)
(* with the guardian.  Worker and guardian can be killed at any point and  *)
(* either can be arbitrarily slow.                                         *)
(***************************************************************************)
EXTENDS Naturals, Sequences, SequencesExt

VARIABLES
    worker,     \* where execute stands
    known,      \* the worker has read the process identity
    heard,      \* the final status line the worker has read, or "nothing"
    control,    \* the control pipe: "empty" or "S"
    stop,       \* the guardian's STOP flag
    guardian,   \* where supervise stands
    status,     \* the guardian's local status
    reports,    \* the status pipe: lines written and not yet read
    gate,       \* the gate pipe: "shut" (open, nothing sent), "sent", "closed"
    main,       \* the group's leader: the gated child, then the workflow
    helpers     \* background descendants in the workflow's group

guardVars == <<worker, known, heard, control, stop, guardian, status, reports,
               gate, main, helpers>>

Finals == {"exit", "TIMEOUT", "OWNER_LOST", "CANCELLED", "PROCESS_START_FAILED",
           "GUARD_FAILED"}
GuardianAlive == guardian \notin {"ended", "killed"}
OwnerPresent == worker \in {"capturing", "failing", "awaiting"}

GuardTypeOK ==
    /\ worker \in {"capturing", "failing", "awaiting", "failed", "returned", "dead"}
    /\ known \in BOOLEAN /\ stop \in BOOLEAN
    /\ heard \in Finals \cup {"nothing"}
    /\ control \in {"empty", "S"}
    /\ guardian \in {"boot", "armed", "spawned", "looping", "terminating",
                    "reporting", "ended", "killed"}
    /\ status \in Finals
    /\ reports \in {<<>>, <<"pid">>} \cup {<<"pid", f>> : f \in Finals}
                       \cup {<<f>> : f \in Finals}
    /\ gate \in {"shut", "sent", "closed"}
    /\ main \in {"none", "gated", "executing", "exited", "stopped", "barred"}
    /\ helpers \in {"none", "running", "stopped"}

(* Both processes exist: execute has just returned from Popen.             *)
GuardInit ==
    /\ worker = "capturing"
    /\ known = FALSE /\ heard = "nothing" /\ control = "empty"
    /\ stop = FALSE /\ guardian = "boot" /\ status = "GUARD_FAILED"
    /\ reports = <<>> /\ gate = "shut"
    /\ main = "none" /\ helpers = "none"

workerVars == <<worker, known, heard>>
guardianVars == <<guardian, status>>
groupVars == <<main, helpers>>

(* A signal to the whole group, with the escalation to SIGKILL that        *)
(* follows it in terminate and in stop_orphan.                             *)
GroupStops ==
    /\ main' = CASE main = "gated" -> "barred"
                 [] main = "executing" -> "stopped"
                 [] OTHER -> main
    /\ helpers' = IF helpers = "running" THEN "stopped" ELSE helpers

-----------------------------------------------------------------------------
(* The worker.  One read takes all the pipe holds; the identity is         *)
(* acknowledged as soon as it is read, the final line ends the watch on    *)
(* the pipe.                                                               *)
LastWord(lines) == IF Last(lines) = "pid" THEN "nothing" ELSE Last(lines)

WorkerReads ==
    /\ worker = "capturing" /\ heard = "nothing"
    /\ reports # <<>>
    /\ known' = (known \/ Head(reports) = "pid")
    /\ control' = IF ~known /\ known' THEN "S" ELSE control
    /\ heard' = LastWord(reports)
    /\ reports' = <<>>
    /\ UNCHANGED <<worker, stop, guardianVars, gate, groupVars>>

(* A cancellation, the deadline, a lost lease or too much output; or the   *)
(* guardian is found dead.                                                 *)
WorkerFails ==
    /\ worker = "capturing"
    /\ worker' = "failing"
    /\ UNCHANGED <<known, heard, control, stop, guardianVars, reports, gate, groupVars>>

(* The guardian has left with code 0 and the output streams have ended     *)
(* (which says nothing of processes that closed them): the rest of the     *)
(* status pipe is drained and decides what execute does.                   *)
Verdict == IF reports # <<>> THEN LastWord(reports) ELSE heard

\* Mutation: the guardian's own exit code decides.
WorkerConcludesByCode ==
    /\ worker = "capturing"
    /\ guardian = "ended"
    /\ worker' = "returned"
    /\ known' = (known \/ IsPrefix(<<"pid">>, reports))
    /\ heard' = Verdict /\ reports' = <<>>
    /\ UNCHANGED <<control, stop, guardianVars, gate, groupVars>>
WorkerConcludes ==
    /\ worker = "capturing"
    /\ guardian = "ended"
    /\ worker' = IF Verdict = "exit" THEN "returned" ELSE "failed"
    /\ known' = (known \/ IsPrefix(<<"pid">>, reports))
    /\ heard' = Verdict /\ reports' = <<>>
    /\ UNCHANGED <<control, stop, guardianVars, gate, groupVars>>

(* The finally block of execute.  A guardian that is down is survived: the *)
(* recorded group is stopped.  One that is up is asked to stop; before its *)
(* handlers are installed the signal kills it.                             *)
\* Mutation: a dead guardian is taken for one that cleaned up.
WorkerCleansUpTrusting ==
    /\ worker = "failing"
    /\ \/ /\ ~GuardianAlive
          /\ worker' = "failed"
          /\ UNCHANGED <<stop, guardian>>
       \/ /\ GuardianAlive
          /\ worker' = "awaiting"
          /\ IF guardian = "boot"
             THEN guardian' = "killed" /\ UNCHANGED stop
             ELSE stop' = TRUE /\ UNCHANGED guardian
    /\ UNCHANGED <<known, heard, control, status, reports, gate, groupVars>>
WorkerCleansUp ==
    /\ worker = "failing"
    /\ \/ /\ ~GuardianAlive
          /\ IF guardian = "killed" /\ known THEN GroupStops ELSE UNCHANGED groupVars
          /\ worker' = "failed"
          /\ UNCHANGED <<stop, guardian>>
       \/ /\ GuardianAlive
          /\ worker' = "awaiting"
          /\ IF guardian = "boot"
             THEN guardian' = "killed" /\ UNCHANGED stop
             ELSE stop' = TRUE /\ UNCHANGED guardian
          /\ UNCHANGED groupVars
    /\ UNCHANGED <<known, heard, control, status, reports, gate>>

(* wait(timeout=3) returns or gives up; then the control pipe is closed.   *)
WorkerGivesUpWaiting ==
    /\ worker = "awaiting"
    /\ worker' = "failed"
    /\ UNCHANGED <<known, heard, control, stop, guardianVars, reports, gate, groupVars>>

WorkerKilled ==
    /\ OwnerPresent
    /\ worker' = "dead"
    /\ UNCHANGED <<known, heard, control, stop, guardianVars, reports, gate, groupVars>>

-----------------------------------------------------------------------------
(* The guardian.  supervise installs its signal handlers, then looks       *)
(* whether its owner is still there: if not, nothing is started.           *)
GuardianArms ==
    /\ guardian = "boot"
    /\ guardian' = "armed"
    /\ UNCHANGED <<workerVars, control, stop, status, reports, gate, groupVars>>

GuardianLaunches ==
    /\ guardian = "armed"
    /\ \/ /\ ~OwnerPresent
          /\ guardian' = "terminating" /\ status' = "OWNER_LOST"
          /\ UNCHANGED main
       \/ /\ OwnerPresent
          /\ guardian' = "terminating" /\ status' = "PROCESS_START_FAILED"
          /\ UNCHANGED main
       \/ /\ OwnerPresent
          /\ guardian' = "spawned" /\ main' = "gated"
          /\ UNCHANGED status
    /\ UNCHANGED <<workerVars, control, stop, reports, gate, helpers>>

(* The loop is left, or never reached: the finally block closes the gate.  *)
Closed(pipe) == IF pipe = "shut" THEN "closed" ELSE pipe

(* With the worker gone nobody holds the read end: the write fails.        *)
GuardianReportsIdentity ==
    /\ guardian = "spawned"
    /\ \/ /\ OwnerPresent
          /\ guardian' = "looping"
          /\ reports' = Append(reports, "pid")
          /\ UNCHANGED <<status, gate>>
       \/ /\ ~OwnerPresent
          /\ guardian' = "terminating" /\ status' = "PROCESS_START_FAILED"
          /\ gate' = Closed(gate)
          /\ UNCHANGED reports
    /\ UNCHANGED <<workerVars, control, stop, groupVars>>

(* A round of the loop looks at STOP, the child, the deadline and the      *)
(* control pipe, where an "S" is read before the end of file.  It is not   *)
(* atomic: a later test may pass although an earlier one would by then     *)
(* have left the loop.                                                     *)
ReadsAcknowledgement == control = "S" /\ gate = "shut"
ReadsEndOfFile == ~OwnerPresent /\ ~ReadsAcknowledgement

\* Mutation: the gate is opened with the launch.
GuardianOpensGateEarly ==
    /\ guardian = "looping"
    /\ gate = "shut"
    /\ gate' = "sent"
    /\ UNCHANGED <<workerVars, control, stop, guardianVars, reports, groupVars>>
GuardianOpensGate ==
    /\ guardian = "looping"
    /\ ReadsAcknowledgement
    /\ gate' = "sent"
    /\ UNCHANGED <<workerVars, control, stop, guardianVars, reports, groupVars>>

\* Mutation: the guardian has no deadline of its own.
GuardianLeavesLoopUntimed ==
    /\ guardian = "looping"
    /\ guardian' = "terminating"
    /\ status' \in {"CANCELLED", "exit", "OWNER_LOST"}
    /\ status' = "CANCELLED" => stop
    /\ status' = "exit" => main = "exited"
    /\ status' = "OWNER_LOST" => ReadsEndOfFile
    /\ gate' = Closed(gate)
    /\ UNCHANGED <<workerVars, control, stop, reports, groupVars>>
GuardianLeavesLoop ==
    /\ guardian = "looping"
    /\ guardian' = "terminating"
    /\ status' \in {"CANCELLED", "exit", "TIMEOUT", "OWNER_LOST"}
    /\ status' = "CANCELLED" => stop
    /\ status' = "exit" => main = "exited"
    /\ status' = "OWNER_LOST" => ReadsEndOfFile
    /\ gate' = Closed(gate)
    /\ UNCHANGED <<workerVars, control, stop, reports, groupVars>>

\* Mutation: a guardian whose worker is gone leaves without terminating.
GuardianTerminatesOwned ==
    /\ guardian = "terminating"
    /\ guardian' = "reporting"
    /\ IF status = "OWNER_LOST" THEN UNCHANGED groupVars ELSE GroupStops
    /\ UNCHANGED <<workerVars, control, stop, status, reports, gate>>
\* Mutation: only the leader is waited for, its descendants are left.
GuardianTerminatesLeader ==
    /\ guardian = "terminating"
    /\ guardian' = "reporting"
    /\ main' = CASE main = "gated" -> "barred"
                 [] main = "executing" -> "stopped"
                 [] OTHER -> main
    /\ UNCHANGED <<workerVars, control, stop, status, reports, gate, helpers>>
GuardianTerminates ==
    /\ guardian = "terminating"
    /\ guardian' = "reporting"
    /\ GroupStops
    /\ UNCHANGED <<workerVars, control, stop, status, reports, gate>>

GuardianReportsStatus ==
    /\ guardian = "reporting"
    /\ guardian' = "ended"
    /\ reports' = Append(reports, status)
    /\ UNCHANGED <<workerVars, control, stop, status, gate, groupVars>>

GuardianKilled ==
    /\ GuardianAlive
    /\ guardian' = "killed"
    /\ gate' = Closed(gate)
    /\ UNCHANGED <<workerVars, control, stop, status, reports, groupVars>>

-----------------------------------------------------------------------------
(* The process group: the child behind the gate, then the workflow.        *)
ChildReadsGate ==
    /\ main = "gated"
    /\ gate # "shut"
    /\ main' = IF gate = "sent" THEN "executing" ELSE "barred"
    /\ UNCHANGED <<workerVars, control, stop, guardianVars, reports, gate, helpers>>

WorkflowForks ==
    /\ main = "executing" /\ helpers = "none"
    /\ helpers' = "running"
    /\ UNCHANGED <<workerVars, control, stop, guardianVars, reports, gate, main>>

WorkflowExits ==
    /\ main = "executing"
    /\ main' = "exited"
    /\ UNCHANGED <<workerVars, control, stop, guardianVars, reports, gate, helpers>>

-----------------------------------------------------------------------------
GuardianProgress ==
    \/ GuardianArms \/ GuardianLaunches \/ GuardianReportsIdentity
    \/ GuardianOpensGate \/ GuardianLeavesLoop \/ GuardianTerminates
    \/ GuardianReportsStatus

GuardNext ==
    \/ WorkerReads \/ WorkerFails \/ WorkerConcludes \/ WorkerCleansUp
    \/ WorkerGivesUpWaiting \/ WorkerKilled
    \/ GuardianProgress \/ GuardianKilled
    \/ ChildReadsGate \/ WorkflowForks \/ WorkflowExits

GuardSpec == GuardInit /\ [][GuardNext]_guardVars

(* The guardian runs on and its deadline comes.  The worker may be         *)
(* suspended for ever, except that one which is not leaves its loop once   *)
(* the guardian is dead and completes its finally block.                   *)
GuardFairness ==
    /\ WF_guardVars(GuardianArms \/ GuardianLaunches \/ GuardianReportsIdentity)
    /\ WF_guardVars(GuardianLeavesLoop)
    /\ WF_guardVars(GuardianTerminates)
    /\ WF_guardVars(GuardianReportsStatus)
    /\ WF_guardVars(ChildReadsGate)

WorkerFairness ==
    /\ WF_guardVars(guardian = "killed" /\ WorkerFails)
    /\ WF_guardVars(WorkerCleansUp)

FairGuardSpec == GuardSpec /\ GuardFairness /\ WorkerFairness

-----------------------------------------------------------------------------
GroupGone == main \notin {"gated", "executing"} /\ helpers # "running"

(* No workflow code executes before the worker has recorded the identity   *)
(* of its process group: whichever of the two dies, and when, there is no  *)
(* execution that the survivor cannot name (the launch gate).              *)
ExecutionIsAcknowledged == main \in {"executing", "exited", "stopped"} => known

(* The guardian leaves by itself, and so gives up its share of the         *)
(* activity lock, only when the whole group is gone, descendants included  *)
(* (terminate, also after a successful main process).                      *)
GuardianOutlivesGroup == guardian = "ended" => GroupGone

(* The outline of this launch that Execution goes by.  What is past the    *)
(* gate is the workflow; before it, what counts is whether the worker      *)
(* knows the group, and that without a guardian nothing will pass.         *)
Watchdog ==
    CASE GuardianAlive -> "up"
      [] guardian = "killed" -> "killed"
      [] guardian = "ended" -> IF status = "exit" THEN "exited" ELSE "stopped"
Flow ==
    CASE gate = "sent" -> IF main \in {"gated", "executing"} THEN "live" ELSE "over"
      [] gate # "sent" /\ ~GuardianAlive -> "barred"
      [] gate # "sent" /\ GuardianAlive ->
            IF main = "none" THEN "none" ELSE IF known THEN "signed" ELSE "gated"

(* execute returns an exit code only of a workflow that left by itself, of *)
(* which nothing is left running, as its guardian says: it is never the    *)
(* code of a process that was stopped or of one that stayed behind the     *)
(* gate.                                                                   *)
ReturnedCodesAreTrue ==
    worker = "returned" => Watchdog = "exited" /\ main = "exited" /\ GroupGone

(* A workflow does not outlast its deadline for a worker that is suspended *)
(* or dead: only the guardian's own death prevents its end.                *)
GuardianEndsExecution == main = "executing" ~> GroupGone \/ guardian = "killed"

(* A worker that finds its guardian dead, or has yet to look, stops the    *)
(* group that the guardian left, unless it dies as well.                   *)
WorkerStopsOrphans ==
    (guardian = "killed" /\ worker \in {"capturing", "failing"})
        ~> (main # "executing" \/ worker = "dead")

(* The guarantee without the restriction, as security.md words it: "If it  *)
(* dies after launch while the worker survives, the worker stops the       *)
(* recorded process group."                                                *)
SurvivingWorkerStopsGroup ==
    guardian = "killed" /\ worker \in {"failed", "returned"} => main # "executing"

Outline == INSTANCE Supervision WITH
    Launches <- {"launch"},
    guardian <- [l \in {"launch"} |-> Watchdog],
    flow <- [l \in {"launch"} |-> Flow]

(* Whatever happens on the pipes, to the processes and to the signals, the *)
(* launch takes the steps of the outline: nothing executes that was not    *)
(* acknowledged, a guardian that leaves has ended the workflow, it says    *)
(* "exit" only of one that left, and a killed one leaves at most a group   *)
(* that was let through.                                                   *)
ImplementsSupervision == Outline!SupervisionSpec
=============================================================================
