---------------------------- MODULE GuardianProofs ----------------------------
(***************************************************************************)
(* The supervision protocol of one launch, proved rather than enumerated.  *)
(* The argument follows the three pipes: what an acknowledgement, an open  *)
(* gate and a final status line each say about the processes is stated as  *)
(* an invariant of its own, and the properties follow from them, the       *)
(* outline that Execution goes by among them.                              *)
(***************************************************************************)
EXTENDS Guardian, SequenceTheorems, TLAPS

(* Nothing exists before the launch, and how much the guardian can have    *)
(* written at each place in supervise.                                     *)
ReportsFollowGuardian ==
    /\ guardian \in {"boot", "armed"} => main = "none"
    /\ guardian \in {"boot", "armed", "spawned"} => reports = <<>>
    /\ guardian \in {"looping", "terminating", "reporting"}
          => reports \in {<<>>, <<"pid">>}

(* An "S" on the control pipe and an open gate both mean that the worker   *)
(* knows the group.                                                        *)
AcknowledgementsAreKnown ==
    /\ control = "S" => known
    /\ gate = "sent" => known
    /\ ExecutionIsAcknowledged

(* Past terminate the group is gone.                                       *)
TerminatedGroupIsGone == guardian \in {"reporting", "ended"} => GroupGone

(* The word "exit" is only ever said of a workflow that left by itself,    *)
(* and the last word on its way to the worker, or there, is that of a      *)
(* guardian that has left.                                                 *)
FinalsAreTold ==
    /\ status = "exit" => main = "exited"
    /\ heard # "nothing" => guardian = "ended" /\ heard = status
    /\ \A i \in 1..Len(reports) : reports[i] # "pid" => guardian = "ended" /\ reports[i] = status

(* What is known, or on its way, has been launched; what has passed the    *)
(* gate was let through, and until then the process waits behind it.       *)
GateFollowsGroup ==
    /\ known => main # "none"
    /\ \A i \in 1..Len(reports) : reports[i] = "pid" => main # "none"
    /\ guardian \in {"boot", "armed", "spawned"} => gate = "shut"
    /\ guardian = "spawned" => main = "gated"
    /\ guardian = "looping" /\ gate # "sent" => gate = "shut" /\ main = "gated"
    /\ gate = "sent" => main # "none"
    /\ main \in {"executing", "exited", "stopped"} => gate = "sent"

GuardInv ==
    /\ GuardTypeOK
    /\ ReportsFollowGuardian
    /\ AcknowledgementsAreKnown
    /\ TerminatedGroupIsGone
    /\ FinalsAreTold
    /\ GateFollowsGroup
    /\ ReturnedCodesAreTrue

\* execute has just returned from Popen: nothing is known, sent or launched
LEMMA GuardInitInv == GuardInit => GuardInv
  <1> SUFFICES ASSUME GuardInit PROVE GuardInv
    OBVIOUS
  <1> USE DEF GuardInit
  <1>1. GuardTypeOK
    BY DEF GuardTypeOK, Finals
  <1>2. ReportsFollowGuardian /\ TerminatedGroupIsGone /\ ReturnedCodesAreTrue
    BY DEF ReportsFollowGuardian, TerminatedGroupIsGone, ReturnedCodesAreTrue
  <1>3. AcknowledgementsAreKnown
    BY DEF AcknowledgementsAreKnown, ExecutionIsAcknowledged
  <1>4. FinalsAreTold /\ GateFollowsGroup
    BY DEF FinalsAreTold, GateFollowsGroup
  <1> QED BY <1>1, <1>2, <1>3, <1>4 DEF GuardInv

-----------------------------------------------------------------------------
(* What the status pipe can hold, and what is read from it last.           *)
LEMMA PipeContents ==
    ASSUME GuardTypeOK
    PROVE  /\ reports \in Seq(Finals \cup {"pid"})
           /\ reports # <<>> => /\ Head(reports) \in Finals \cup {"pid"}
                                /\ Last(reports) = reports[Len(reports)]
                                /\ Len(reports) \in 1..2
                                /\ Last(reports) \in Finals \cup {"pid"}
  <1>1. CASE reports = <<>>
    BY <1>1
  <1>2. CASE reports = <<"pid">>
    BY <1>2 DEF Last
  <1>3. ASSUME NEW f \in Finals, reports = <<"pid", f>> \/ reports = <<f>>
        PROVE  /\ reports \in Seq(Finals \cup {"pid"})
               /\ Head(reports) \in Finals \cup {"pid"}
               /\ Last(reports) = reports[Len(reports)]
               /\ Len(reports) \in 1..2
               /\ Last(reports) \in Finals \cup {"pid"}
    BY <1>3 DEF Last
  <1> QED BY <1>1, <1>2, <1>3 DEF GuardTypeOK

\* a final line after the identity
LEMMA AppendToOne ==
    ASSUME NEW f PROVE Append(<<"pid">>, f) = <<"pid", f>>
  <1> DEFINE Lines == {"pid", f}
  <1>1. <<"pid">> \in Seq(Lines) /\ <<"pid", f>> \in Seq(Lines)
    OBVIOUS
  <1> HIDE DEF Lines
  <1>2. f \in Lines
    BY DEF Lines
  <1>3. /\ Append(<<"pid">>, f) \in Seq(Lines)
        /\ Len(Append(<<"pid">>, f)) = 2
        /\ \A i \in 1..2 : Append(<<"pid">>, f)[i] = <<"pid", f>>[i]
    BY <1>1, <1>2, AppendProperties
  <1> QED BY <1>1, <1>3, SeqEqual

\* no pipe ever holds more than one identity and one final line
LEMMA GuardStepTypes ==
    GuardInv /\ [GuardNext]_guardVars => GuardTypeOK' /\ ReportsFollowGuardian'
  <1> SUFFICES ASSUME GuardInv, [GuardNext]_guardVars
               PROVE  GuardTypeOK' /\ ReportsFollowGuardian'
    OBVIOUS
  <1> USE DEF GuardInv, GuardTypeOK, ReportsFollowGuardian, Finals,
              workerVars, guardianVars, groupVars
  <1>1. CASE WorkerReads
    <2>1. heard' \in Finals \cup {"nothing"}
      BY <1>1, PipeContents DEF WorkerReads, LastWord
    <2> QED BY <1>1, <2>1 DEF WorkerReads
  <1>2. CASE WorkerFails
    BY <1>2 DEF WorkerFails
  <1>3. CASE WorkerConcludes
    <2>1. heard' \in Finals \cup {"nothing"}
      BY <1>3, PipeContents DEF WorkerConcludes, Verdict, LastWord
    <2>2. known' \in BOOLEAN
      BY <1>3 DEF WorkerConcludes, IsPrefix
    <2> QED BY <1>3, <2>1, <2>2 DEF WorkerConcludes
  <1>4. CASE WorkerCleansUp
    <2>1. CASE ~GuardianAlive
      BY <1>4, <2>1 DEF WorkerCleansUp, GroupStops
    <2>2. CASE GuardianAlive
      <3>1. /\ worker' = "awaiting" /\ stop' \in BOOLEAN
            /\ guardian' \in {guardian, "killed"}
            /\ UNCHANGED <<known, heard, control, status, reports, gate, groupVars>>
        BY <1>4, <2>2 DEF WorkerCleansUp
      <3> QED BY <3>1
    <2> QED BY <2>1, <2>2
  <1>5. CASE WorkerGivesUpWaiting
    BY <1>5 DEF WorkerGivesUpWaiting
  <1>6. CASE WorkerKilled
    BY <1>6 DEF WorkerKilled
  <1>7. CASE GuardianArms
    BY <1>7 DEF GuardianArms
  <1>8. CASE GuardianLaunches
    BY <1>8 DEF GuardianLaunches
  <1>9. CASE GuardianReportsIdentity
    <2>1. reports' \in {<<>>, <<"pid">>}
      BY <1>9 DEF GuardianReportsIdentity
    <2> QED BY <1>9, <2>1 DEF GuardianReportsIdentity, Closed
  <1>10. CASE GuardianOpensGate
    BY <1>10 DEF GuardianOpensGate
  <1>11. CASE GuardianLeavesLoop
    BY <1>11 DEF GuardianLeavesLoop, Closed
  <1>12. CASE GuardianTerminates
    BY <1>12 DEF GuardianTerminates, GroupStops
  <1>13. CASE GuardianReportsStatus
    <2>1. reports' \in {<<"pid", f>> : f \in Finals} \cup {<<f>> : f \in Finals}
      <3>1. reports \in {<<>>, <<"pid">>} /\ status \in Finals
        BY <1>13 DEF GuardianReportsStatus
      <3>2. CASE reports = <<>>
        BY <1>13, <3>1, <3>2 DEF GuardianReportsStatus
      <3>3. CASE reports = <<"pid">>
        <4>1. Append(<<"pid">>, status) = <<"pid", status>>
          BY <3>1, AppendToOne, Zenon
        <4>2. reports' = <<"pid", status>>
          BY <1>13, <3>3, <4>1, Zenon DEF GuardianReportsStatus
        <4> QED BY <3>1, <4>2
      <3> QED BY <3>1, <3>2, <3>3
    <2> QED BY <1>13, <2>1 DEF GuardianReportsStatus
  <1>14. CASE GuardianKilled
    BY <1>14 DEF GuardianKilled, Closed
  <1>15. CASE ChildReadsGate \/ WorkflowForks \/ WorkflowExits
    BY <1>15 DEF ChildReadsGate, WorkflowForks, WorkflowExits
  <1>16. CASE UNCHANGED guardVars
    BY <1>16 DEF guardVars
  <1> QED
    BY <1>1, <1>2, <1>3, <1>4, <1>5, <1>6, <1>7, <1>8, <1>9, <1>10, <1>11,
       <1>12, <1>13, <1>14, <1>15, <1>16 DEF GuardNext, GuardianProgress

\* what each message and each open gate mean stays true of whoever moves
LEMMA GuardStepInv == GuardInv /\ [GuardNext]_guardVars => GuardInv'
  <1> SUFFICES ASSUME GuardInv, [GuardNext]_guardVars PROVE GuardInv'
    OBVIOUS
  <1>t. GuardTypeOK' /\ ReportsFollowGuardian'
    BY GuardStepTypes
  <1> USE DEF GuardInv, workerVars, guardianVars, groupVars
  <1>1. AcknowledgementsAreKnown'
    <2> USE DEF AcknowledgementsAreKnown, ExecutionIsAcknowledged
    <2>1. CASE WorkerReads
      BY <2>1 DEF WorkerReads
    <2>2. CASE WorkerConcludes
      BY <2>2 DEF WorkerConcludes
    <2>3. CASE WorkerCleansUp
      BY <2>3 DEF WorkerCleansUp, GroupStops
    <2>4. CASE GuardianLaunches
      BY <2>4 DEF GuardianLaunches
    <2>5. CASE GuardianReportsIdentity
      BY <2>5 DEF GuardianReportsIdentity, Closed
    <2>6. CASE GuardianOpensGate
      BY <2>6 DEF GuardianOpensGate, ReadsAcknowledgement
    <2>7. CASE GuardianLeavesLoop \/ GuardianKilled
      BY <2>7 DEF GuardianLeavesLoop, GuardianKilled, Closed
    <2>8. CASE GuardianTerminates
      BY <2>8 DEF GuardianTerminates, GroupStops
    <2>9. CASE ChildReadsGate \/ WorkflowExits \/ WorkflowForks
      BY <2>9 DEF ChildReadsGate, WorkflowExits, WorkflowForks
    <2>10. CASE WorkerFails \/ WorkerGivesUpWaiting \/ WorkerKilled \/ GuardianArms
               \/ GuardianReportsStatus \/ UNCHANGED guardVars
      BY <2>10 DEF WorkerFails, WorkerGivesUpWaiting, WorkerKilled, GuardianArms,
                   GuardianReportsStatus, guardVars
    <2> QED
      BY <2>1, <2>2, <2>3, <2>4, <2>5, <2>6, <2>7, <2>8, <2>9, <2>10
      DEF GuardNext, GuardianProgress
  <1>2. TerminatedGroupIsGone'
    <2> USE DEF TerminatedGroupIsGone, GroupGone
    <2>1. CASE WorkerCleansUp
      BY <2>1 DEF WorkerCleansUp, GroupStops, GuardianAlive
    <2>2. CASE GuardianTerminates
      BY <2>2 DEF GuardianTerminates, GroupStops
    <2>3. CASE GuardianReportsStatus
      BY <2>3 DEF GuardianReportsStatus
    <2>4. CASE ChildReadsGate \/ WorkflowExits \/ WorkflowForks
      BY <2>4 DEF ChildReadsGate, WorkflowExits, WorkflowForks
    <2>5. CASE UNCHANGED groupVars /\ guardian' \notin {"reporting", "ended"}
      BY <2>5
    <2>6. CASE UNCHANGED <<guardian, groupVars>>
      BY <2>6
    <2>7. CASE GuardianLaunches
      BY <2>7 DEF GuardianLaunches
    <2> QED
      BY <2>1, <2>2, <2>3, <2>4, <2>5, <2>6, <2>7
      DEF GuardNext, GuardianProgress, WorkerReads, WorkerFails, WorkerConcludes,
          WorkerGivesUpWaiting, WorkerKilled, GuardianArms,
          GuardianReportsIdentity, GuardianOpensGate, GuardianLeavesLoop,
          GuardianKilled, guardVars
  <1>3. main = "exited" => main' = "exited"
    <2>1. CASE WorkerCleansUp
      BY <2>1 DEF WorkerCleansUp, GroupStops
    <2>2. CASE GuardianTerminates \/ GuardianLaunches
      BY <2>2 DEF GuardianTerminates, GuardianLaunches, GroupStops,
                  ReportsFollowGuardian
    <2>3. CASE WorkflowForks \/ WorkflowExits \/ ChildReadsGate
      BY <2>3 DEF WorkflowForks, WorkflowExits, ChildReadsGate
    <2>4. CASE UNCHANGED groupVars
      BY <2>4
    <2> QED
      BY <2>1, <2>2, <2>3, <2>4
      DEF GuardNext, GuardianProgress, WorkerReads, WorkerFails, WorkerConcludes,
          WorkerGivesUpWaiting, WorkerKilled, GuardianArms,
          GuardianReportsIdentity, GuardianOpensGate, GuardianLeavesLoop,
          GuardianReportsStatus, GuardianKilled, guardVars
  <1>f. reports # <<>> /\ LastWord(reports) # "nothing"
            => LastWord(reports) = reports[Len(reports)] /\ Len(reports) \in 1..Len(reports)
               /\ reports[Len(reports)] # "pid"
    BY PipeContents DEF LastWord
  <1>4. FinalsAreTold'
    <2> USE DEF FinalsAreTold
    <2>1. CASE WorkerReads
      BY <1>f, <2>1 DEF WorkerReads
    <2>2. CASE WorkerConcludes
      BY <1>f, <2>2 DEF WorkerConcludes, Verdict
    <2>3. CASE WorkerCleansUp
      BY <1>3, <2>3 DEF WorkerCleansUp, GuardianAlive
    <2>4. CASE GuardianLaunches
      BY <1>3, <2>4 DEF GuardianLaunches
    <2>5. CASE GuardianReportsIdentity
      <3>1. reports = <<>> /\ heard = "nothing"
        BY <2>5 DEF GuardianReportsIdentity, ReportsFollowGuardian
      <3> QED BY <1>3, <2>5, <3>1 DEF GuardianReportsIdentity
    <2>6. CASE GuardianLeavesLoop
      BY <1>3, <2>6 DEF GuardianLeavesLoop
    <2>7. CASE GuardianReportsStatus
      <3>1. reports' = Append(reports, status)
        BY <2>7 DEF GuardianReportsStatus
      <3>2. \A i \in 1..Len(reports') : reports'[i] # "pid" => reports'[i] = status
        BY <2>7, <3>1, PipeContents DEF GuardianReportsStatus
      <3> QED BY <1>3, <2>7, <3>2 DEF GuardianReportsStatus
    <2>8. CASE GuardianKilled
      BY <1>3, <2>8 DEF GuardianKilled, GuardianAlive
    <2>9. CASE GuardianArms \/ GuardianTerminates
      BY <1>3, <2>9 DEF GuardianArms, GuardianTerminates
    <2>10. CASE UNCHANGED <<guardian, status, heard, reports>>
      BY <1>3, <2>10
    <2> QED
      BY <2>1, <2>2, <2>3, <2>4, <2>5, <2>6, <2>7, <2>8, <2>9, <2>10
      DEF GuardNext, GuardianProgress, WorkerFails, WorkerGivesUpWaiting,
          WorkerKilled, GuardianOpensGate, ChildReadsGate, WorkflowForks, WorkflowExits,
          guardVars
  <1>6. GateFollowsGroup'
    <2> USE DEF GateFollowsGroup
    <2>1. CASE WorkerReads
      <3>1. Head(reports) = "pid" => reports[1] = "pid" /\ 1 \in 1..Len(reports)
        BY <2>1, PipeContents DEF WorkerReads
      <3>2. known' => main # "none"
        BY <2>1, <3>1, Zenon DEF WorkerReads
      <3>3. \A i \in 1..Len(reports') : reports'[i] = "pid" => FALSE
        BY <2>1 DEF WorkerReads
      <3> QED BY <2>1, <3>2, <3>3 DEF WorkerReads
    <2>2. CASE WorkerConcludes
      <3>1. IsPrefix(<<"pid">>, reports) => reports[1] = "pid" /\ 1 \in 1..Len(reports)
        BY PipeContents DEF IsPrefix
      <3>2. known' => main # "none"
        BY <2>2, <3>1, Zenon DEF WorkerConcludes
      <3>3. \A i \in 1..Len(reports') : reports'[i] = "pid" => FALSE
        BY <2>2 DEF WorkerConcludes
      <3> QED BY <2>2, <3>2, <3>3 DEF WorkerConcludes
    <2>3. CASE WorkerCleansUp
      BY <2>3 DEF WorkerCleansUp, GroupStops
    <2>4. CASE GuardianLaunches
      BY <2>4 DEF GuardianLaunches, ReportsFollowGuardian
    <2>5. CASE GuardianReportsIdentity
      BY <2>5, PipeContents DEF GuardianReportsIdentity, Closed
    <2>6. CASE GuardianReportsStatus
      <3>1. reports' = Append(reports, status) /\ status # "pid"
        BY <2>6 DEF GuardianReportsStatus, GuardTypeOK, Finals
      <3>2. \A i \in 1..Len(reports') : reports'[i] = "pid"
              => \E j \in 1..Len(reports) : reports[j] = "pid"
        BY <3>1, PipeContents
      <3> QED BY <2>6, <3>2 DEF GuardianReportsStatus
    <2>7. CASE GuardianArms \/ GuardianOpensGate
      BY <2>7 DEF GuardianArms, GuardianOpensGate, ReadsAcknowledgement
    <2>8. CASE GuardianLeavesLoop \/ GuardianKilled
      BY <2>8 DEF GuardianLeavesLoop, GuardianKilled, Closed
    <2>9. CASE GuardianTerminates
      BY <2>9 DEF GuardianTerminates, GroupStops
    <2>10. CASE ChildReadsGate \/ WorkflowExits \/ WorkflowForks
      BY <2>10 DEF ChildReadsGate, WorkflowExits, WorkflowForks
    <2>11. CASE UNCHANGED <<known, guardian, reports, gate, main>>
      BY <2>11
    <2> QED
      BY <2>1, <2>2, <2>3, <2>4, <2>5, <2>6, <2>7, <2>8, <2>9, <2>10, <2>11
      DEF GuardNext, GuardianProgress, WorkerFails, WorkerGivesUpWaiting, WorkerKilled,
          guardVars
  <1>5. ReturnedCodesAreTrue'
    <2> USE DEF ReturnedCodesAreTrue, GroupGone
    <2>1. CASE WorkerConcludes
      <3>1. Verdict = "exit" => status = "exit" /\ main = "exited"
        BY <1>f DEF Verdict, FinalsAreTold
      <3> QED
        BY <2>1, <3>1 DEF WorkerConcludes, TerminatedGroupIsGone, Watchdog, GuardianAlive
    <2>2. CASE worker' # "returned"
      BY <2>2
    <2>3. CASE worker = "returned" /\ ~WorkerConcludes
      <3>1. guardian = "ended" /\ status = "exit"
        BY <2>3 DEF Watchdog, GuardianAlive
      <3>2. CASE ChildReadsGate \/ WorkflowForks \/ WorkflowExits
        BY <2>3, <3>2 DEF ChildReadsGate, WorkflowForks, WorkflowExits
      <3>3. CASE UNCHANGED <<guardian, status, main, helpers>>
        BY <2>3, <3>3 DEF Watchdog, GuardianAlive
      <3> QED
        BY <2>3, <3>1, <3>2, <3>3
        DEF GuardNext, GuardianProgress, WorkerReads, WorkerFails, WorkerCleansUp,
            WorkerGivesUpWaiting, WorkerKilled, OwnerPresent, GuardianArms, GuardianLaunches,
            GuardianReportsIdentity, GuardianOpensGate, GuardianLeavesLoop,
            GuardianTerminates, GuardianReportsStatus, GuardianKilled, GuardianAlive, guardVars
    <2> QED
      BY <2>1, <2>2, <2>3
      DEF GuardNext, GuardianProgress, WorkerReads, WorkerFails, WorkerCleansUp,
          WorkerGivesUpWaiting, WorkerKilled, GuardianArms, GuardianLaunches,
          GuardianReportsIdentity, GuardianOpensGate, GuardianLeavesLoop, GuardianTerminates,
          GuardianReportsStatus, GuardianKilled, ChildReadsGate, WorkflowForks, WorkflowExits,
          guardVars
  <1> QED BY <1>t, <1>1, <1>2, <1>4, <1>5, <1>6

\* the invariant the theorems are read from
LEMMA GuardInvariant == GuardSpec => []GuardInv
  BY GuardInitInv, GuardStepInv, PTL DEF GuardSpec

(* The pipes and processes keep their types: among others, the worker is   *)
(* sent one identity and one final line and never more.                    *)
THEOREM GuardTypes == GuardSpec => []GuardTypeOK
  <1>1. GuardInv => GuardTypeOK
    BY DEF GuardInv
  <1> QED BY <1>1, GuardInvariant, PTL

(* No workflow code executes before the worker knows its group.            *)
THEOREM NothingExecutesUnacknowledged == GuardSpec => []ExecutionIsAcknowledged
  <1>1. GuardInv => ExecutionIsAcknowledged
    BY DEF GuardInv, AcknowledgementsAreKnown
  <1> QED BY <1>1, GuardInvariant, PTL

(* A guardian that leaves by itself leaves nothing of the group behind.    *)
THEOREM GuardianLeavesNothing == GuardSpec => []GuardianOutlivesGroup
  <1>1. GuardInv => GuardianOutlivesGroup
    BY DEF GuardInv, TerminatedGroupIsGone, GuardianOutlivesGroup
  <1> QED BY <1>1, GuardInvariant, PTL

(* An exit code is only returned for a workflow that exited by itself.     *)
THEOREM ExitCodesAreGenuine == GuardSpec => []ReturnedCodesAreTrue
  <1>1. GuardInv => ReturnedCodesAreTrue
    BY DEF GuardInv
  <1> QED BY <1>1, GuardInvariant, PTL

-----------------------------------------------------------------------------
(* The outline.  A step of the launch is one of Supervision, or it leaves  *)
(* guardian and workflow as the outline sees them.                         *)

\* a guardian that has just been started
LEMMA OutlineBegins == GuardInit => Outline!SupervisionInit
  BY DEF GuardInit, Outline!SupervisionInit, Watchdog, Flow, GuardianAlive

\* what a step does to the outline
Outlined(w, f) == Watchdog' = w /\ Flow' = f

\* a step that does this, or nothing, to the outline is one of its steps
LEMMA OutlineSteps ==
    ASSUME \/ Outlined(Watchdog, Flow)
           \/ Watchdog = "up" /\ Flow = "none" /\ Outlined("up", "gated")
           \/ Watchdog = "up" /\ Flow = "gated" /\ Outlined("up", "signed")
           \/ Watchdog = "up" /\ Flow = "signed" /\ Outlined("up", "live")
           \/ Flow = "live" /\ Outlined(Watchdog, "over")
           \/ Watchdog = "up" /\ Flow = "over" /\ Outlined("exited", "over")
           \/ Watchdog = "up" /\ Flow # "live" /\ Outlined("stopped", Outline!Barred(Flow))
           \/ Watchdog = "up" /\ Outlined("killed", Outline!Barred(Flow))
    PROVE  [Outline!SupervisionNext]_(Outline!supervisionVars)
  <1> DEFINE G == [l \in {"launch"} |-> Watchdog]
             F == [l \in {"launch"} |-> Flow]
             Step == Outline!SupervisionNext
  <1>1. G["launch"] = Watchdog /\ F["launch"] = Flow
    OBVIOUS
  <1>2. \A w, f : Outlined(w, f)
           => G' = [G EXCEPT !["launch"] = w] /\ F' = [F EXCEPT !["launch"] = f]
    BY DEF Outlined
  <1>3. \A w, f : Outlined(w, f) /\ w = Watchdog => UNCHANGED G
    BY DEF Outlined
  <1>4. \A w, f : Outlined(w, f) /\ f = Flow => UNCHANGED F
    BY DEF Outlined
  <1> QED
    BY <1>1, <1>2, <1>3, <1>4
    DEF Outline!SupervisionNext, Outline!supervisionVars, Outline!FlowMoves, Outline!Begins,
        Outline!Forks, Outline!Acknowledges, Outline!OpensGate, Outline!Exits, Outline!Barred,
        Outline!Leaves, Outline!Dies, Outline!StopsOrphan

\* reading the identity acknowledges, the gate opens on it, and whatever ends the group
\* while the guardian is up has ended it before the guardian leaves
LEMMA StepsAreOutlined ==
    GuardInv /\ [GuardNext]_guardVars => [Outline!SupervisionNext]_(Outline!supervisionVars)
  <1> SUFFICES ASSUME GuardInv, [GuardNext]_guardVars
               PROVE  [Outline!SupervisionNext]_(Outline!supervisionVars)
    OBVIOUS
  <1> USE DEF GuardInv, workerVars, guardianVars, groupVars, Watchdog, Flow, GuardianAlive,
              GateFollowsGroup, Outlined
  <1>t. known \in BOOLEAN /\ GuardTypeOK'
    BY GuardStepTypes DEF GuardTypeOK
  <1>1. CASE WorkerReads
    <2>1. Head(reports) = "pid" => reports[1] = "pid" /\ 1 \in 1..Len(reports)
      BY <1>1, PipeContents DEF WorkerReads
    <2>2. known' => main # "none"
      BY <1>1, <2>1, Zenon DEF WorkerReads
    <2>3. known => known'
      BY <1>1, Zenon DEF WorkerReads
    <2> QED BY <1>1, <1>t, <2>2, <2>3, OutlineSteps DEF WorkerReads, GuardTypeOK
  <1>2. CASE WorkerConcludes
    BY <1>2, OutlineSteps DEF WorkerConcludes
  <1>3. CASE WorkerCleansUp
    BY <1>3, OutlineSteps, <1>t DEF WorkerCleansUp, GroupStops, AcknowledgementsAreKnown,
       ReportsFollowGuardian, Outline!Barred
  <1>4. CASE GuardianLaunches
    BY <1>4, OutlineSteps DEF GuardianLaunches, ReportsFollowGuardian
  <1>5. CASE GuardianReportsIdentity
    BY <1>5, OutlineSteps DEF GuardianReportsIdentity, Closed
  <1>6. CASE GuardianOpensGate
    BY <1>6, OutlineSteps DEF GuardianOpensGate, ReadsAcknowledgement, AcknowledgementsAreKnown
  <1>7. CASE GuardianLeavesLoop
    BY <1>7, OutlineSteps DEF GuardianLeavesLoop, Closed
  <1>8. CASE GuardianTerminates
    BY <1>8, OutlineSteps DEF GuardianTerminates, GroupStops
  <1>9. CASE GuardianReportsStatus
    BY <1>9, OutlineSteps, <1>t
    DEF GuardianReportsStatus, FinalsAreTold, TerminatedGroupIsGone, GroupGone, Outline!Barred
  <1>10. CASE GuardianKilled
    BY <1>10, OutlineSteps DEF GuardianKilled, Closed, Outline!Barred
  <1>11. CASE ChildReadsGate
    BY <1>11, OutlineSteps DEF ChildReadsGate
  <1>12. CASE WorkflowExits
    BY <1>12, OutlineSteps DEF WorkflowExits
  <1>13. CASE GuardianArms
    BY <1>13, OutlineSteps DEF GuardianArms
  <1>14. CASE UNCHANGED <<known, guardian, status, gate, main>>
    BY <1>14, OutlineSteps
  <1> QED
    BY <1>1, <1>2, <1>3, <1>4, <1>5, <1>6, <1>7, <1>8, <1>9, <1>10, <1>11, <1>12, <1>13, <1>14
    DEF GuardNext, GuardianProgress, WorkerFails, WorkerGivesUpWaiting, WorkerKilled,
        WorkflowForks, guardVars

(* Every launch, with its pipes, signals and deaths, is one of the outline *)
(* that Execution composes with callers, ledger and recovery.              *)
THEOREM LaunchesAreOutlined == GuardSpec => ImplementsSupervision
  <1>1. GuardSpec => Outline!SupervisionInit /\ [][Outline!SupervisionNext]_(Outline!supervisionVars)
    BY GuardInvariant, OutlineBegins, StepsAreOutlined, PTL DEF GuardSpec
  <1> QED BY <1>1 DEF ImplementsSupervision, Outline!SupervisionSpec
=============================================================================
