----------------------------- MODULE ExecutionProofs -----------------------------
(***************************************************************************)
(* The processes around the ledger keep resources exclusive, results       *)
(* truthful and settled runs clean, for any runs, keys, lease, declared    *)
(* effects and reports: what the ledger guarantees is taken over from      *)
(* RunLedgerProofs, and the activity lock does the rest.                   *)
(***************************************************************************)
EXTENDS Submission, TLAPS

Ledger == INSTANCE RunLedgerProofs WITH Owners <- Runs, Requests <- {}

\* the outline of a launch, which the actions are composed of
USE DEF SupervisionTypeOK, FlowMoves, Begins, Forks, Acknowledges, OpensGate, Exits, Barred,
        Leaves, Dies, StopsOrphan

(* A run asks for the key of its resource and for no other.                *)
AskedIsOwnKey == \A r \in Runs : asked[r] \in {"fresh", KeyOf[r]}

(* A worker only ever commits a verdict of its own.                        *)
WorkerVerdicts == {"completed", "cancelled", "failed"}
DraftsAreReportable == \A r \in Runs : draft[r].verdict \in WorkerVerdicts

(* The activity lock: never exclusive while it is shared.                  *)
LockExcludes == \A r \in Runs : Exclusive(r) => ~Shared(r)

(* From its claim on, a run whose processes hold the lock is not settled.  *)
Bound(r) ==
    \/ worker[r] \in {"claimed", "waiting", "watching", "done", "committed"}
    \/ guardian[r] = "up"
    \/ flow[r] \in {"gated", "signed", "live"}
BoundRunsAreUnsettled == \A r \in Runs : Bound(r) => Exists(r) /\ ~Settled(r)

(* What a finalizer read before it began to write is still what the ledger *)
(* says when it settles the run.                                           *)
FinalizerSees ==
    \A r \in Runs : finalizer[r].pc \in {"saving", "scrubbing", "settling"} =>
        Terminal(r) /\ rows[r].pending /\ finalizer[r].seen = ResultOf(r)

ExecInv ==
    /\ ExecTypeOK
    /\ Ledger!LedgerInv
    /\ AskedIsOwnKey
    /\ DraftsAreReportable
    /\ LockExcludes
    /\ BoundRunsAreUnsettled
    /\ FinalizerSees

-----------------------------------------------------------------------------
(* The ledger's own constants satisfy its assumptions.                     *)
LEMMA LedgerConstants ==
    /\ Lease \in Nat /\ Horizon \in Nat /\ BusyWait \in Nat /\ Lease < Horizon
    /\ None \notin Runs \cup Keys \cup {} \cup Runs
    /\ "fresh" \notin Keys \cup {None}
  BY ExecutionAssumption

LEMMA LedgerKeepsInv ==
    Ledger!LedgerInv /\ [Ledger!LedgerNext]_(Ledger!ledgerVars) => Ledger!LedgerInv'
  BY LedgerConstants, Ledger!LedgerStepInv

LEMMA SameLedger ==
    ASSUME Ledger!LedgerInv
    PROVE  /\ LedgerTypeOK
           /\ OpenRunsHoldTheirKey
           /\ \A r \in Runs : Exists(r) => asked[r] # "fresh"
  BY DEF Ledger!LedgerInv, Ledger!LedgerTypeOK, LedgerTypeOK, Ledger!Row, Row,
         Ledger!Decided, Decided, Ledger!Effects, Effects, Ledger!Ages, Ages,
         Ledger!OpenRunsHoldTheirKey, OpenRunsHoldTheirKey, Ledger!RowsAreAsked,
         Ledger!Exists, Exists, Ledger!Settled, Settled, Ledger!Terminal, Terminal,
         Ledger!Holds, Holds

(* Every step of the processes is a step of the ledger or leaves it alone. *)
LEMMA StepsAreLedgerSteps ==
    ASSUME ExecInv, [ExecNext]_execVars
    PROVE  [Ledger!LedgerNext]_(Ledger!ledgerVars)
  <1> USE ExecutionAssumption
      DEF Ledger!ledgerVars, Exists, Ledger!Exists, Running, Ledger!Running,
          Terminal, Ledger!Terminal, Settled, Ledger!Settled, LeaseGood,
          Ledger!LeaseGood, Decided, Ledger!Decided, Effects, Ledger!Effects
  <1>1. CASE Time
    <2>1. Ledger!Tick
      BY <1>1 DEF Time, Tick, Ledger!Tick, Older, Ledger!Older
    <2> QED BY <2>1 DEF Ledger!LedgerNext
  <1>2. ASSUME NEW r \in Runs, Submit(r) PROVE Ledger!LedgerNext
    <2>1. Ledger!Create(r, KeyOf[r], None, Declared(r))
      BY <1>2 DEF Submit, Create, Ledger!Create, RequestFree, Ledger!RequestFree,
                  KeyFree, Ledger!KeyFree, NoRow, Ledger!NoRow
    <2>2. Declared(r) \in {"none", "unknown"}
      BY DEF Declared
    <2>3. Ledger!CreateSome(r)
      BY <2>1, <2>2 DEF Ledger!CreateSome
    <2> QED BY <2>3 DEF Ledger!LedgerNext
  <1>3. ASSUME NEW r \in Runs, Get(r) PROVE Ledger!LedgerNext
    <2>1. Ledger!Get(r)
      BY <1>3 DEF Get, Ledger!Get, Expired, Ledger!Expired, Lost, Ledger!Lost
    <2> QED BY <2>1 DEF Ledger!LedgerNext
  <1>4. ASSUME NEW r \in Runs, Claim(r, r) PROVE Ledger!LedgerNext
    <2>1. Ledger!Claim(r, r)
      BY <1>4 DEF Claim, Ledger!Claim, CanClaim, Ledger!CanClaim
    <2> QED BY <2>1 DEF Ledger!LedgerNext, Ledger!ClaimSome
  <1>5. ASSUME NEW r \in Runs, NEW wait \in 0..BusyWait, Heartbeat(r, r, wait)
        PROVE  Ledger!LedgerNext
    <2>1. Ledger!Heartbeat(r, r, wait)
      BY <1>5 DEF Heartbeat, Ledger!Heartbeat, CanBeat, Ledger!CanBeat
    <2> QED BY <2>1 DEF Ledger!LedgerNext, Ledger!HeartbeatSome
  <1>6. ASSUME NEW r \in Runs, Finish(r, None, "unstarted", "none")
        PROVE  Ledger!LedgerNext
    <2>1. Ledger!FinishByLauncher(r)
      BY <1>6 DEF Finish, CanFinish, Ledger!FinishByLauncher, Ledger!Finish,
                  Ledger!CanFinish
    <2> QED BY <2>1 DEF Ledger!LedgerNext
  <1>7. ASSUME NEW r \in Runs, NEW verdict \in WorkerVerdicts,
               NEW effects \in Effects, Finish(r, r, verdict, effects)
        PROVE  Ledger!LedgerNext
    <2>1. Ledger!Finish(r, r, verdict, effects)
      BY <1>7 DEF Finish, CanFinish, Ledger!Finish, Ledger!CanFinish
    <2> QED BY <2>1 DEF Ledger!LedgerNext, Ledger!FinishByWorker, WorkerVerdicts
  <1>8. ASSUME NEW r \in Runs, Settle(r, ReleasesKey(rows[r].effects))
        PROVE  Ledger!LedgerNext
    <2>1. Ledger!SettleSome(r)
      BY <1>8 DEF Settle, ReleasesKey, Unresolved, WithoutLocksOf,
                  Ledger!SettleSome, Ledger!Settle, Ledger!ReleasesKey,
                  Ledger!Unresolved, Ledger!WithoutLocksOf
    <2> QED BY <2>1 DEF Ledger!LedgerNext
  <1>9. ASSUME NEW r \in Runs, Release(r) PROVE Ledger!LedgerNext
    <2>1. Ledger!Release(r)
      BY <1>9 DEF Release, Releasable, WithoutLocksOf, Ledger!Release,
                  Ledger!Releasable, Ledger!WithoutLocksOf
    <2> QED BY <2>1 DEF Ledger!LedgerNext
  <1>10. ASSUME NEW r \in Runs, Delete(r) PROVE Ledger!LedgerNext
    <2>1. Ledger!Delete(r)
      BY <1>10 DEF Delete, Deletable, HoldsAny, Holds, NoRow, Ledger!Delete,
                   Ledger!Deletable, Ledger!HoldsAny, Ledger!Holds, Ledger!NoRow
    <2> QED BY <2>1 DEF Ledger!LedgerNext
  <1>11. ASSUME NEW r \in Runs, SubmitterStep(r)
         PROVE  Ledger!LedgerNext \/ UNCHANGED tables
    BY <1>2, <1>6, <1>11
    DEF SubmitterStep, PrepareWrite, Launch, SubmissionFails, ReportStartFailure
  <1>12. ASSUME NEW r \in Runs, WorkerStep(r)
         PROVE  Ledger!LedgerNext \/ UNCHANGED tables
    <2>1. CASE WorkerCommits(r)
      <3>1. draft[r].verdict \in WorkerVerdicts /\ draft[r].effects \in Effects
        BY DEF ExecInv, ExecTypeOK, DraftsAreReportable, Result
      <3> QED BY <1>7, <2>1, <3>1 DEF WorkerCommits
    <2>2. CASE WorkerChecksLease(r) \/ WorkerClaims(r) \/ WorkerBeats(r)
      BY <1>3, <1>4, <1>5, <2>2 DEF WorkerChecksLease, WorkerClaims, WorkerBeats
    <2> QED
      BY <1>12, <2>1, <2>2
      DEF WorkerStep, WorkerReadsJob, WorkerTakesGuard, WorkerRefuses,
          WorkerCannotStart, WorkerStartsGuardian, WorkerAcknowledges, WorkerStops,
          WorkerCollects, WorkerLeaves, WorkerDies
  <1>13. ASSUME NEW r \in Runs, GuardianStep(r) PROVE UNCHANGED tables
    BY <1>13
    DEF GuardianStep, GuardianLaunches, GuardianOpensGate, WorkflowExits,
        GuardianEnds, GuardianKilled
  <1>14. ASSUME NEW r \in Runs, RecoveryStep(r)
         PROVE  Ledger!LedgerNext \/ UNCHANGED tables
    <2>1. CASE FinishFinalization(r)
      <3>1. finalizer[r].pc = "settling"
        BY <2>1 DEF FinishFinalization
      <3>s. finalizer[r].seen = ResultOf(r)
        BY <3>1 DEF ExecInv, FinalizerSees
      <3>2. finalizer[r].seen.effects = rows[r].effects
        BY <3>s DEF ResultOf
      <3> QED BY <1>8, <2>1, <3>2 DEF FinishFinalization
    <2> QED
      BY <1>3, <1>9, <1>10, <1>14, <2>1
      DEF RecoveryStep, Observe, RequestCancel, Finalize, SaveResult, ScrubInputs,
          StorageFails, Reconcile, CleanupFiles, CleanupRow, FinalizerDies
  <1>15. CASE UNCHANGED execVars
    BY <1>15 DEF execVars, tables
  <1> QED
    BY <1>1, <1>11, <1>12, <1>13, <1>14, <1>15 DEF ExecNext, tables

LEMMA ExecInitInv == ExecInit => ExecInv
  <1> SUFFICES ASSUME ExecInit PROVE ExecInv
    OBVIOUS
  <1>1. Ledger!LedgerInv
    <2>1. Ledger!LedgerInit
      BY DEF ExecInit, LedgerInit, Ledger!LedgerInit, NoRow, Ledger!NoRow
    <2> QED BY <2>1, LedgerConstants, Ledger!LedgerInitInv
  <1>2. ExecTypeOK
    BY <1>1, SameLedger
    DEF ExecInit, ExecTypeOK, Submitting, Guarding, Result, NoResult, EmptyStore,
        Idle, Decided, Effects
  <1>3. BoundRunsAreUnsettled /\ LockExcludes
    BY DEF ExecInit, BoundRunsAreUnsettled, LockExcludes, Bound, Exclusive, Idle
  <1>4. AskedIsOwnKey /\ DraftsAreReportable /\ FinalizerSees
    BY DEF ExecInit, LedgerInit, AskedIsOwnKey, DraftsAreReportable, FinalizerSees,
           WorkerVerdicts, Idle, NoResult
  <1> QED BY <1>1, <1>2, <1>3, <1>4 DEF ExecInv

-----------------------------------------------------------------------------
(* ExecTypeOK in parts.                                                    *)
ProcessTypes ==
    /\ submitter \in [Runs -> Submitting \cup {"idle", "ended"}]
    /\ worker \in [Runs -> Guarding \cup {"none", "born", "ready", "gone"}]
    /\ draft \in [Runs -> Result]
    /\ guardian \in [Runs -> {"none", "up", "exited", "stopped", "killed"}]
    /\ flow \in [Runs -> {"none", "gated", "signed", "live", "over", "barred"}]
StoreOfRun == [dir: BOOLEAN, private: SUBSET {"job", "inputs"},
               raw: Reports \cup {"invalid", None},
               result: Decided \cup {"running", None},
               evidence: Reports \cup {None}, cancel: BOOLEAN]
FinalizerOfRun == [pc: {"idle", "saving", "scrubbing", "settling", "deleting"},
                   clean: BOOLEAN, seen: Result]
StoreType == store \in [Runs -> StoreOfRun]
FinalizerType == finalizer \in [Runs -> FinalizerOfRun]

LEMMA TypeParts ==
    ExecTypeOK <=> LedgerTypeOK /\ ProcessTypes /\ StoreType /\ FinalizerType
  BY DEF ExecTypeOK, ProcessTypes, StoreType, FinalizerType, StoreOfRun, FinalizerOfRun

LEMMA StepProcessTypes ==
    ASSUME ExecInv, [ExecNext]_execVars PROVE ProcessTypes'
  <1>r. ProcessTypes /\ StoreType
    BY TypeParts DEF ExecInv
  <1>e. Effects = {"none", "completed", "partial", "unknown"} /\ Reports \subseteq Effects
    BY ExecutionAssumption DEF Effects
  <1> USE <1>r DEF ProcessTypes, Submitting, Guarding
  <1>1. ASSUME NEW r \in Runs, SubmitterStep(r) PROVE ProcessTypes'
    BY <1>1
    DEF SubmitterStep, Submit, PrepareWrite, Launch, SubmissionFails,
        ReportStartFailure
  <1>2. ASSUME NEW r \in Runs, WorkerStep(r) PROVE ProcessTypes'
    <2>1. CASE WorkerReadsJob(r) \/ WorkerTakesGuard(r) \/ WorkerChecksLease(r)
               \/ WorkerClaims(r) \/ WorkerLeaves(r)
      BY <2>1 DEF WorkerReadsJob, WorkerTakesGuard, WorkerChecksLease,
                  WorkerClaims, WorkerLeaves, WorkerMoves
    <2>2. ASSUME NEW verdict \in Decided, NEW effects \in Effects,
                 Drafts(r, verdict, effects)
          PROVE  draft' \in [Runs -> Result]
      BY <2>2 DEF Drafts, Result
    <2>3. Declared(r) \in Effects
      BY <1>e DEF Declared
    <2>4. CASE WorkerRefuses(r)
      BY <2>2, <2>4, <1>e DEF WorkerRefuses, WorkerMoves, Decided
    <2>5. CASE WorkerCannotStart(r)
      BY <2>2, <2>3, <2>5 DEF WorkerCannotStart, WorkerMoves, Decided
    <2>6. CASE WorkerStartsGuardian(r) \/ WorkerBeats(r) \/ WorkerAcknowledges(r)
      BY <2>6 DEF WorkerStartsGuardian, WorkerBeats, WorkerAcknowledges, WorkerMoves
    <2>7. CASE WorkerStops(r)
      <3>1. draft' \in [Runs -> Result]
        BY <2>2, <2>3, <2>7 DEF WorkerStops, Decided
      <3> QED BY <2>7, <3>1 DEF WorkerStops
    <2>8. CASE WorkerCollects(r)
      <3>1. draft' \in [Runs -> Result]
        BY <2>2, <2>3, <2>8, <1>e DEF WorkerCollects, Decided
      <3> QED BY <2>8, <3>1 DEF WorkerCollects, WorkerMoves
    <2>9. NoResult \in Result
      BY <1>e DEF NoResult, Result, Decided
    <2>10. CASE WorkerCommits(r)
      BY <2>9, <2>10 DEF WorkerCommits, WorkerMoves
    <2>11. CASE WorkerDies(r)
      BY <2>9, <2>11 DEF WorkerDies
    <2> QED
      BY <1>2, <2>1, <2>4, <2>5, <2>6, <2>7, <2>8, <2>10, <2>11 DEF WorkerStep
  <1>3. ASSUME NEW r \in Runs, GuardianStep(r) PROVE ProcessTypes'
    BY <1>3
    DEF GuardianStep, GuardianLaunches, GuardianOpensGate, WorkflowExits,
        GuardianEnds, GuardianKilled, Barred
  <1>4. ASSUME NEW r \in Runs, RecoveryStep(r) PROVE ProcessTypes'
    BY <1>4
    DEF RecoveryStep, Observe, RequestCancel, Finalize, SaveResult, ScrubInputs,
        StorageFails, FinishFinalization, Reconcile, CleanupFiles, CleanupRow,
        FinalizerDies, processVars
  <1>5. CASE Time \/ UNCHANGED execVars
    BY <1>5 DEF Time, execVars, processVars
  <1> HIDE DEF ProcessTypes
  <1> QED BY <1>1, <1>2, <1>3, <1>4, <1>5 DEF ExecNext

LEMMA StepStoreType ==
    ASSUME ExecInv, [ExecNext]_execVars PROVE StoreType'
  <1>r. StoreType /\ FinalizerType
    BY TypeParts DEF ExecInv
  <1> USE <1>r DEF StoreType
  <1>1. ASSUME NEW r \in Runs, PrepareWrite(r) PROVE StoreType'
    <2> DEFINE old == store[r]
    <2>o. old \in StoreOfRun
      OBVIOUS
    <2>1. CASE store' = [store EXCEPT ![r].dir = TRUE,
                                      ![r].private = @ \cup {"job"}]
      <3>1. [old EXCEPT !.dir = TRUE, !.private = @ \cup {"job"}] \in StoreOfRun
        BY <2>o DEF StoreOfRun
      <3>2. store' = [store EXCEPT ![r] = [old EXCEPT !.dir = TRUE,
                                                      !.private = @ \cup {"job"}]]
        BY <2>1
      <3> QED BY <3>1, <3>2
    <2>2. CASE store' = [store EXCEPT ![r].private = @ \cup {"inputs"}]
      BY <2>2 DEF StoreOfRun
    <2>3. CASE store' = [store EXCEPT ![r].result = "running"]
      BY <2>3 DEF StoreOfRun
    <2> QED BY <1>1, <2>1, <2>2, <2>3 DEF PrepareWrite
  <1>2. ASSUME NEW r \in Runs, WorkerCollects(r) PROVE StoreType'
    BY <1>2 DEF WorkerCollects, StoreOfRun
  <1>3. ASSUME NEW r \in Runs, WorkflowExits(r) PROVE StoreType'
    <2>1. PICK raw \in Reports \cup {"invalid"} : store' = [store EXCEPT ![r].raw = raw]
      BY <1>3 DEF WorkflowExits
    <2> DEFINE new == [store[r] EXCEPT !.raw = raw]
    <2>2. new \in StoreOfRun
      BY DEF StoreOfRun
    <2>3. store' = [store EXCEPT ![r] = new]
      BY <2>1
    <2> HIDE DEF new
    <2> QED BY <2>2, <2>3
  <1>4. ASSUME NEW r \in Runs, RequestCancel(r) PROVE StoreType'
    <2> DEFINE new == [store[r] EXCEPT !.cancel = TRUE]
    <2>1. new \in StoreOfRun
      BY DEF StoreOfRun
    <2>2. store' = [store EXCEPT ![r] = new]
      BY <1>4 DEF RequestCancel
    <2> HIDE DEF new
    <2> QED BY <2>1, <2>2
  <1>5. ASSUME NEW r \in Runs, SaveResult(r) PROVE StoreType'
    <2>1. finalizer[r].seen.verdict \in Decided
      BY DEF FinalizerType, FinalizerOfRun, Result
    <2> DEFINE new == [store[r] EXCEPT !.dir = TRUE,
                                       !.result = finalizer[r].seen.verdict]
    <2>2. new \in StoreOfRun
      BY <2>1 DEF StoreOfRun
    <2>3. store' = [store EXCEPT ![r] = new]
      BY <1>5 DEF SaveResult
    <2> QED BY <2>2, <2>3
  <1>6. ASSUME NEW r \in Runs, ScrubInputs(r) PROVE StoreType'
    <2> DEFINE new == [store[r] EXCEPT !.private = {}, !.raw = None]
    <2>1. new \in StoreOfRun
      BY DEF StoreOfRun
    <2>2. store' = [store EXCEPT ![r] = new]
      BY <1>6 DEF ScrubInputs
    <2> QED BY <2>1, <2>2
  <1>7. ASSUME NEW r \in Runs, StorageFails(r) PROVE StoreType'
    <2>1. CASE UNCHANGED store
      BY <2>1
    <2>2. ASSUME NEW kept \in SUBSET store[r].private,
                 NEW raw \in {store[r].raw, None},
                 store' = [store EXCEPT ![r].private = kept, ![r].raw = raw]
          PROVE  StoreType'
      <3> DEFINE new == [store[r] EXCEPT !.private = kept, !.raw = raw]
      <3>1. new \in StoreOfRun
        BY DEF StoreOfRun
      <3>2. store' = [store EXCEPT ![r] = new]
        BY <2>2
      <3> QED BY <3>1, <3>2
    <2> QED BY <1>7, <2>1, <2>2 DEF StorageFails
  <1>8. ASSUME NEW r \in Runs, CleanupFiles(r) PROVE StoreType'
    BY <1>8 DEF CleanupFiles, StoreOfRun, EmptyStore
  <1>9. CASE UNCHANGED store
    BY <1>9
  <1> HIDE DEF StoreType
  <1>10. ASSUME NEW r \in Runs, SubmitterStep(r) PROVE StoreType'
    BY <1>1, <1>9, <1>10
    DEF SubmitterStep, Submit, Launch, SubmissionFails, ReportStartFailure
  <1>11. ASSUME NEW r \in Runs, WorkerStep(r) PROVE StoreType'
    BY <1>2, <1>9, <1>11
    DEF WorkerStep, WorkerReadsJob, WorkerTakesGuard, WorkerChecksLease,
        WorkerClaims, WorkerRefuses, WorkerCannotStart, WorkerStartsGuardian,
        WorkerBeats, WorkerAcknowledges, WorkerStops, WorkerCommits,
        WorkerLeaves, WorkerDies
  <1>12. ASSUME NEW r \in Runs, GuardianStep(r) PROVE StoreType'
    BY <1>3, <1>9, <1>12
    DEF GuardianStep, GuardianLaunches, GuardianOpensGate, GuardianEnds,
        GuardianKilled
  <1>13. ASSUME NEW r \in Runs, RecoveryStep(r) PROVE StoreType'
    BY <1>4, <1>5, <1>6, <1>7, <1>8, <1>9, <1>13
    DEF RecoveryStep, Observe, Finalize, FinishFinalization, Reconcile, CleanupRow,
        FinalizerDies
  <1> QED BY <1>9, <1>10, <1>11, <1>12, <1>13 DEF ExecNext, Time, execVars

LEMMA StepFinalizerType ==
    ASSUME ExecInv, LedgerTypeOK', [ExecNext]_execVars PROVE FinalizerType'
  <1>r. FinalizerType
    BY TypeParts DEF ExecInv
  <1> USE <1>r DEF FinalizerType
  <1>i. Idle \in FinalizerOfRun
    BY DEF Idle, FinalizerOfRun, NoResult, Result, Decided, Effects
  <1>1. ASSUME NEW r \in Runs, Finalize(r) PROVE FinalizerType'
    <2>1. ResultOf(r)' \in Result
      BY <1>1 DEF Finalize, Terminal, LedgerTypeOK, Row, ResultOf, Result
    <2> QED BY <1>1, <2>1 DEF Finalize, FinalizerOfRun
  <1>2. ASSUME NEW r \in Runs, SaveResult(r) \/ ScrubInputs(r) \/ StorageFails(r)
               \/ CleanupFiles(r) \/ CleanupRow(r)
        PROVE  FinalizerType'
    BY <1>2 DEF SaveResult, ScrubInputs, StorageFails, CleanupFiles, CleanupRow,
                FinalizerMoves, FinalizerOfRun
  <1>3. ASSUME NEW r \in Runs, FinishFinalization(r) \/ FinalizerDies(r)
        PROVE  FinalizerType'
    BY <1>3, <1>i DEF FinishFinalization, FinalizerDies
  <1>4. CASE UNCHANGED finalizer
    BY <1>4
  <1> HIDE DEF FinalizerType
  <1>5. ASSUME NEW r \in Runs, SubmitterStep(r) PROVE UNCHANGED finalizer
    BY <1>5
    DEF SubmitterStep, Submit, PrepareWrite, Launch, SubmissionFails,
        ReportStartFailure
  <1>6. ASSUME NEW r \in Runs, WorkerStep(r) PROVE UNCHANGED finalizer
    BY <1>6
    DEF WorkerStep, WorkerReadsJob, WorkerTakesGuard, WorkerChecksLease,
        WorkerClaims, WorkerRefuses, WorkerCannotStart, WorkerStartsGuardian,
        WorkerBeats, WorkerAcknowledges, WorkerStops, WorkerCollects, WorkerCommits,
        WorkerLeaves, WorkerDies
  <1>7. ASSUME NEW r \in Runs, GuardianStep(r) PROVE UNCHANGED finalizer
    BY <1>7
    DEF GuardianStep, GuardianLaunches, GuardianOpensGate, WorkflowExits,
        GuardianEnds, GuardianKilled
  <1>8. ASSUME NEW r \in Runs, RecoveryStep(r) PROVE FinalizerType'
    BY <1>1, <1>2, <1>3, <1>4, <1>8
    DEF RecoveryStep, Observe, RequestCancel, Reconcile
  <1> QED BY <1>4, <1>5, <1>6, <1>7, <1>8 DEF ExecNext, Time, execVars

LEMMA ExecStepTypes ==
    ASSUME ExecInv, [ExecNext]_execVars
    PROVE  Ledger!LedgerInv' /\ LedgerTypeOK' /\ ExecTypeOK'
  <1>1. Ledger!LedgerInv'
    BY StepsAreLedgerSteps, LedgerKeepsInv DEF ExecInv
  <1>2. LedgerTypeOK'
    BY <1>1
    DEF Ledger!LedgerInv, Ledger!LedgerTypeOK, LedgerTypeOK, Ledger!Row, Row,
        Ledger!Decided, Decided, Ledger!Effects, Effects, Ledger!Ages, Ages
  <1>3. StoreType' /\ ProcessTypes' /\ FinalizerType'
    BY <1>2, StepProcessTypes, StepStoreType, StepFinalizerType
  <1> QED
    BY <1>1, <1>2, <1>3
    DEF ExecTypeOK, ProcessTypes, StoreType, FinalizerType, StoreOfRun, FinalizerOfRun

-----------------------------------------------------------------------------
(* What each step does to the row of a run, as far as the invariant looks. *)
RowChange(q) ==
    /\ asked'[q] \in {asked[q], KeyOf[q]}
    /\ Exists(q) /\ ~Settled(q) /\ ~Exclusive(q) => Exists(q)' /\ ~Settled(q)'
    /\ Terminal(q) /\ rows[q].pending /\ finalizer'[q].pc # "idle"
         => rows'[q].pending /\ ResultOf(q)' = ResultOf(q) /\ Terminal(q)'

LEMMA RowsChange ==
    ASSUME ExecInv, [ExecNext]_execVars, NEW q \in Runs PROVE RowChange(q)
  <1>t. LedgerTypeOK /\ \A r \in Runs : Exists(r) => asked[r] # "fresh"
    BY SameLedger DEF ExecInv
  <1> USE <1>t
      DEF RowChange, LedgerTypeOK, Row, ResultOf, Exists, Terminal, Settled, Running, Decided
  <1>1. CASE UNCHANGED tables
    BY <1>1 DEF tables
  <1>2. CASE Time
    BY <1>2 DEF Time, Tick
  <1>3. ASSUME NEW r \in Runs, Submit(r) PROVE RowChange(q)
    BY <1>3 DEF Submit, Create, NoRow
  <1>4. ASSUME NEW r \in Runs, Get(r) PROVE RowChange(q)
    BY <1>4 DEF Get, Expired, Lost
  <1>5. ASSUME NEW r \in Runs, Claim(r, r) PROVE RowChange(q)
    BY <1>5 DEF Claim, CanClaim
  <1>6. ASSUME NEW r \in Runs, NEW wait \in 0..BusyWait, Heartbeat(r, r, wait)
        PROVE  RowChange(q)
    BY <1>6 DEF Heartbeat, CanBeat
  <1>7. ASSUME NEW r \in Runs, NEW owner, NEW verdict \in Decided, NEW effects,
               Finish(r, owner, verdict, effects)
        PROVE  RowChange(q)
    BY <1>7 DEF Finish, CanFinish
  <1>8. ASSUME NEW r \in Runs, FinishFinalization(r) PROVE RowChange(q)
    <2>1. Exclusive(r) /\ finalizer'[r].pc = "idle"
      BY <1>8 DEF FinishFinalization, Exclusive, Idle, ExecInv, ExecTypeOK
    <2>2. \A p \in Runs \ {r} : rows'[p] = rows[p]
      BY <1>8 DEF FinishFinalization, Settle, tables
    <2>3. asked' = asked
      BY <1>8 DEF FinishFinalization, Settle, tables
    <2> QED BY <2>1, <2>2, <2>3
  <1>9. ASSUME NEW r \in Runs, Release(r) PROVE RowChange(q)
    BY <1>9 DEF Release
  <1>10. ASSUME NEW r \in Runs, Delete(r) PROVE RowChange(q)
    BY <1>10 DEF Delete, Deletable
  <1>v. "unstarted" \in Decided /\ \A r \in Runs : draft[r].verdict \in Decided
    BY DEF ExecInv, DraftsAreReportable, WorkerVerdicts
  <1> HIDE <1>t
      DEF RowChange, LedgerTypeOK, Row, ResultOf, Exists, Terminal, Settled,
          Running, Decided
  <1>11. ASSUME NEW r \in Runs, SubmitterStep(r) PROVE RowChange(q)
    BY <1>v, <1>1, <1>3, <1>7, <1>11
    DEF SubmitterStep, PrepareWrite, Launch, SubmissionFails, ReportStartFailure
  <1>12. ASSUME NEW r \in Runs, WorkerStep(r) PROVE RowChange(q)
    <2>1. CASE WorkerCommits(r)
      BY <1>v, <1>1, <1>7, <2>1 DEF WorkerCommits
    <2>2. CASE WorkerChecksLease(r) \/ WorkerClaims(r) \/ WorkerBeats(r)
      BY <1>1, <1>4, <1>5, <1>6, <2>2 DEF WorkerChecksLease, WorkerClaims, WorkerBeats
    <2> QED
      BY <1>1, <1>12, <2>1, <2>2
      DEF WorkerStep, WorkerReadsJob, WorkerTakesGuard, WorkerRefuses,
          WorkerCannotStart, WorkerStartsGuardian, WorkerAcknowledges, WorkerStops,
          WorkerCollects, WorkerLeaves, WorkerDies
  <1>13. ASSUME NEW r \in Runs, GuardianStep(r) PROVE RowChange(q)
    BY <1>1, <1>13
    DEF GuardianStep, GuardianLaunches, GuardianOpensGate, WorkflowExits,
        GuardianEnds, GuardianKilled
  <1>14. ASSUME NEW r \in Runs, RecoveryStep(r) PROVE RowChange(q)
    BY <1>1, <1>4, <1>8, <1>9, <1>10, <1>14
    DEF RecoveryStep, Observe, RequestCancel, Finalize, SaveResult, ScrubInputs,
        StorageFails, Reconcile, CleanupFiles, CleanupRow, FinalizerDies
  <1>15. CASE UNCHANGED execVars
    BY <1>1, <1>15 DEF execVars, tables
  <1> QED
    BY <1>2, <1>11, <1>12, <1>13, <1>14, <1>15 DEF ExecNext

-----------------------------------------------------------------------------
LEMMA StepDrafts ==
    ASSUME ExecInv, [ExecNext]_execVars PROVE DraftsAreReportable'
  <1>t. DraftsAreReportable /\ draft \in [Runs -> Result]
    BY DEF ExecInv, ExecTypeOK
  <1> USE <1>t DEF DraftsAreReportable, WorkerVerdicts
  <1>1. CASE UNCHANGED draft
    BY <1>1
  <1>2. ASSUME NEW r \in Runs, NEW verdict \in WorkerVerdicts, NEW effects,
               Drafts(r, verdict, effects)
        PROVE  DraftsAreReportable'
    BY <1>2 DEF Drafts
  <1>3. ASSUME NEW r \in Runs, draft' = [draft EXCEPT ![r] = NoResult]
        PROVE  DraftsAreReportable'
    BY <1>3 DEF NoResult
  <1>4. ASSUME NEW r \in Runs, WorkerStep(r) PROVE DraftsAreReportable'
    <2>1. CASE WorkerRefuses(r) \/ WorkerCannotStart(r) \/ WorkerStops(r)
      BY <1>2, <2>1 DEF WorkerRefuses, WorkerCannotStart, WorkerStops
    <2>2. CASE WorkerCollects(r)
      BY <1>2, <2>2 DEF WorkerCollects
    <2>3. CASE WorkerCommits(r) \/ WorkerDies(r)
      BY <1>3, <2>3 DEF WorkerCommits, WorkerDies
    <2> HIDE <1>t DEF DraftsAreReportable
    <2> QED
      BY <1>1, <1>4, <2>1, <2>2, <2>3
      DEF WorkerStep, WorkerReadsJob, WorkerTakesGuard, WorkerChecksLease,
          WorkerClaims, WorkerStartsGuardian, WorkerBeats, WorkerAcknowledges,
          WorkerLeaves
  <1> HIDE <1>t DEF DraftsAreReportable
  <1>5. ASSUME NEW r \in Runs, SubmitterStep(r) PROVE UNCHANGED draft
    BY <1>5
    DEF SubmitterStep, Submit, PrepareWrite, Launch, SubmissionFails,
        ReportStartFailure
  <1>6. ASSUME NEW r \in Runs, GuardianStep(r) PROVE UNCHANGED draft
    BY <1>6
    DEF GuardianStep, GuardianLaunches, GuardianOpensGate, WorkflowExits,
        GuardianEnds, GuardianKilled
  <1>7. ASSUME NEW r \in Runs, RecoveryStep(r) PROVE UNCHANGED draft
    BY <1>7
    DEF RecoveryStep, Observe, RequestCancel, Finalize, SaveResult, ScrubInputs,
        StorageFails, FinishFinalization, Reconcile, CleanupFiles, CleanupRow,
        FinalizerDies, processVars
  <1> QED BY <1>1, <1>4, <1>5, <1>6, <1>7 DEF ExecNext, Time, execVars, processVars

(* How each step moves the holders of the activity lock and the processes  *)
(* of a claimed run.                                                       *)
Reading(q) == finalizer[q].pc \in {"saving", "scrubbing", "settling"}
LockChange(q) ==
    /\ Shared(q)' => Shared(q) \/ ~Exclusive(q)'
    /\ Exclusive(q)' => Exclusive(q) \/ ~Shared(q)'
    /\ Bound(q)' => Bound(q) \/ Running(q)'
    /\ Reading(q)' =>
         \/ Reading(q) /\ finalizer'[q].seen = finalizer[q].seen
         \/ Terminal(q)' /\ rows'[q].pending /\ finalizer'[q].seen = ResultOf(q)'

LEMMA LockChanges ==
    ASSUME ExecInv, [ExecNext]_execVars, NEW q \in Runs PROVE LockChange(q)
  <1>t. ExecTypeOK
    BY DEF ExecInv
  <1>c. ASSUME NEW r \in Runs, Claim(r, r) PROVE Running(r)'
    <2>1. rows \in [Runs -> Row]
      BY <1>t DEF ExecTypeOK, LedgerTypeOK
    <2> QED BY <1>c, <2>1 DEF Claim, CanClaim, Running, Row
  <1> DEFINE LockVars == <<worker, guardian, flow, finalizer>>
  <1>1. CASE UNCHANGED LockVars
    BY <1>1 DEF LockChange, Shared, Exclusive, Bound, Reading
  <1>2. ASSUME NEW r \in Runs, Launch(r) PROVE LockChange(q)
    BY <1>t, <1>2
    DEF Launch, ExecTypeOK, LockChange, Shared, Exclusive, Bound, Reading, Guarding
  <1>3. ASSUME NEW r \in Runs, WorkerStep(r) PROVE LockChange(q)
    <2> USE <1>t DEF ExecTypeOK, LockChange, Shared, Exclusive, Bound, Reading,
                     Guarding, WorkerMoves
    <2>1. CASE WorkerReadsJob(r)
      BY <2>1 DEF WorkerReadsJob
    <2>2. CASE WorkerTakesGuard(r)
      BY <2>2 DEF WorkerTakesGuard
    <2>3. CASE WorkerChecksLease(r)
      BY <2>3 DEF WorkerChecksLease
    <2>4. CASE WorkerClaims(r)
      <3>1. CASE CanClaim(r)
        <4>1. Running(r)'
          BY <1>c, <2>4, <3>1 DEF WorkerClaims
        <4> QED BY <2>4, <3>1, <4>1 DEF WorkerClaims
      <3>2. CASE ~CanClaim(r)
        BY <2>4, <3>2 DEF WorkerClaims
      <3> QED BY <3>1, <3>2
    <2>5. CASE WorkerRefuses(r) \/ WorkerCannotStart(r)
      BY <2>5 DEF WorkerRefuses, WorkerCannotStart
    <2>6. CASE WorkerStartsGuardian(r)
      BY <2>6 DEF WorkerStartsGuardian
    <2>7. CASE WorkerBeats(r) \/ WorkerAcknowledges(r)
      BY <2>7 DEF WorkerBeats, WorkerAcknowledges, Supervising
    <2>8. CASE WorkerStops(r) \/ WorkerCollects(r)
      BY <2>8 DEF WorkerStops, WorkerCollects, Supervising
    <2>9. CASE WorkerCommits(r)
      BY <2>9 DEF WorkerCommits
    <2>10. CASE WorkerLeaves(r) \/ WorkerDies(r)
      BY <2>10 DEF WorkerLeaves, WorkerDies
    <2> QED
      BY <1>3, <2>1, <2>2, <2>3, <2>4, <2>5, <2>6, <2>7, <2>8, <2>9, <2>10
      DEF WorkerStep
  <1>4. ASSUME NEW r \in Runs, GuardianStep(r) PROVE LockChange(q)
    BY <1>t, <1>4
    DEF ExecTypeOK, LockChange, Shared, Exclusive, Bound, Reading, GuardianStep,
        GuardianLaunches, GuardianOpensGate, WorkflowExits, GuardianEnds,
        GuardianKilled, Barred
  <1>5. ASSUME NEW r \in Runs, RecoveryStep(r) PROVE LockChange(q)
    <2>f. finalizer \in [Runs -> FinalizerOfRun]
      BY <1>t, TypeParts DEF FinalizerType
    <2>u. CASE UNCHANGED <<worker, guardian, flow>> /\ finalizer'[q] = finalizer[q]
      BY <2>u DEF LockChange, Shared, Exclusive, Bound, Reading
    <2>m. ASSUME UNCHANGED <<worker, guardian, flow>>, finalizer[r].pc # "idle",
                 finalizer'[r].seen = finalizer[r].seen,
                 finalizer'[r].pc \notin {"saving", "scrubbing", "settling"}
                   \/ Reading(r)
          PROVE  LockChange(r)
      BY <2>m DEF LockChange, Shared, Exclusive, Bound, Reading
    <2>1. CASE Finalize(r)
      BY <1>t, <2>1
      DEF Finalize, GuardIdle, ExecTypeOK, LockChange, Shared, Exclusive, Bound,
          Reading, processVars
    <2>2. CASE SaveResult(r) \/ ScrubInputs(r) \/ CleanupRow(r)
      <3>1. PICK from \in {"saving", "scrubbing", "deleting"},
                 to \in {"scrubbing", "settling", "idle"} :
              /\ FinalizerMoves(r, from, to) /\ UNCHANGED processVars
              /\ from = "deleting" => to = "idle"
        BY <2>2 DEF SaveResult, ScrubInputs, CleanupRow
      <3>2. /\ finalizer[r].pc = from /\ finalizer'[r].pc = to
            /\ finalizer'[r].seen = finalizer[r].seen
            /\ \A p \in Runs \ {r} : finalizer'[p] = finalizer[p]
        BY <2>f, <3>1 DEF FinalizerMoves, FinalizerOfRun
      <3> QED BY <2>u, <2>m, <3>1, <3>2 DEF processVars, Reading
    <2>3. CASE StorageFails(r)
      <3>1. PICK to \in {"scrubbing", "settling"} :
              finalizer' = [finalizer EXCEPT ![r].pc = to, ![r].clean = FALSE]
        BY <2>3 DEF StorageFails
      <3>2. /\ finalizer'[r].pc = to /\ finalizer'[r].seen = finalizer[r].seen
            /\ \A p \in Runs \ {r} : finalizer'[p] = finalizer[p]
        BY <2>f, <3>1 DEF FinalizerOfRun
      <3>3. Reading(r) /\ UNCHANGED processVars
        BY <2>3 DEF StorageFails, Reading
      <3> QED BY <2>u, <2>m, <3>2, <3>3 DEF processVars, Reading
    <2>4. CASE FinishFinalization(r) \/ FinalizerDies(r)
      BY <1>t, <2>4
      DEF FinishFinalization, FinalizerDies, Idle, ExecTypeOK, LockChange, Shared,
          Exclusive, Bound, Reading, processVars
    <2>5. CASE CleanupFiles(r)
      <3>1. /\ finalizer'[r].pc = "deleting"
            /\ \A p \in Runs \ {r} : finalizer'[p] = finalizer[p]
        BY <2>f, <2>5 DEF CleanupFiles, FinalizerOfRun
      <3> QED
        BY <2>5, <3>1
        DEF CleanupFiles, GuardIdle, LockChange, Shared, Exclusive, Bound, Reading,
            processVars
    <2> QED
      BY <1>1, <1>5, <2>1, <2>2, <2>3, <2>4, <2>5
      DEF RecoveryStep, Observe, RequestCancel, Reconcile, processVars
  <1> QED
    BY <1>1, <1>2, <1>3, <1>4, <1>5
    DEF ExecNext, Time, execVars, processVars, SubmitterStep, Submit, PrepareWrite,
        SubmissionFails, ReportStartFailure

-----------------------------------------------------------------------------
LEMMA ExecStepInv == ASSUME ExecInv, [ExecNext]_execVars PROVE ExecInv'
  <1>1. Ledger!LedgerInv' /\ ExecTypeOK'
    BY ExecStepTypes
  <1>2. DraftsAreReportable'
    BY StepDrafts
  <1>3. AskedIsOwnKey'
    BY RowsChange DEF RowChange, ExecInv, AskedIsOwnKey
  <1>4. LockExcludes'
    BY LockChanges DEF LockChange, ExecInv, LockExcludes
  <1>5. BoundRunsAreUnsettled'
    <2> SUFFICES ASSUME NEW q \in Runs, Bound(q)' PROVE Exists(q)' /\ ~Settled(q)'
      BY DEF BoundRunsAreUnsettled
    <2>1. CASE Running(q)'
      BY <2>1 DEF Running, Exists, Settled, Terminal, Decided
    <2>2. CASE Bound(q)
      <3>1. ~Exclusive(q)
        BY <2>2 DEF ExecInv, LockExcludes, Bound, Shared, Guarding
      <3>2. Exists(q) /\ ~Settled(q)
        BY <2>2 DEF ExecInv, BoundRunsAreUnsettled
      <3> QED BY <3>1, <3>2, RowsChange DEF RowChange
    <2> QED BY <2>1, <2>2, LockChanges DEF LockChange
  <1>6. FinalizerSees'
    <2> SUFFICES ASSUME NEW q \in Runs, Reading(q)'
                 PROVE  /\ Terminal(q)' /\ rows'[q].pending
                        /\ finalizer'[q].seen = ResultOf(q)'
      BY DEF FinalizerSees, Reading
    <2>1. CASE Reading(q) /\ finalizer'[q].seen = finalizer[q].seen
      <3>1. Terminal(q) /\ rows[q].pending /\ finalizer[q].seen = ResultOf(q)
        BY <2>1 DEF ExecInv, FinalizerSees, Reading
      <3>2. finalizer'[q].pc # "idle"
        BY DEF Reading
      <3> QED BY <2>1, <3>1, <3>2, RowsChange DEF RowChange
    <2> QED BY <2>1, LockChanges DEF LockChange
  <1> QED BY <1>1, <1>2, <1>3, <1>4, <1>5, <1>6 DEF ExecInv

LEMMA ExecInvariant == ExecSpec => []ExecInv
  <1>1. ExecInv /\ [ExecNext]_execVars => ExecInv'
    BY ExecStepInv
  <1> QED BY ExecInitInv, <1>1, PTL DEF ExecSpec

(* Ledger, processes, files and finalizers keep their types.               *)
THEOREM ExecTypes == ExecSpec => []ExecTypeOK
  <1>1. ExecInv => ExecTypeOK
    BY DEF ExecInv
  <1> QED BY <1>1, ExecInvariant, PTL

(* No run is settled or removed while its workflow executes: execution     *)
(* implies the activity lock, and only its exclusive holder settles.       *)
THEOREM ExecutionPrecedesSettlement == ExecSpec => []ExecutingRunsAreUnsettled
  <1>1. ExecInv => ExecutingRunsAreUnsettled
    BY DEF ExecInv, BoundRunsAreUnsettled, Bound, ExecutingRunsAreUnsettled, Executing
  <1> QED BY <1>1, ExecInvariant, PTL

(* Two workflows never execute on one resource: an executing run is not    *)
(* settled, and until then the ledger keeps its key for it alone.          *)
THEOREM ExecutionIsExclusive == ExecSpec => []OneExecutionPerResource
  <1>1. ASSUME ExecInv PROVE OneExecutionPerResource
    <2> SUFFICES ASSUME NEW r \in Runs, NEW q \in Runs, Executing(r), Executing(q),
                        KeyOf[r] = KeyOf[q], KeyOf[r] # None
                 PROVE  r = q
      BY DEF OneExecutionPerResource
    <2>1. ASSUME NEW p \in Runs, Executing(p), KeyOf[p] # None
          PROVE  locks[KeyOf[p]] = p
      <3>1. Exists(p) /\ ~Settled(p)
        BY <1>1, <2>1 DEF ExecInv, BoundRunsAreUnsettled, Bound, Executing
      <3>2. asked[p] = KeyOf[p]
        BY <1>1, <3>1, SameLedger DEF ExecInv, AskedIsOwnKey
      <3>3. KeyOf[p] \in Keys
        BY <2>1, ExecutionAssumption
      <3> QED
        BY <1>1, <3>1, <3>2, <3>3, SameLedger DEF ExecInv, OpenRunsHoldTheirKey, Holds
    <2> QED BY <2>1
  <1>2. ExecInv => OneExecutionPerResource
    BY <1>1
  <1> QED BY <1>2, ExecInvariant, PTL

-----------------------------------------------------------------------------
(* The refinement of the invocation contract.                              *)
Known(r) == rows[r].effects \notin {"partial", "unknown"}

PhaseTable == \A r \in Runs :
    /\ asked[r] = "fresh" => Phase(r) = "fresh"
    /\ asked[r] # "fresh" /\ Running(r) => Phase(r) = "open"
    /\ asked[r] # "fresh" /\ Terminal(r) /\ rows[r].pending => Phase(r) = "decided"
    /\ asked[r] # "fresh" /\ Settled(r) => Phase(r) = "settled"
    /\ asked[r] # "fresh" /\ ~Exists(r) => Phase(r) = "forgotten"

LEMMA PhaseIs == LedgerTypeOK => PhaseTable
  BY DEF PhaseTable, Phase, Running, Terminal, Settled, Exists, Decided,
         LedgerTypeOK, Row

LEMMA ProgressIs ==
    ExecTypeOK => \A r \in Runs :
        /\ flow[r] \in {"none", "gated", "signed"} => Progress(r) = "ahead"
        /\ flow[r] = "live" => Progress(r) = "on"
        /\ flow[r] \in {"over", "barred"} => Progress(r) = "over"
  BY DEF Progress, ExecTypeOK

(* The abstract picture of a run depends on its row and its flow alone.    *)
LEMMA SamePicture ==
    ASSUME NEW r \in Runs
    PROVE  /\ asked'[r] = asked[r] /\ rows'[r].verdict = rows[r].verdict
              /\ rows'[r].pending = rows[r].pending => Phase(r)' = Phase(r)
           /\ rows'[r].effects = rows[r].effects => Known(r)' = Known(r)
           /\ flow'[r] = flow[r] => Progress(r)' = Progress(r)
  BY DEF Phase, Known, Progress, Running, Terminal, Settled, Exists

LEMMA StutterOfContract ==
    ASSUME \A r \in Runs : /\ Phase(r)' = Phase(r) /\ Known(r)' = Known(r)
                            /\ Progress(r)' = Progress(r),
           UNCHANGED <<locks, asked>>
    PROVE  UNCHANGED Contract!contractVars
  BY DEF Contract!contractVars, Known

LEMMA RefInit == ExecInit => Contract!ContractInit
  <1> SUFFICES ASSUME ExecInit PROVE Contract!ContractInit
    OBVIOUS
  <1>1. \A r \in Runs : /\ Phase(r) = "fresh" /\ Progress(r) = "ahead"
                         /\ rows[r].effects = "none"
    BY DEF ExecInit, LedgerInit, NoRow, Phase, Progress
  <1> QED BY <1>1 DEF Contract!ContractInit, ExecInit, LedgerInit

(* Steps of the ledger, while no workflow begins or ends.                  *)
LEMMA RefLedger ==
    ASSUME ExecInv, ExecInv', UNCHANGED flow, NEW r \in Runs
    PROVE  /\ Tick => UNCHANGED Contract!contractVars
           /\ Create(r, KeyOf[r], None, Declared(r)) => Contract!Open(r)
           /\ Get(r) => Contract!Decide(r) \/ UNCHANGED Contract!contractVars
           /\ Claim(r, r) => UNCHANGED Contract!contractVars
           /\ \A wait : Heartbeat(r, r, wait) => UNCHANGED Contract!contractVars
           /\ \A owner, effects : \A verdict \in Decided :
                Finish(r, owner, verdict, effects) => Contract!Decide(r)
  <1>t. /\ ExecTypeOK /\ LedgerTypeOK /\ LedgerTypeOK'
        /\ \A q \in Runs : Exists(q) => asked[q] # "fresh"
    BY SameLedger DEF ExecInv, ExecTypeOK
  <1>p. PhaseTable /\ PhaseTable'
    <2>1. (LedgerTypeOK => PhaseTable)'
      BY PhaseIs, PTL
    <2> QED BY <1>t, <2>1, PhaseIs
  <1>f. \A q \in Runs : Progress(q)' = Progress(q)
    BY SamePicture
  <1>l. rows \in [Runs -> Row]
    BY <1>t DEF LedgerTypeOK
  <1>s. ASSUME \A q \in Runs : /\ rows'[q].verdict = rows[q].verdict
                                /\ rows'[q].pending = rows[q].pending
                                /\ rows'[q].effects = rows[q].effects,
               UNCHANGED <<locks, asked>>
        PROVE  UNCHANGED Contract!contractVars
    BY <1>f, <1>s, SamePicture, StutterOfContract
  <1>o. ASSUME \A q \in Runs \ {r} : rows'[q] = rows[q] /\ asked'[q] = asked[q]
        PROVE  \A q \in Runs \ {r} : Phase(q)' = Phase(q) /\ Known(q)' = Known(q)
    BY <1>o, SamePicture
  <1>d. ASSUME Running(r), Terminal(r)', rows'[r].pending,
               \A q \in Runs \ {r} : rows'[q] = rows[q],
               UNCHANGED <<locks, asked>>
        PROVE  Contract!Decide(r)
    <2>1. asked[r] # "fresh"
      BY <1>t, <1>d DEF Running, Exists
    <2>2. Phase(r) = "open" /\ Phase(r)' = "decided"
      BY <1>p, <1>d, <2>1 DEF PhaseTable
    <2>3. \A q \in Runs \ {r} : Phase(q)' = Phase(q) /\ Known(q)' = Known(q)
      BY <1>o, <1>d
    <2>4. Known(r)' \in BOOLEAN
      BY DEF Known
    <2>5. [q \in Runs |-> Phase(q)]' = [[q \in Runs |-> Phase(q)] EXCEPT ![r] = "decided"]
      BY <2>2, <2>3
    <2>6. [q \in Runs |-> Known(q)]' = [[q \in Runs |-> Known(q)] EXCEPT ![r] = Known(r)']
      BY <2>3
    <2> QED BY <1>d, <1>f, <2>2, <2>4, <2>5, <2>6 DEF Contract!Decide, Known
  <1>1. ASSUME Tick PROVE UNCHANGED Contract!contractVars
    BY <1>l, <1>s, <1>1 DEF Tick, Row
  <1>2. ASSUME Claim(r, r) PROVE UNCHANGED Contract!contractVars
    BY <1>l, <1>s, <1>2 DEF Claim, Row
  <1>3. ASSUME NEW wait, Heartbeat(r, r, wait) PROVE UNCHANGED Contract!contractVars
    BY <1>l, <1>s, <1>3 DEF Heartbeat, Row
  <1>4. ASSUME Get(r) PROVE Contract!Decide(r) \/ UNCHANGED Contract!contractVars
    <2>1. CASE Expired(r)
      BY <1>l, <1>d, <1>4, <2>1 DEF Get, Expired, Lost, Terminal, Decided, Row
    <2>2. CASE ~Expired(r)
      BY <1>s, <1>4, <2>2 DEF Get
    <2> QED BY <2>1, <2>2
  <1>5. ASSUME NEW owner, NEW effects, NEW verdict \in Decided,
               Finish(r, owner, verdict, effects)
        PROVE  Contract!Decide(r)
    BY <1>l, <1>d, <1>5 DEF Finish, CanFinish, Terminal, Row
  <1>6. ASSUME Create(r, KeyOf[r], None, Declared(r)) PROVE Contract!Open(r)
    <2>1. /\ asked[r] = "fresh" /\ asked' = [asked EXCEPT ![r] = KeyOf[r]]
          /\ KeyOf[r] \in Keys \cup {None} /\ KeyOf[r] # "fresh"
          /\ locks' = [k \in Keys |-> IF k = KeyOf[r] THEN r ELSE locks[k]]
          /\ KeyOf[r] \in Keys => locks[KeyOf[r]] = None
      BY <1>6, ExecutionAssumption DEF Create, KeyFree
    <2>2. Running(r)' /\ \A q \in Runs \ {r} : rows'[q] = rows[q]
      BY <1>l, <1>6 DEF Create, NoRow, Running
    <2>3. asked'[r] = KeyOf[r] /\ \A q \in Runs \ {r} : asked'[q] = asked[q]
      BY <1>t, <2>1 DEF LedgerTypeOK
    <2>4. Phase(r) = "fresh" /\ Phase(r)' = "open"
      BY <1>p, <2>1, <2>2, <2>3 DEF PhaseTable
    <2>5. \A q \in Runs \ {r} : Phase(q)' = Phase(q) /\ Known(q)' = Known(q)
      BY <1>o, <2>2, <2>3
    <2>6. [q \in Runs |-> Phase(q)]' = [[q \in Runs |-> Phase(q)] EXCEPT ![r] = "open"]
      BY <2>4, <2>5
    <2>7. [q \in Runs |-> Known(q)]' = [[q \in Runs |-> Known(q)] EXCEPT ![r] = Known(r)']
      BY <2>5
    <2>8. Known(r)' \in BOOLEAN
      BY DEF Known
    <2> QED BY <1>f, <2>1, <2>4, <2>6, <2>7, <2>8 DEF Contract!Open, Known
  <1> QED BY <1>1, <1>2, <1>3, <1>4, <1>5, <1>6

(* Steps of the exclusive holder of the lock: no workflow executes.        *)
LEMMA RefExclusive ==
    ASSUME ExecInv, ExecInv', UNCHANGED flow, NEW r \in Runs, ~Shared(r)
    PROVE  /\ Terminal(r) /\ rows[r].pending /\ Settle(r, ReleasesKey(rows[r].effects))
                => Contract!SettleRun(r)
           /\ Release(r) => Contract!Reconcile(r)
           /\ Delete(r) => Contract!Forget(r)
  <1>t. /\ ExecTypeOK /\ LedgerTypeOK /\ LedgerTypeOK'
        /\ \A q \in Runs : Exists(q) => asked[q] # "fresh"
    BY SameLedger DEF ExecInv, ExecTypeOK
  <1>p. PhaseTable /\ PhaseTable'
    <2>1. (LedgerTypeOK => PhaseTable)'
      BY PhaseIs, PTL
    <2> QED BY <1>t, <2>1, PhaseIs
  <1>l. rows \in [Runs -> Row]
    BY <1>t DEF LedgerTypeOK
  <1>e. Progress(r) # "on"
    BY <1>t DEF Progress, Shared, ExecTypeOK
  <1>f. \A q \in Runs : Progress(q)' = Progress(q)
    BY SamePicture
  <1>o. ASSUME \A q \in Runs \ {r} : rows'[q] = rows[q], UNCHANGED asked
        PROVE  \A q \in Runs \ {r} : Phase(q)' = Phase(q) /\ Known(q)' = Known(q)
    BY <1>o, SamePicture
  <1>1. ASSUME Terminal(r), rows[r].pending, Settle(r, ReleasesKey(rows[r].effects))
        PROVE  Contract!SettleRun(r)
    <2>1. /\ rows' = [rows EXCEPT ![r].pending = FALSE] /\ asked' = asked
          /\ locks' = IF Known(r) THEN WithoutLocksOf(r) ELSE locks
      BY <1>1 DEF Settle, ReleasesKey, Unresolved, Known
    <2>2. /\ \A q \in Runs \ {r} : rows'[q] = rows[q]
          /\ Settled(r)' /\ rows'[r].effects = rows[r].effects
      BY <1>l, <1>1, <2>1 DEF Settled, Terminal, Row
    <2>3. asked[r] # "fresh"
      BY <1>1, <1>t DEF Terminal, Decided, Exists
    <2>4. Phase(r) = "decided" /\ Phase(r)' = "settled"
      BY <1>p, <1>1, <2>1, <2>2, <2>3 DEF PhaseTable
    <2>5. \A q \in Runs : Known(q)' = Known(q)
      BY <1>o, <2>1, <2>2, SamePicture
    <2>6. [q \in Runs |-> Phase(q)]' = [[q \in Runs |-> Phase(q)] EXCEPT ![r] = "settled"]
      BY <1>o, <2>1, <2>2, <2>4
    <2> QED
      BY <1>e, <1>f, <2>1, <2>4, <2>5, <2>6
      DEF Contract!SettleRun, Contract!FreeKeysOf, Known, WithoutLocksOf
  <1>2. ASSUME Release(r) PROVE Contract!Reconcile(r)
    <2>1. Settled(r) /\ asked[r] # "fresh"
      BY <1>2, <1>t DEF Release, Releasable, Settled, Terminal, Decided, Exists
    <2>2. Phase(r) = "settled"
      BY <1>p, <2>1 DEF PhaseTable
    <2>3. \A q \in Runs : Phase(q)' = Phase(q) /\ Known(q)' = Known(q)
      BY <1>2, SamePicture DEF Release
    <2> QED
      BY <1>2, <1>e, <1>f, <2>2, <2>3
      DEF Release, Contract!Reconcile, Contract!FreeKeysOf, Known, WithoutLocksOf
  <1>3. ASSUME Delete(r) PROVE Contract!Forget(r)
    <2>1. Settled(r) /\ asked[r] # "fresh" /\ \A k \in Keys : locks[k] # r
      BY <1>3, <1>t
      DEF Delete, Deletable, HoldsAny, Holds, Settled, Terminal, Decided, Exists
    <2>2. /\ \A q \in Runs \ {r} : rows'[q] = rows[q]
          /\ ~Exists(r)' /\ Known(r)' /\ UNCHANGED <<locks, asked>>
      BY <1>l, <1>3 DEF Delete, NoRow, Exists, Known
    <2>3. Phase(r) = "settled" /\ Phase(r)' = "forgotten"
      BY <1>p, <2>1, <2>2 DEF PhaseTable
    <2>4. [q \in Runs |-> Phase(q)]' = [[q \in Runs |-> Phase(q)] EXCEPT ![r] = "forgotten"]
      BY <1>o, <2>2, <2>3
    <2>5. [q \in Runs |-> Known(q)]' = [[q \in Runs |-> Known(q)] EXCEPT ![r] = TRUE]
      BY <1>o, <2>2
    <2> QED
      BY <1>e, <1>f, <2>1, <2>2, <2>3, <2>4, <2>5 DEF Contract!Forget, Known
  <1> QED BY <1>1, <1>2, <1>3

(* Steps of the workflow process, while the ledger stands still.           *)
LEMMA RefFlow ==
    ASSUME ExecInv, ExecInv', UNCHANGED tables, NEW r \in Runs,
           \A q \in Runs \ {r} : flow'[q] = flow[q],
           \/ flow'[r] = flow[r]
           \/ flow[r] = "none" /\ flow'[r] = "gated"
           \/ flow[r] = "gated" /\ flow'[r] = "signed"
           \/ flow[r] = "signed" /\ flow'[r] = "live"
           \/ flow[r] \in {"none", "gated", "signed"} /\ flow'[r] = "barred"
           \/ flow[r] = "live" /\ flow'[r] = "over"
    PROVE  Contract!Begin(r) \/ Contract!End(r) \/ UNCHANGED Contract!contractVars
  <1>t. ExecTypeOK /\ LedgerTypeOK /\ \A q \in Runs : Exists(q) => asked[q] # "fresh"
    BY SameLedger DEF ExecInv
  <1>s. /\ \A q \in Runs : Phase(q)' = Phase(q) /\ Known(q)' = Known(q)
        /\ \A q \in Runs \ {r} : Progress(q)' = Progress(q)
        /\ UNCHANGED <<locks, asked>>
    BY SamePicture DEF tables
  <1>1. CASE Progress(r)' = Progress(r)
    BY <1>1, <1>s, StutterOfContract
  <1>2. ASSUME NEW to, Progress(r)' = to
        PROVE  [q \in Runs |-> Progress(q)]' =
                 [[q \in Runs |-> Progress(q)] EXCEPT ![r] = to]
    BY <1>2, <1>s
  <1>3. CASE flow[r] = "signed" /\ flow'[r] = "live"
    <2>1. Progress(r) = "ahead" /\ Progress(r)' = "on"
      BY <1>3 DEF Progress
    <2>2. Phase(r) \in {"open", "decided"}
      <3>1. Exists(r) /\ ~Settled(r) /\ asked[r] # "fresh"
        BY <1>3, <1>t DEF ExecInv, BoundRunsAreUnsettled, Bound
      <3>2. Running(r) \/ (Terminal(r) /\ rows[r].pending)
        BY <1>t, <3>1 DEF Running, Terminal, Settled, Exists, LedgerTypeOK, Row
      <3> QED BY <1>t, <3>1, <3>2, PhaseIs DEF PhaseTable
    <2>3. [q \in Runs |-> Progress(q)]' =
            [[q \in Runs |-> Progress(q)] EXCEPT ![r] = "on"]
      BY <1>2, <2>1
    <2> QED BY <1>s, <2>1, <2>2, <2>3 DEF Contract!Begin, Known
  <1>4. CASE Progress(r) # "over" /\ Progress(r)' = "over"
    <2>1. [q \in Runs |-> Progress(q)]' =
            [[q \in Runs |-> Progress(q)] EXCEPT ![r] = "over"]
      BY <1>2, <1>4
    <2> QED BY <1>s, <1>4, <2>1 DEF Contract!End, Known
  <1>5. \/ Progress(r)' = Progress(r)
        \/ flow[r] = "signed" /\ flow'[r] = "live"
        \/ Progress(r) # "over" /\ Progress(r)' = "over"
    BY DEF Progress
  <1> QED BY <1>1, <1>3, <1>4, <1>5

LEMMA RefStep ==
    ASSUME ExecInv, [ExecNext]_execVars
    PROVE  [Contract!ContractNext]_(Contract!contractVars)
  <1> DEFINE Goal == [Contract!ContractNext]_(Contract!contractVars)
  <1>i. ExecInv'
    BY ExecStepInv
  <1>t. flow \in [Runs -> {"none", "gated", "signed", "live", "over", "barred"}]
    BY DEF ExecInv, ExecTypeOK
  <1>c. ASSUME NEW r \in Runs,
               \/ Contract!Open(r) \/ Contract!Begin(r) \/ Contract!End(r)
               \/ Contract!Decide(r) \/ Contract!SettleRun(r)
               \/ Contract!Reconcile(r) \/ Contract!Forget(r)
        PROVE  Goal
    BY <1>c DEF Contract!ContractNext
  <1>u. ASSUME UNCHANGED <<tables, flow>> PROVE Goal
    BY <1>u, SamePicture, StutterOfContract DEF tables
  <1>1. ASSUME Time PROVE Goal
    <2>1. UNCHANGED flow /\ Tick
      BY <1>1 DEF Time, processVars
    <2>2. ASSUME NEW r \in Runs PROVE Goal
      BY <1>i, <2>1, RefLedger
    <2>3. CASE Runs = {}
      BY <2>3, <2>1, StutterOfContract DEF Tick
    <2> QED BY <2>2, <2>3
  <1> HIDE DEF Goal
  <1>2. ASSUME NEW r \in Runs, SubmitterStep(r) PROVE Goal
    <2>1. UNCHANGED flow
      BY <1>2 DEF SubmitterStep, Submit, PrepareWrite, Launch, SubmissionFails,
                  ReportStartFailure
    <2>2. CASE Submit(r)
      BY <1>i, <1>c, <2>1, <2>2, RefLedger DEF Submit
    <2>3. CASE ReportStartFailure(r)
      <3>1. CASE Finish(r, None, "unstarted", "none")
        <4>1. "unstarted" \in Decided
          BY DEF Decided
        <4>2. Contract!Decide(r)
          BY <1>i, <2>1, <3>1, <4>1, RefLedger
        <4> QED BY <1>c, <4>2
      <3> QED BY <1>u, <2>1, <2>3, <3>1 DEF ReportStartFailure
    <2> QED
      BY <1>2, <1>u, <2>1, <2>2, <2>3
      DEF SubmitterStep, PrepareWrite, Launch, SubmissionFails
  <1>3. ASSUME NEW r \in Runs, WorkerStep(r) PROVE Goal
    <2>1. CASE WorkerChecksLease(r) \/ WorkerClaims(r) \/ WorkerBeats(r)
               \/ WorkerCommits(r)
      <3>1. UNCHANGED flow
        BY <2>1 DEF WorkerChecksLease, WorkerClaims, WorkerBeats, WorkerCommits
      <3>2. draft[r].verdict \in Decided
        BY DEF ExecInv, DraftsAreReportable, WorkerVerdicts, Decided
      <3>3. \/ UNCHANGED tables
            \/ Get(r)
            \/ Claim(r, r)
            \/ \E wait : Heartbeat(r, r, wait)
            \/ Finish(r, r, draft[r].verdict, draft[r].effects)
        BY <2>1 DEF WorkerChecksLease, WorkerClaims, WorkerBeats, WorkerCommits
      <3>4. CASE UNCHANGED tables
        BY <1>u, <3>1, <3>4
      <3>5. UNCHANGED Contract!contractVars \/ Contract!Decide(r) \/ UNCHANGED tables
        BY <1>i, <3>1, <3>2, <3>3, RefLedger
      <3> QED BY <1>c, <3>4, <3>5 DEF Goal
    <2>2. CASE WorkerAcknowledges(r) \/ WorkerStops(r)
      <3>1. /\ UNCHANGED tables /\ \A q \in Runs \ {r} : flow'[q] = flow[q]
            /\ \/ flow'[r] = flow[r]
               \/ flow[r] = "gated" /\ flow'[r] = "signed"
               \/ flow[r] = "live" /\ flow'[r] = "over"
        BY <1>t, <2>2 DEF WorkerAcknowledges, WorkerStops
      <3>2. Contract!Begin(r) \/ Contract!End(r) \/ UNCHANGED Contract!contractVars
        BY <1>i, <3>1, RefFlow
      <3> QED BY <1>c, <3>2 DEF Goal
    <2> QED
      BY <1>3, <1>u, <2>1, <2>2
      DEF WorkerStep, WorkerReadsJob, WorkerTakesGuard, WorkerRefuses,
          WorkerCannotStart, WorkerStartsGuardian, WorkerCollects, WorkerLeaves,
          WorkerDies
  <1>4. ASSUME NEW r \in Runs, GuardianStep(r) PROVE Goal
    <2>1. /\ UNCHANGED tables /\ \A q \in Runs \ {r} : flow'[q] = flow[q]
          /\ \/ flow'[r] = flow[r]
             \/ flow[r] = "none" /\ flow'[r] = "gated"
             \/ flow[r] = "signed" /\ flow'[r] = "live"
             \/ flow[r] \in {"none", "gated", "signed"} /\ flow'[r] = "barred"
             \/ flow[r] = "live" /\ flow'[r] = "over"
      BY <1>t, <1>4
      DEF GuardianStep, GuardianLaunches, GuardianOpensGate, WorkflowExits,
          GuardianEnds, GuardianKilled, Barred
    <2>2. Contract!Begin(r) \/ Contract!End(r) \/ UNCHANGED Contract!contractVars
      BY <1>i, <2>1, RefFlow
    <2> QED BY <1>c, <2>2 DEF Goal
  <1>5. ASSUME NEW r \in Runs, RecoveryStep(r) PROVE Goal
    <2>1. UNCHANGED flow
      BY <1>5
      DEF RecoveryStep, Observe, RequestCancel, Finalize, SaveResult, ScrubInputs,
          StorageFails, FinishFinalization, Reconcile, CleanupFiles, CleanupRow,
          FinalizerDies, processVars
    <2>2. CASE Get(r)
      <3>1. Contract!Decide(r) \/ UNCHANGED Contract!contractVars
        BY <1>i, <2>1, <2>2, RefLedger
      <3> QED BY <1>c, <3>1 DEF Goal
    <2>3. CASE FinishFinalization(r)
      <3>1. finalizer[r].pc = "settling"
        BY <2>3 DEF FinishFinalization
      <3>2. /\ ~Shared(r) /\ Terminal(r) /\ rows[r].pending
            /\ finalizer[r].seen = ResultOf(r)
        BY <3>1 DEF ExecInv, LockExcludes, Exclusive, FinalizerSees
      <3>3. finalizer[r].seen.effects = rows[r].effects
        BY <3>2 DEF ResultOf
      <3>4. CASE Settle(r, ReleasesKey(rows[r].effects))
        BY <1>i, <1>c, <2>1, <3>2, <3>4, RefExclusive
      <3> QED BY <1>u, <2>1, <2>3, <3>3, <3>4 DEF FinishFinalization
    <2>4. CASE Reconcile(r)
      BY <1>i, <1>c, <2>1, <2>4, RefExclusive DEF Reconcile, GuardIdle
    <2>5. CASE CleanupRow(r)
      <3>1. ~Shared(r)
        BY <2>5 DEF CleanupRow, FinalizerMoves, ExecInv, LockExcludes, Exclusive
      <3> QED BY <1>i, <1>c, <2>1, <2>5, <3>1, RefExclusive DEF CleanupRow
    <2> QED
      BY <1>5, <1>u, <2>1, <2>2, <2>3, <2>4, <2>5
      DEF RecoveryStep, Observe, RequestCancel, Finalize, SaveResult, ScrubInputs,
          StorageFails, CleanupFiles, FinalizerDies
  <1>6. ASSUME UNCHANGED execVars PROVE Goal
    BY <1>6, <1>u DEF execVars, processVars, tables
  <1>7. Goal
    <2>1. \/ Time \/ UNCHANGED execVars
          \/ \E r \in Runs : SubmitterStep(r) \/ WorkerStep(r) \/ GuardianStep(r)
                             \/ RecoveryStep(r)
      BY DEF ExecNext
    <2> QED BY <2>1, <1>1, <1>2, <1>3, <1>4, <1>5, <1>6
  <1> QED BY <1>7 DEF Goal

(* The processes keep the invocation contract: every step of submission,   *)
(* execution and recovery is a step of RunContract or leaves it alone.     *)
THEOREM ExecutionKeepsContract == ExecSpec => ImplementsContract
  <1>1. ExecInv /\ [ExecNext]_execVars
          => [Contract!ContractNext]_(Contract!contractVars)
    BY RefStep
  <1> QED
    BY <1>1, RefInit, ExecInvariant, PTL
    DEF ExecSpec, ImplementsContract, Contract!ContractSpec

(* Finalization alone never hands on a resource whose effects are partial  *)
(* or unknown: its key is given up only for a settled run, with no         *)
(* workflow executing, by a reconcile.                                     *)
THEOREM UnverifiedStaysKept == ExecSpec => UnverifiedResourceIsKept
  <1> DEFINE Kept(k, r) ==
        Holds(r, k) /\ ~Holds(r, k)' /\ rows[r].effects \in {"partial", "unknown"}
          => Settled(r) /\ flow[r] # "live" /\ finalizer[r].pc = "idle"
  <1>1. ASSUME ExecInv, ExecNext, NEW k \in Keys, NEW q \in Runs PROVE Kept(k, q)
    <2>t. locks \in [Keys -> Runs \cup {None}] /\ None \notin Runs
      BY <1>1, ExecutionAssumption DEF ExecInv, ExecTypeOK, LedgerTypeOK
    <2>1. CASE UNCHANGED locks
      BY <2>1 DEF Holds
    <2>2. ASSUME NEW r \in Runs, Submit(r) PROVE Kept(k, q)
      <3>1. /\ locks' = [l \in Keys |-> IF l = KeyOf[r] THEN r ELSE locks[l]]
            /\ KeyOf[r] # None => locks[KeyOf[r]] = None
        BY <2>2 DEF Submit, Create, KeyFree
      <3>2. k # None
        BY ExecutionAssumption
      <3>3. Holds(q, k) => Holds(q, k)'
        BY <2>t, <3>1, <3>2 DEF Holds
      <3> QED BY <3>3
    <2>3. ASSUME NEW r \in Runs, FinishFinalization(r) PROVE Kept(k, q)
      <3>1. finalizer[r].pc = "settling"
        BY <2>3 DEF FinishFinalization
      <3>2. finalizer[r].seen = ResultOf(r)
        BY <1>1, <3>1 DEF ExecInv, FinalizerSees
      <3>3. finalizer[r].seen.effects = rows[r].effects
        BY <3>2 DEF ResultOf
      <3>4. \/ UNCHANGED locks
            \/ /\ rows[r].effects \notin {"partial", "unknown"}
               /\ locks' = WithoutLocksOf(r)
        BY <2>3, <3>3 DEF FinishFinalization, Settle, ReleasesKey, Unresolved, tables
      <3> QED BY <2>1, <2>t, <3>4 DEF Holds, WithoutLocksOf
    <2>4. ASSUME NEW r \in Runs, Reconcile(r) PROVE Kept(k, q)
      <3>1. /\ Settled(r) /\ flow[r] # "live" /\ finalizer[r].pc = "idle"
            /\ locks' = WithoutLocksOf(r)
        BY <2>4 DEF Reconcile, GuardIdle, Shared, Exclusive, Release, Releasable
      <3> QED BY <2>t, <3>1 DEF Holds, WithoutLocksOf
    <2> HIDE DEF Kept
    <2>5. ASSUME NEW r \in Runs, SubmitterStep(r) PROVE Kept(k, q)
      BY <2>1, <2>2, <2>5
      DEF SubmitterStep, PrepareWrite, Launch, SubmissionFails, ReportStartFailure,
          Finish, tables
    <2>6. ASSUME NEW r \in Runs, WorkerStep(r) PROVE UNCHANGED locks
      BY <2>6
      DEF WorkerStep, WorkerReadsJob, WorkerTakesGuard, WorkerChecksLease,
          WorkerClaims, WorkerRefuses, WorkerCannotStart, WorkerStartsGuardian,
          WorkerBeats, WorkerAcknowledges, WorkerStops, WorkerCollects, WorkerCommits,
          WorkerLeaves, WorkerDies, Get, Claim, Heartbeat, Finish, tables
    <2>7. ASSUME NEW r \in Runs, GuardianStep(r) PROVE UNCHANGED locks
      BY <2>7
      DEF GuardianStep, GuardianLaunches, GuardianOpensGate, WorkflowExits,
          GuardianEnds, GuardianKilled, tables
    <2>8. ASSUME NEW r \in Runs, RecoveryStep(r) PROVE Kept(k, q)
      BY <2>1, <2>3, <2>4, <2>8
      DEF RecoveryStep, Observe, RequestCancel, Finalize, SaveResult, ScrubInputs,
          StorageFails, CleanupFiles, CleanupRow, FinalizerDies, Get, Delete, tables
    <2> QED BY <1>1, <2>1, <2>5, <2>6, <2>7, <2>8 DEF ExecNext, Time, Tick
  <1>2. ExecInv /\ [ExecNext]_execVars
          => [\A k \in Keys, r \in Runs : Kept(k, r)]_execVars
    BY <1>1
  <1> QED
    BY <1>2, ExecInvariant, PTL DEF UnverifiedResourceIsKept, ExecSpec

-----------------------------------------------------------------------------
(* What results say.  The worker that may launch a run is there only once  *)
(* its caller is done, a guardian only once the worker has set "launched", *)
(* a workflow only under a guardian; and what is drafted, committed and    *)
(* kept on disk follows the order in which the code gets there.            *)
Unlaunched == {"none", "born", "ready", "guarded", "checked", "claimed"}
Order(r) ==
    /\ submitter[r] # "ended" => worker[r] = "none"
    /\ worker[r] \in Unlaunched => guardian[r] = "none"
    /\ guardian[r] = "none" => flow[r] = "none"

DraftIsSound(r) ==
    /\ r \in Effectful /\ draft[r].verdict # "completed" /\ draft[r].effects = "none"
         => guardian[r] = "none"
    /\ draft[r].verdict = "completed" => store[r].evidence = draft[r].effects

(* The worker is past its commit, or the caller could not start one.       *)
Past(r) == worker[r] \in {"committed", "gone"}
RowIsSound(r) ==
    /\ Running(r) => rows[r].effects = Declared(r)
    /\ r \in Effectful /\ Terminal(r) /\ rows[r].verdict # "completed"
       /\ rows[r].effects = "none"
         => /\ guardian[r] = "none"
            /\ Past(r) \/ (worker[r] = "none" /\ submitter[r] = "ended")
    /\ rows[r].verdict = "completed"
         => /\ Past(r)
            /\ store[r].evidence = rows[r].effects \/ (~store[r].dir /\ ~rows[r].pending)

Sound(r) ==
    /\ Order(r)
    /\ worker[r] = "done" => DraftIsSound(r)
    /\ RowIsSound(r)
ResultInv == \A r \in Runs : Sound(r)

View(r) ==
    <<submitter[r], worker[r], guardian[r], flow[r], draft[r], store[r].evidence,
      store[r].dir, rows[r].verdict, rows[r].effects, rows[r].pending>>

LEMMA SameView ==
    ASSUME NEW q \in Runs, Sound(q), View(q)' = View(q) PROVE Sound(q)'
  BY DEF View, Sound, Order, DraftIsSound, RowIsSound, Past, Running, Terminal, Declared

(* A step of one run leaves the others as they are.                        *)
SameOf(q) ==
    /\ rows'[q] = rows[q] /\ asked'[q] = asked[q]
    /\ submitter'[q] = submitter[q] /\ worker'[q] = worker[q] /\ draft'[q] = draft[q]
    /\ guardian'[q] = guardian[q] /\ flow'[q] = flow[q]
    /\ store'[q] = store[q] /\ finalizer'[q] = finalizer[q]

LEMMA OthersStay ==
    ASSUME ExecInv, NEW q \in Runs, NEW r \in Runs \ {q},
           SubmitterStep(r) \/ WorkerStep(r) \/ GuardianStep(r) \/ RecoveryStep(r)
    PROVE  SameOf(q)
  <1>t. LedgerTypeOK /\ ProcessTypes /\ StoreType /\ FinalizerType
    BY TypeParts DEF ExecInv
  <1> DEFINE Rows == rows'[q] = rows[q] /\ asked'[q] = asked[q]
             Processes == /\ submitter'[q] = submitter[q] /\ worker'[q] = worker[q]
                          /\ guardian'[q] = guardian[q] /\ flow'[q] = flow[q]
                          /\ draft'[q] = draft[q]
             Store == store'[q] = store[q]
             Finalizer == finalizer'[q] = finalizer[q]
  <1>1. Rows
    <2> USE <1>t DEF LedgerTypeOK
    <2>1. \A owner, verdict, effects : Finish(r, owner, verdict, effects) => Rows
      BY DEF Finish
    <2>2. Get(r) \/ Claim(r, r) \/ Release(r) \/ Delete(r) \/ UNCHANGED tables => Rows
      BY DEF Get, Claim, Release, Delete, tables
    <2>3. \A wait : Heartbeat(r, r, wait) => Rows
      BY DEF Heartbeat
    <2>4. \A known : Settle(r, known) => Rows
      BY DEF Settle
    <2>5. \A key, effects : Create(r, key, None, effects) => Rows
      BY DEF Create
    <2> HIDE DEF Rows
    <2>6. SubmitterStep(r) => Rows
      BY <2>1, <2>2, <2>5
      DEF SubmitterStep, Submit, PrepareWrite, Launch, SubmissionFails, ReportStartFailure
    <2>7. WorkerStep(r) => Rows
      BY <2>1, <2>2, <2>3
      DEF WorkerStep, WorkerReadsJob, WorkerTakesGuard, WorkerChecksLease, WorkerClaims,
          WorkerRefuses, WorkerCannotStart, WorkerStartsGuardian, WorkerBeats,
          WorkerAcknowledges, WorkerStops, WorkerCollects, WorkerCommits, WorkerLeaves,
          WorkerDies
    <2>8. GuardianStep(r) \/ RecoveryStep(r) => Rows
      BY <2>2, <2>4
      DEF GuardianStep, GuardianLaunches, GuardianOpensGate, WorkflowExits, GuardianEnds,
          GuardianKilled, RecoveryStep, Observe, RequestCancel, Finalize, SaveResult,
          ScrubInputs, StorageFails, FinishFinalization, Reconcile, CleanupFiles,
          CleanupRow, FinalizerDies
    <2> QED BY <2>6, <2>7, <2>8
  <1>2. Processes
    <2> USE <1>t DEF ProcessTypes
    <2>1. SubmitterStep(r) => Processes
      BY DEF SubmitterStep, Submit, PrepareWrite, Launch, SubmissionFails,
             ReportStartFailure
    <2>2. WorkerStep(r) => Processes
      BY DEF WorkerStep, WorkerReadsJob, WorkerTakesGuard, WorkerChecksLease,
             WorkerClaims, WorkerRefuses, WorkerCannotStart, WorkerStartsGuardian,
             WorkerBeats, WorkerAcknowledges, WorkerStops, WorkerCollects,
             WorkerCommits, WorkerLeaves, WorkerDies, WorkerMoves, Drafts
    <2>3. GuardianStep(r) \/ RecoveryStep(r) => Processes
      BY DEF GuardianStep, GuardianLaunches, GuardianOpensGate, WorkflowExits,
             GuardianEnds, GuardianKilled, RecoveryStep, Observe, RequestCancel,
             Finalize, SaveResult, ScrubInputs, StorageFails, FinishFinalization,
             Reconcile, CleanupFiles, CleanupRow, FinalizerDies, processVars
    <2> QED BY <2>1, <2>2, <2>3
  <1>3. Store
    <2> USE <1>t DEF StoreType
    <2>1. SubmitterStep(r) \/ WorkerStep(r) => Store
      BY DEF SubmitterStep, Submit, PrepareWrite, Launch, SubmissionFails,
             ReportStartFailure, WorkerStep, WorkerReadsJob, WorkerTakesGuard,
             WorkerChecksLease, WorkerClaims, WorkerRefuses, WorkerCannotStart,
             WorkerStartsGuardian, WorkerBeats, WorkerAcknowledges, WorkerStops,
             WorkerCollects, WorkerCommits, WorkerLeaves, WorkerDies
    <2>2. GuardianStep(r) \/ RecoveryStep(r) => Store
      BY DEF GuardianStep, GuardianLaunches, GuardianOpensGate, WorkflowExits,
             GuardianEnds, GuardianKilled, RecoveryStep, Observe, RequestCancel,
             Finalize, SaveResult, ScrubInputs, StorageFails, FinishFinalization,
             Reconcile, CleanupFiles, CleanupRow, FinalizerDies
    <2> QED BY <2>1, <2>2
  <1>4. Finalizer
    <2> USE <1>t DEF FinalizerType
    <2>1. SubmitterStep(r) \/ WorkerStep(r) => Finalizer
      BY DEF SubmitterStep, Submit, PrepareWrite, Launch, SubmissionFails,
             ReportStartFailure, WorkerStep, WorkerReadsJob, WorkerTakesGuard,
             WorkerChecksLease, WorkerClaims, WorkerRefuses, WorkerCannotStart,
             WorkerStartsGuardian, WorkerBeats, WorkerAcknowledges, WorkerStops,
             WorkerCollects, WorkerCommits, WorkerLeaves, WorkerDies
    <2>2. GuardianStep(r) \/ RecoveryStep(r) => Finalizer
      BY DEF GuardianStep, GuardianLaunches, GuardianOpensGate, WorkflowExits,
             GuardianEnds, GuardianKilled, RecoveryStep, Observe, RequestCancel,
             Finalize, SaveResult, ScrubInputs, StorageFails, FinishFinalization,
             Reconcile, CleanupFiles, CleanupRow, FinalizerDies, FinalizerMoves
    <2> QED BY <2>1, <2>2
  <1> QED BY <1>1, <1>2, <1>3, <1>4 DEF SameOf

(* What the ledger's transactions do to the outcome of their own run.      *)
Outcome(r) == <<rows[r].verdict, rows[r].effects, rows[r].pending>>

LEMMA OutcomeChanges ==
    ASSUME LedgerTypeOK, NEW r \in Runs
    PROVE  /\ Get(r) \/ Claim(r, r) \/ Release(r) => rows'[r].effects = rows[r].effects
           /\ Get(r) => Outcome(r)' = Outcome(r)
                        \/ (Running(r) /\ rows'[r].verdict = "lost" /\ rows'[r].pending)
           /\ Claim(r, r) \/ Release(r) \/ UNCHANGED tables => Outcome(r)' = Outcome(r)
           /\ \A wait : Heartbeat(r, r, wait) => Outcome(r)' = Outcome(r)
           /\ \A owner, verdict, effects : Finish(r, owner, verdict, effects) =>
                  /\ Running(r) /\ rows'[r].verdict = verdict
                  /\ rows'[r].effects = effects /\ rows'[r].pending
           /\ \A known : Settle(r, known) =>
                  /\ rows'[r].verdict = rows[r].verdict /\ rows'[r].effects = rows[r].effects
                  /\ ~rows'[r].pending
           /\ Delete(r) => rows'[r].verdict = "absent"
           /\ Tick => Outcome(r)' = Outcome(r)
  <1> USE DEF LedgerTypeOK, Row, Outcome
  <1>1. Get(r) => /\ rows'[r].effects = rows[r].effects
                  /\ Outcome(r)' = Outcome(r)
                        \/ (Running(r) /\ rows'[r].verdict = "lost" /\ rows'[r].pending)
    BY DEF Get, Expired, Lost
  <1>2. Claim(r, r) \/ Release(r) \/ UNCHANGED tables => Outcome(r)' = Outcome(r)
    BY DEF Claim, Release, tables
  <1>3. \A wait : Heartbeat(r, r, wait) => Outcome(r)' = Outcome(r)
    BY DEF Heartbeat
  <1>4. \A owner, verdict, effects : Finish(r, owner, verdict, effects) =>
            /\ Running(r) /\ rows'[r].verdict = verdict
            /\ rows'[r].effects = effects /\ rows'[r].pending
    BY DEF Finish, CanFinish
  <1>5. \A known : Settle(r, known) =>
            /\ rows'[r].verdict = rows[r].verdict /\ rows'[r].effects = rows[r].effects
            /\ ~rows'[r].pending
    BY DEF Settle
  <1>6. Delete(r) => rows'[r].verdict = "absent"
    BY DEF Delete, NoRow
  <1>7. Tick => Outcome(r)' = Outcome(r)
    BY DEF Tick
  <1> HIDE DEF LedgerTypeOK, Row
  <1> QED BY <1>1, <1>2, <1>3, <1>4, <1>5, <1>6, <1>7

(* The caller's steps.                                                     *)
LEMMA SubmitterKeepsSound ==
    ASSUME ExecInv, NEW r \in Runs, Sound(r), SubmitterStep(r) PROVE Sound(r)'
  <1>t. LedgerTypeOK /\ ProcessTypes /\ StoreType
    BY TypeParts DEF ExecInv
  <1>d. Declared(r) \in {"none", "unknown"} /\ (r \in Effectful => Declared(r) = "unknown")
    BY DEF Declared
  <1>k. Declared(r)' = Declared(r)
    BY DEF Declared
  <1>s. /\ Order(r) /\ RowIsSound(r)
        /\ worker[r] = "done" => DraftIsSound(r)
    BY DEF Sound
  <1>1. CASE Submit(r)
    <2>1. /\ Running(r)' /\ rows'[r].effects = Declared(r)
          /\ worker[r] = "none" /\ worker'[r] = "none"
          /\ UNCHANGED <<guardian, flow, draft, store>>
      BY <1>1, <1>t, <1>s
      DEF Submit, Create, LedgerTypeOK, Running, NoRow, Order
    <2>2. Order(r)'
      BY <2>1, <1>s DEF Order
    <2>3. RowIsSound(r)'
      BY <2>1, <1>k DEF RowIsSound, Running, Terminal, Decided
    <2> QED BY <2>1, <2>2, <2>3 DEF Sound
  <1>2. CASE PrepareWrite(r)
    <2>1. /\ worker[r] = "none" /\ submitter'[r] # "ended"
          /\ UNCHANGED <<tables, worker, guardian, flow, draft>>
          /\ submitter[r] # "ended"
      BY <1>2, <1>t, <1>s DEF PrepareWrite, ProcessTypes, Order
    <2>2. Order(r)'
      BY <2>1, <1>s DEF Order
    <2>3. RowIsSound(r)'
      BY <2>1, <1>k, <1>s DEF RowIsSound, Running, Terminal, Past, tables
    <2> QED BY <2>1, <2>2, <2>3 DEF Sound
  <1>3. CASE Launch(r)
    <2>1. /\ worker[r] = "none" /\ submitter[r] # "ended"
          /\ worker'[r] = "born" /\ submitter'[r] = "ended"
          /\ UNCHANGED <<tables, guardian, flow, draft, store>>
      BY <1>3, <1>t, <1>s DEF Launch, ProcessTypes, Order
    <2>2. Order(r)'
      BY <2>1, <1>s DEF Order, Unlaunched
    <2>3. RowIsSound(r)'
      BY <2>1, <1>k, <1>s DEF RowIsSound, Running, Terminal, Past, tables
    <2> QED BY <2>1, <2>2, <2>3 DEF Sound
  <1>4. CASE SubmissionFails(r)
    <2>1. /\ worker[r] = "none" /\ submitter[r] # "ended"
          /\ UNCHANGED <<tables, worker, guardian, flow, draft, store>>
      BY <1>4, <1>s DEF SubmissionFails, Submitting, Order
    <2>2. Order(r)'
      BY <2>1, <1>s DEF Order
    <2>3. RowIsSound(r)'
      BY <2>1, <1>k, <1>s DEF RowIsSound, Running, Terminal, Past, tables
    <2> QED BY <2>1, <2>2, <2>3 DEF Sound
  <1>5. CASE ReportStartFailure(r)
    <2>1. /\ worker[r] = "none" /\ guardian[r] = "none" /\ submitter'[r] = "ended"
          /\ UNCHANGED <<worker, guardian, flow, draft, store>>
      BY <1>5, <1>t, <1>s DEF ReportStartFailure, ProcessTypes, Order, Unlaunched
    <2>2. Order(r)'
      BY <2>1, <1>s DEF Order
    <2>3. \/ Outcome(r)' = Outcome(r)
          \/ rows'[r].verdict = "unstarted"
      BY <1>5, <1>t, OutcomeChanges DEF ReportStartFailure
    <2>4. RowIsSound(r)'
      BY <2>1, <2>3, <1>k, <1>s DEF RowIsSound, Running, Terminal, Past, Outcome, Decided
    <2> QED BY <2>1, <2>2, <2>4 DEF Sound
  <1> QED BY <1>1, <1>2, <1>3, <1>4, <1>5 DEF SubmitterStep

(* A worker that goes on while its row stays or is lost to a reader.       *)
LEMMA WorkerGoesOn ==
    ASSUME NEW r \in Runs, Sound(r), worker[r] # "none", worker'[r] # "none",
           worker'[r] \in Unlaunched => worker[r] \in Unlaunched,
           Past(r) => Past(r)',
           guardian[r] # "none" => guardian'[r] # "none",
           guardian'[r] # guardian[r] => worker[r] \in Unlaunched /\ worker'[r] \notin Unlaunched,
           flow'[r] = flow[r] \/ guardian'[r] # "none",
           submitter' = submitter, store'[r].dir = store[r].dir,
           \/ store'[r].evidence = store[r].evidence
           \/ ~Past(r),
           worker'[r] = "done" => DraftIsSound(r)',
           \/ Outcome(r)' = Outcome(r)
           \/ /\ Running(r) /\ rows'[r].verdict = "lost"
              /\ rows'[r].effects = rows[r].effects
    PROVE  Sound(r)'
  <1>s. Order(r) /\ RowIsSound(r)
    BY DEF Sound
  <1>d. Declared(r)' = Declared(r) /\ (r \in Effectful => Declared(r) = "unknown")
    BY DEF Declared
  <1>1. Order(r)'
    BY <1>s DEF Order
  <1>2. CASE Outcome(r)' = Outcome(r)
    <2>1. RowIsSound(r)'
      BY <1>s, <1>d, <1>2 DEF RowIsSound, Running, Terminal, Outcome, Past, Unlaunched
    <2> QED BY <1>1, <2>1 DEF Sound
  <1>3. CASE Running(r) /\ rows'[r].verdict = "lost" /\ rows'[r].effects = rows[r].effects
    <2>1. RowIsSound(r)'
      BY <1>s, <1>d, <1>3 DEF RowIsSound, Running, Terminal, Past
    <2> QED BY <1>1, <2>1 DEF Sound
  <1> QED BY <1>2, <1>3

LEMMA WorkerKeepsSound ==
    ASSUME ExecInv, NEW r \in Runs, Sound(r), WorkerStep(r) PROVE Sound(r)'
  <1>t. LedgerTypeOK /\ ProcessTypes /\ StoreType
    BY TypeParts DEF ExecInv
  <1>d. Declared(r)' = Declared(r) /\ (r \in Effectful => Declared(r) = "unknown")
    BY DEF Declared
  <1>s. /\ Order(r) /\ RowIsSound(r)
        /\ worker[r] = "done" => DraftIsSound(r)
    BY DEF Sound
  <1>o. /\ UNCHANGED tables => Outcome(r)' = Outcome(r)
        /\ Claim(r, r) => Outcome(r)' = Outcome(r)
        /\ \A wait : Heartbeat(r, r, wait) => Outcome(r)' = Outcome(r)
        /\ Get(r) => \/ Outcome(r)' = Outcome(r)
                     \/ /\ Running(r) /\ rows'[r].verdict = "lost"
                        /\ rows'[r].effects = rows[r].effects
    BY <1>t, OutcomeChanges
  <1>1. CASE WorkerReadsJob(r) \/ WorkerTakesGuard(r) \/ WorkerChecksLease(r)
             \/ WorkerClaims(r)
    <2>1. /\ worker[r] \in Unlaunched \ {"none"} /\ worker'[r] \notin {"none", "done"}
          /\ ~Past(r) /\ UNCHANGED <<submitter, draft, guardian, flow, store>>
      BY <1>1, <1>t
      DEF WorkerReadsJob, WorkerTakesGuard, WorkerChecksLease, WorkerClaims, WorkerMoves,
          ProcessTypes, Unlaunched, Past
    <2>2. \/ Outcome(r)' = Outcome(r)
          \/ /\ Running(r) /\ rows'[r].verdict = "lost"
             /\ rows'[r].effects = rows[r].effects
      BY <1>1, <1>o DEF WorkerReadsJob, WorkerTakesGuard, WorkerChecksLease, WorkerClaims
    <2> QED BY <2>1, <2>2, WorkerGoesOn
  <1>2. CASE WorkerRefuses(r) \/ WorkerCannotStart(r)
    <2>1. /\ worker[r] = "claimed" /\ worker'[r] = "done"
          /\ UNCHANGED <<tables, submitter, guardian, flow, store>>
      BY <1>2, <1>t DEF WorkerRefuses, WorkerCannotStart, WorkerMoves, ProcessTypes
    <2>2. guardian'[r] = "none"
      BY <2>1, <1>s DEF Order, Unlaunched
    <2>3. draft'[r].verdict # "completed"
      BY <1>2, <1>t DEF WorkerRefuses, WorkerCannotStart, Drafts, ProcessTypes
    <2>4. DraftIsSound(r)'
      BY <2>2, <2>3 DEF DraftIsSound
    <2>5. worker[r] \in Unlaunched /\ worker'[r] \notin Unlaunched /\ ~Past(r)
      BY <2>1 DEF Unlaunched, Past
    <2> QED BY <2>1, <2>4, <2>5, <1>o, WorkerGoesOn
  <1>3. CASE WorkerStartsGuardian(r)
    <2>1. /\ worker[r] = "claimed" /\ worker'[r] = "waiting" /\ guardian'[r] # "none"
          /\ UNCHANGED <<tables, submitter, draft, flow, store>>
      BY <1>3, <1>t DEF WorkerStartsGuardian, WorkerMoves, ProcessTypes
    <2>2. worker[r] \in Unlaunched /\ worker'[r] \notin Unlaunched /\ ~Past(r)
      BY <2>1 DEF Unlaunched, Past
    <2> QED BY <2>1, <2>2, <1>o, WorkerGoesOn
  <1>4. CASE WorkerBeats(r) \/ WorkerAcknowledges(r)
    <2>1. /\ worker[r] \in Supervising /\ worker'[r] = "watching"
          /\ UNCHANGED <<submitter, draft, guardian, store>>
          /\ flow'[r] = flow[r] \/ guardian'[r] # "none"
      BY <1>4, <1>t DEF WorkerBeats, WorkerAcknowledges, Supervising, ProcessTypes
    <2>2. Outcome(r)' = Outcome(r)
      BY <1>4, <1>o DEF WorkerBeats, WorkerAcknowledges
    <2>3. worker'[r] \notin Unlaunched /\ ~Past(r) /\ worker[r] # "none"
      BY <2>1 DEF Unlaunched, Past, Supervising
    <2> QED BY <2>1, <2>2, <2>3, WorkerGoesOn
  <1>5. CASE WorkerStops(r)
    <2>1. /\ worker[r] \in Supervising /\ worker'[r] = "done"
          /\ UNCHANGED <<tables, submitter, guardian, store>>
          /\ flow'[r] = flow[r] \/ guardian'[r] # "none"
      BY <1>5, <1>t DEF WorkerStops, ProcessTypes
    <2>2. draft'[r].verdict # "completed" /\ draft'[r].effects = Declared(r)
      BY <1>5, <1>t DEF WorkerStops, Drafts, ProcessTypes
    <2>3. DraftIsSound(r)'
      BY <2>2, <1>d DEF DraftIsSound
    <2>4. worker'[r] \notin Unlaunched /\ ~Past(r) /\ worker[r] # "none"
      BY <2>1 DEF Unlaunched, Past, Supervising
    <2> QED BY <2>1, <2>3, <2>4, <1>o, WorkerGoesOn
  <1>6. CASE WorkerCollects(r)
    <2>1. /\ worker[r] = "watching" /\ worker'[r] = "done" /\ guardian[r] = "exited"
          /\ UNCHANGED <<tables, submitter, guardian, flow>>
          /\ store'[r].dir = store[r].dir
      BY <1>6, <1>t DEF WorkerCollects, WorkerMoves, ProcessTypes, StoreType, StoreOfRun
    <2>2. \/ /\ draft'[r].verdict = "completed"
             /\ store'[r].evidence = draft'[r].effects
          \/ draft'[r].verdict # "completed" /\ draft'[r].effects = Declared(r)
      BY <1>6, <1>t DEF WorkerCollects, Drafts, ProcessTypes, StoreType, StoreOfRun
    <2>3. DraftIsSound(r)'
      BY <2>2, <1>d DEF DraftIsSound
    <2>4. worker'[r] \notin Unlaunched /\ ~Past(r) /\ worker[r] # "none"
      BY <2>1 DEF Unlaunched, Past
    <2> QED BY <2>1, <2>3, <2>4, <1>o, WorkerGoesOn
  <1>7. CASE WorkerCommits(r)
    <2>1. /\ worker[r] = "done" /\ worker'[r] \in {"committed", "gone"}
          /\ UNCHANGED <<submitter, guardian, flow, store>>
      BY <1>7, <1>t DEF WorkerCommits, WorkerMoves, ProcessTypes
    <2>2. Order(r)'
      BY <2>1, <1>s DEF Order, Unlaunched
    <2>3. \/ Outcome(r)' = Outcome(r)
          \/ rows'[r].verdict = draft[r].verdict /\ rows'[r].effects = draft[r].effects
      BY <1>7, <1>o, <1>t, OutcomeChanges DEF WorkerCommits
    <2>4. draft[r].verdict \in WorkerVerdicts
      BY DEF ExecInv, DraftsAreReportable
    <2>5. DraftIsSound(r) /\ Past(r)'
      BY <2>1, <1>s DEF Past
    <2>6. CASE Outcome(r)' = Outcome(r)
      <3>1. RowIsSound(r)'
        BY <2>1, <2>5, <2>6, <1>s, <1>d DEF RowIsSound, Outcome, Running, Terminal
      <3> QED BY <2>1, <2>2, <3>1 DEF Sound
    <2>7. CASE rows'[r].verdict = draft[r].verdict /\ rows'[r].effects = draft[r].effects
      <3>1. RowIsSound(r)'
        BY <2>1, <2>4, <2>5, <2>7 DEF RowIsSound, DraftIsSound, Running, WorkerVerdicts
      <3> QED BY <2>1, <2>2, <3>1 DEF Sound
    <2> QED BY <2>3, <2>6, <2>7
  <1>8. CASE WorkerLeaves(r) \/ WorkerDies(r)
    <2>1. /\ worker[r] # "none" /\ worker'[r] = "gone"
          /\ UNCHANGED <<tables, submitter, guardian, flow, store>>
      BY <1>8, <1>t DEF WorkerLeaves, WorkerDies, WorkerMoves, ProcessTypes
    <2>2. worker'[r] \notin Unlaunched /\ Past(r)'
      BY <2>1 DEF Unlaunched, Past
    <2> QED BY <2>1, <2>2, <1>o, WorkerGoesOn
  <1> QED BY <1>1, <1>2, <1>3, <1>4, <1>5, <1>6, <1>7, <1>8 DEF WorkerStep

LEMMA GuardianKeepsSound ==
    ASSUME ExecInv, NEW r \in Runs, Sound(r), GuardianStep(r) PROVE Sound(r)'
  <1>t. LedgerTypeOK /\ ProcessTypes /\ StoreType
    BY TypeParts DEF ExecInv
  <1>s. /\ Order(r) /\ RowIsSound(r)
        /\ worker[r] = "done" => DraftIsSound(r)
    BY DEF Sound
  <1>1. guardian[r] # "none"
    BY <1>s DEF Order, GuardianStep, GuardianLaunches, GuardianOpensGate, WorkflowExits,
                GuardianEnds, GuardianKilled
  <1>2. /\ guardian'[r] # "none"
        /\ UNCHANGED <<tables, submitter, worker, draft>>
    BY <1>1, <1>t
    DEF GuardianStep, GuardianLaunches, GuardianOpensGate, WorkflowExits, GuardianEnds,
        GuardianKilled, ProcessTypes
  <1>3. store'[r].dir = store[r].dir /\ store'[r].evidence = store[r].evidence
    BY <1>t
    DEF GuardianStep, GuardianLaunches, GuardianOpensGate, WorkflowExits, GuardianEnds,
        GuardianKilled, StoreType, StoreOfRun
  <1>4. Order(r)'
    BY <1>1, <1>2, <1>s DEF Order
  <1>5. RowIsSound(r)'
    BY <1>1, <1>2, <1>3, <1>s
    DEF RowIsSound, Running, Terminal, Past, Declared, tables
  <1>6. worker'[r] = "done" => DraftIsSound(r)'
    BY <1>1, <1>2, <1>3, <1>s DEF DraftIsSound
  <1> QED BY <1>4, <1>5, <1>6 DEF Sound

LEMMA RecoveryKeepsSound ==
    ASSUME ExecInv, NEW r \in Runs, Sound(r), RecoveryStep(r) PROVE Sound(r)'
  <1>t. LedgerTypeOK /\ StoreType /\ FinalizerType
    BY TypeParts DEF ExecInv
  <1>d. Declared(r)' = Declared(r) /\ (r \in Effectful => Declared(r) = "unknown")
    BY DEF Declared
  <1>s. /\ Order(r) /\ RowIsSound(r)
        /\ worker[r] = "done" => DraftIsSound(r)
    BY DEF Sound
  <1>p. UNCHANGED <<submitter, worker, draft, guardian, flow>>
    BY DEF RecoveryStep, Observe, RequestCancel, Finalize, SaveResult, ScrubInputs,
           StorageFails, FinishFinalization, Reconcile, CleanupFiles, CleanupRow,
           FinalizerDies, processVars
  <1>o. Order(r)' /\ (Past(r)' <=> Past(r))
    BY <1>p, <1>s DEF Order, Past
  <1>1. CASE Observe(r) \/ Finalize(r) \/ FinishFinalization(r) \/ Reconcile(r)
             \/ FinalizerDies(r)
    <2>1. store' = store
      BY <1>1 DEF Observe, Finalize, FinishFinalization, Reconcile, FinalizerDies
    <2>2. \/ Outcome(r)' = Outcome(r)
          \/ /\ Running(r) /\ rows'[r].verdict = "lost"
             /\ rows'[r].effects = rows[r].effects
          \/ /\ rows'[r].verdict = rows[r].verdict /\ rows'[r].effects = rows[r].effects
             /\ ~rows'[r].pending
      BY <1>1, <1>t, OutcomeChanges
      DEF Observe, Finalize, FinishFinalization, Reconcile, FinalizerDies
    <2>3. RowIsSound(r)'
      BY <1>d, <1>o, <1>p, <1>s, <2>1, <2>2 DEF RowIsSound, Outcome, Running, Terminal
    <2>4. worker'[r] = "done" => DraftIsSound(r)'
      BY <1>p, <1>s, <2>1 DEF DraftIsSound
    <2> QED BY <1>o, <2>3, <2>4 DEF Sound
  <1>2. CASE RequestCancel(r) \/ ScrubInputs(r) \/ StorageFails(r)
    <2>1. store'[r].dir = store[r].dir /\ store'[r].evidence = store[r].evidence
      <3>1. CASE RequestCancel(r) \/ ScrubInputs(r)
        BY <1>t, <3>1 DEF RequestCancel, ScrubInputs, StoreType, StoreOfRun
      <3>2. CASE StorageFails(r)
        <4>1. ASSUME NEW kept, NEW raw,
                     store' = [store EXCEPT ![r].private = kept, ![r].raw = raw]
              PROVE  store'[r].dir = store[r].dir /\ store'[r].evidence = store[r].evidence
          BY <1>t, <4>1 DEF StoreType, StoreOfRun
        <4> QED BY <3>2, <4>1 DEF StorageFails
      <3> QED BY <1>2, <3>1, <3>2
    <2>2. UNCHANGED tables
      BY <1>2 DEF RequestCancel, ScrubInputs, StorageFails
    <2>3. RowIsSound(r)'
      BY <1>d, <1>o, <1>p, <1>s, <2>1, <2>2 DEF RowIsSound, Running, Terminal, tables
    <2>4. worker'[r] = "done" => DraftIsSound(r)'
      BY <1>p, <1>s, <2>1 DEF DraftIsSound
    <2> QED BY <1>o, <2>3, <2>4 DEF Sound
  <1>3. CASE SaveResult(r)
    <2>1. rows[r].pending
      BY <1>3 DEF SaveResult, FinalizerMoves, ExecInv, FinalizerSees
    <2>2. store'[r].evidence = store[r].evidence /\ UNCHANGED tables
      BY <1>3, <1>t DEF SaveResult, StoreType, StoreOfRun
    <2>3. RowIsSound(r)'
      BY <1>d, <1>o, <1>p, <1>s, <2>1, <2>2 DEF RowIsSound, Running, Terminal, tables
    <2>4. worker'[r] = "done" => DraftIsSound(r)'
      BY <1>p, <1>s, <2>2 DEF DraftIsSound
    <2> QED BY <1>o, <2>3, <2>4 DEF Sound
  <1>4. CASE CleanupFiles(r)
    <2>1. ~store'[r].dir /\ UNCHANGED tables
      BY <1>4, <1>t DEF CleanupFiles, StoreType, EmptyStore
    <2>2. ~rows[r].pending /\ worker[r] # "done"
      BY <1>4 DEF CleanupFiles, Deletable, Settled, GuardIdle, Shared, Guarding
    <2>3. RowIsSound(r)'
      BY <1>d, <1>o, <1>p, <1>s, <2>1, <2>2 DEF RowIsSound, Running, Terminal, tables
    <2> QED BY <1>o, <1>p, <2>2, <2>3 DEF Sound
  <1>5. CASE CleanupRow(r)
    <2>1. store' = store /\ rows'[r].verdict = "absent"
      BY <1>5, <1>t, OutcomeChanges DEF CleanupRow
    <2>2. RowIsSound(r)'
      BY <2>1 DEF RowIsSound, Running, Terminal, Decided
    <2>3. worker'[r] = "done" => DraftIsSound(r)'
      BY <1>p, <1>s, <2>1 DEF DraftIsSound
    <2> QED BY <1>o, <2>2, <2>3 DEF Sound
  <1> QED BY <1>1, <1>2, <1>3, <1>4, <1>5 DEF RecoveryStep

LEMMA ResultInitInv == ExecInit => ResultInv
  BY DEF ExecInit, LedgerInit, NoRow, ResultInv, Sound, Order, RowIsSound, Unlaunched,
         Running, Terminal, Decided

LEMMA ResultStepInv ==
    ASSUME ExecInv, ResultInv, [ExecNext]_execVars PROVE ResultInv'
  <1> SUFFICES ASSUME NEW q \in Runs PROVE Sound(q)'
    BY DEF ResultInv
  <1>q. Sound(q)
    BY DEF ResultInv
  <1>1. CASE Time \/ UNCHANGED execVars
    <2>1. UNCHANGED <<processVars, store>> /\ (Tick \/ UNCHANGED tables)
      BY <1>1 DEF Time, execVars
    <2>2. Outcome(q)' = Outcome(q)
      BY <2>1, OutcomeChanges, TypeParts DEF ExecInv
    <2>3. View(q)' = View(q)
      BY <2>1, <2>2 DEF View, Outcome, processVars
    <2> QED BY <1>q, <2>3, SameView
  <1>2. ASSUME NEW r \in Runs,
               SubmitterStep(r) \/ WorkerStep(r) \/ GuardianStep(r) \/ RecoveryStep(r)
        PROVE  Sound(q)'
    <2>1. CASE r = q
      BY <1>q, <1>2, <2>1, SubmitterKeepsSound, WorkerKeepsSound, GuardianKeepsSound,
         RecoveryKeepsSound
    <2>2. CASE r # q
      <3>1. View(q)' = View(q)
        BY <1>2, <2>2, OthersStay DEF SameOf, View
      <3> QED BY <1>q, <3>1, SameView
    <2> QED BY <2>1, <2>2
  <1> QED BY <1>1, <1>2 DEF ExecNext

LEMMA ResultInvariant == ExecSpec => []ResultInv
  <1>1. ExecInv /\ ResultInv /\ [ExecNext]_execVars => ResultInv'
    BY ResultStepInv
  <1> QED BY ResultInitInv, ExecInvariant, <1>1, PTL DEF ExecSpec

(* Effects are never understated: an effectful run that did not complete   *)
(* and reports none has no guardian, so its workflow never executed.       *)
THEOREM NoEffectsNotExecuted == ExecSpec => []NoEffectsMeansNotExecuted
  <1>1. ResultInv => NoEffectsMeansNotExecuted
    BY DEF ResultInv, Sound, Order, RowIsSound, NoEffectsMeansNotExecuted
  <1> QED BY <1>1, ResultInvariant, PTL

(* The evidence of a completed run is on disk and says what the ledger     *)
(* says: it was saved before the commit and goes only with the directory.  *)
THEOREM CompletedHaveEvidence == ExecSpec => []CompletedRunsHaveEvidence
  <1>1. ResultInv => CompletedRunsHaveEvidence
    BY DEF ResultInv, Sound, RowIsSound, CompletedRunsHaveEvidence
  <1> QED BY <1>1, ResultInvariant, PTL

-----------------------------------------------------------------------------
(* What a settled run leaves behind.  A caller that keeps ahead of its     *)
(* lease is alone with its run; after it only a workflow that runs and the *)
(* holder of the lock write, and that holder settles what it has cleaned.  *)
Tidy(r) == store[r].private = {} /\ store[r].raw = None
Kept(r) == ~Running(r) /\ ~rows[r].pending
Cleared(r) ==
    /\ submitter[r] = "idle" => asked[r] = "fresh"
    /\ submitter[r] \in Submitting => Running(r) /\ LeaseGood(r) /\ rows[r].owner = None
    /\ Exclusive(r) => submitter[r] = "ended"
    /\ finalizer[r].pc \in {"scrubbing", "settling"} /\ finalizer[r].clean
         => store[r].result = finalizer[r].seen.verdict
    /\ finalizer[r].pc = "settling" /\ finalizer[r].clean => Tidy(r)
    /\ finalizer[r].pc = "deleting" => Tidy(r) /\ store[r].result = None
    /\ submitter[r] = "ended" /\ Kept(r)
         => Tidy(r) /\ store[r].result \in {None, rows[r].verdict}
ClearedInv == \A r \in Runs \ late : Cleared(r)

LEMMA CallerIsAlone ==
    ASSUME ExecInv, NEW r \in Runs, Cleared(r), submitter[r] # "ended"
    PROVE  finalizer[r].pc = "idle" /\ ~Settled(r) /\ ~Expired(r)
           /\ (Exists(r) => submitter[r] \in Submitting /\ Running(r))
  <1>1. finalizer[r].pc = "idle"
    BY DEF Cleared, Exclusive
  <1>2. submitter[r] \in Submitting \cup {"idle"}
    BY TypeParts DEF ExecInv, ProcessTypes
  <1>3. CASE submitter[r] \in Submitting
    BY <1>1, <1>3
    DEF Cleared, Settled, Expired, Running, Terminal, Decided
  <1>4. CASE submitter[r] = "idle"
    <2>1. ~Exists(r)
      BY <1>4, SameLedger DEF Cleared, ExecInv
    <2> QED BY <1>1, <2>1 DEF Settled, Expired, Running, Terminal, Exists, Decided
  <1> QED BY <1>2, <1>3, <1>4

(* Steps that touch neither what cleaning looks at nor the finalizer.      *)
LEMMA ClearedStays ==
    ASSUME ExecInv, NEW r \in Runs, Cleared(r), submitter[r] = "ended",
           submitter' = submitter, finalizer'[r] = finalizer[r],
           \/ /\ store'[r].private = store[r].private /\ store'[r].raw = store[r].raw
              /\ store'[r].result = store[r].result
           \/ finalizer[r].pc = "idle" /\ ~Kept(r) /\ rows'[r] = rows[r],
           \/ Outcome(r)' = Outcome(r)
           \/ rows'[r].pending
    PROVE  Cleared(r)'
  BY DEF Cleared, Tidy, Kept, Outcome, Running, Exclusive, Submitting

LEMMA SubmitterKeepsCleared ==
    ASSUME ExecInv, NEW r \in Runs, Cleared(r), SubmitterStep(r),
           submitter'[r] \in Submitting => LeaseGood(r)'
    PROVE  Cleared(r)'
  <1>t. LedgerTypeOK /\ ProcessTypes
    BY TypeParts DEF ExecInv
  <1>1. submitter[r] # "ended"
    BY DEF SubmitterStep, Submit, PrepareWrite, Launch, SubmissionFails,
           ReportStartFailure, Submitting
  <1>2. finalizer[r].pc = "idle" /\ finalizer' = finalizer
    BY <1>1, CallerIsAlone
    DEF SubmitterStep, Submit, PrepareWrite, Launch, SubmissionFails, ReportStartFailure
  <1>3. CASE Submit(r)
    <2>1. submitter'[r] = "created" /\ Running(r)' /\ rows'[r].owner = None
      BY <1>3, <1>t DEF Submit, Create, LedgerTypeOK, ProcessTypes, NoRow, Running
    <2> QED BY <1>2, <2>1 DEF Cleared, Submitting, Exclusive
  <1>4. CASE PrepareWrite(r) \/ SubmissionFails(r)
    <2>1. submitter[r] \in Submitting /\ submitter'[r] \in Submitting /\ UNCHANGED tables
      BY <1>4, <1>t DEF PrepareWrite, SubmissionFails, ProcessTypes, Submitting
    <2>2. Running(r)' /\ rows'[r].owner = None
      BY <2>1 DEF Cleared, Running, tables
    <2> QED BY <1>2, <2>1, <2>2 DEF Cleared, Submitting, Exclusive
  <1>5. CASE Launch(r)
    <2>1. submitter[r] \in Submitting /\ submitter'[r] = "ended" /\ UNCHANGED tables
      BY <1>5, <1>t DEF Launch, ProcessTypes, Submitting
    <2>2. Running(r)'
      BY <2>1 DEF Cleared, Running, tables
    <2> QED BY <1>2, <2>1, <2>2 DEF Cleared, Submitting, Exclusive, Kept
  <1>6. CASE ReportStartFailure(r)
    <2>1. submitter[r] \in Submitting /\ submitter'[r] = "ended"
      BY <1>6, <1>t DEF ReportStartFailure, ProcessTypes, Submitting
    <2>2. CanFinish(r, None)
      BY <2>1 DEF Cleared, CanFinish
    <2>3. rows'[r].pending
      BY <1>6, <1>t, <2>2, OutcomeChanges DEF ReportStartFailure
    <2> QED BY <1>2, <2>1, <2>3 DEF Cleared, Submitting, Exclusive, Kept
  <1> QED BY <1>3, <1>4, <1>5, <1>6 DEF SubmitterStep

LEMMA WorkerKeepsCleared ==
    ASSUME ExecInv, NEW r \in Runs, Sound(r), Cleared(r), WorkerStep(r)
    PROVE  Cleared(r)'
  <1>t. LedgerTypeOK /\ ProcessTypes /\ StoreType
    BY TypeParts DEF ExecInv
  <1>1. worker[r] # "none"
    BY DEF WorkerStep, WorkerReadsJob, WorkerTakesGuard, WorkerChecksLease,
           WorkerClaims, WorkerRefuses, WorkerCannotStart, WorkerStartsGuardian,
           WorkerBeats, WorkerAcknowledges, WorkerStops, WorkerCollects, WorkerCommits,
           WorkerLeaves, WorkerDies, WorkerMoves, Supervising
  <1>2. submitter[r] = "ended"
    BY <1>1 DEF Sound, Order
  <1>3. submitter' = submitter /\ finalizer' = finalizer
    BY DEF WorkerStep, WorkerReadsJob, WorkerTakesGuard, WorkerChecksLease,
           WorkerClaims, WorkerRefuses, WorkerCannotStart, WorkerStartsGuardian,
           WorkerBeats, WorkerAcknowledges, WorkerStops, WorkerCollects, WorkerCommits,
           WorkerLeaves, WorkerDies
  <1>4. /\ store'[r].private = store[r].private /\ store'[r].raw = store[r].raw
        /\ store'[r].result = store[r].result
    BY <1>t
    DEF WorkerStep, WorkerReadsJob, WorkerTakesGuard, WorkerChecksLease,
        WorkerClaims, WorkerRefuses, WorkerCannotStart, WorkerStartsGuardian,
        WorkerBeats, WorkerAcknowledges, WorkerStops, WorkerCollects, WorkerCommits,
        WorkerLeaves, WorkerDies, StoreType, StoreOfRun
  <1>5. Outcome(r)' = Outcome(r) \/ rows'[r].pending
    BY <1>t, OutcomeChanges
    DEF WorkerStep, WorkerReadsJob, WorkerTakesGuard, WorkerChecksLease,
        WorkerClaims, WorkerRefuses, WorkerCannotStart, WorkerStartsGuardian,
        WorkerBeats, WorkerAcknowledges, WorkerStops, WorkerCollects, WorkerCommits,
        WorkerLeaves, WorkerDies
  <1> QED BY <1>2, <1>3, <1>4, <1>5, ClearedStays

LEMMA GuardianKeepsCleared ==
    ASSUME ExecInv, NEW r \in Runs, Sound(r), Cleared(r), GuardianStep(r)
    PROVE  Cleared(r)'
  <1>t. LedgerTypeOK /\ StoreType
    BY TypeParts DEF ExecInv
  <1>1. guardian[r] # "none"
    BY DEF Sound, Order, GuardianStep, GuardianLaunches, GuardianOpensGate,
           WorkflowExits, GuardianEnds, GuardianKilled
  <1>2. submitter[r] = "ended"
    BY <1>1 DEF Sound, Order, Unlaunched
  <1>3. UNCHANGED <<tables, submitter, finalizer>>
    BY DEF GuardianStep, GuardianLaunches, GuardianOpensGate, WorkflowExits,
           GuardianEnds, GuardianKilled
  <1>4. \/ /\ store'[r].private = store[r].private /\ store'[r].raw = store[r].raw
           /\ store'[r].result = store[r].result
        \/ finalizer[r].pc = "idle" /\ ~Kept(r)
    <2>1. CASE WorkflowExits(r)
      <3>1. Shared(r) /\ Bound(r)
        BY <2>1 DEF WorkflowExits, Shared, Bound
      <3>2. finalizer[r].pc = "idle"
        BY <3>1 DEF ExecInv, LockExcludes, Exclusive
      <3>3. Exists(r) /\ ~Settled(r)
        BY <3>1 DEF ExecInv, BoundRunsAreUnsettled
      <3>4. ~Kept(r)
        BY <1>t, <3>3 DEF Kept, Exists, Settled, Terminal, Running, LedgerTypeOK, Row
      <3> QED BY <3>2, <3>4
    <2> QED BY <2>1 DEF GuardianStep, GuardianLaunches, GuardianOpensGate,
                        GuardianEnds, GuardianKilled
  <1> QED BY <1>2, <1>3, <1>4, ClearedStays DEF tables, Outcome

LEMMA RecoveryKeepsCleared ==
    ASSUME ExecInv, NEW r \in Runs, Cleared(r), RecoveryStep(r),
           submitter'[r] \in Submitting => LeaseGood(r)'
    PROVE  Cleared(r)'
  <1>t. LedgerTypeOK /\ ProcessTypes /\ StoreType /\ FinalizerType
    BY TypeParts DEF ExecInv
  <1>p. submitter' = submitter
    BY DEF RecoveryStep, Observe, RequestCancel, Finalize, SaveResult, ScrubInputs,
           StorageFails, FinishFinalization, Reconcile, CleanupFiles, CleanupRow,
           FinalizerDies, processVars
  <1>a. submitter[r] # "ended" =>
            /\ finalizer[r].pc = "idle" /\ ~Settled(r) /\ ~Expired(r)
            /\ Exists(r) => submitter[r] \in Submitting /\ Running(r)
    BY CallerIsAlone
  <1>f. finalizer[r].pc \in {"saving", "scrubbing", "settling"} =>
            /\ rows[r].pending /\ Terminal(r) /\ submitter[r] = "ended"
            /\ finalizer[r].seen.verdict = rows[r].verdict
    <2> SUFFICES ASSUME finalizer[r].pc \in {"saving", "scrubbing", "settling"}
                 PROVE  /\ rows[r].pending /\ Terminal(r) /\ submitter[r] = "ended"
                        /\ finalizer[r].seen.verdict = rows[r].verdict
      OBVIOUS
    <2>1. rows[r].pending /\ Terminal(r) /\ finalizer[r].seen = ResultOf(r)
      BY DEF ExecInv, FinalizerSees
    <2>2. submitter[r] = "ended"
      BY <1>a
    <2> QED BY <2>1, <2>2 DEF ResultOf
  <1>1. CASE Observe(r)
    <2>1. submitter[r] = "ended"
      BY <1>1, <1>a DEF Observe
    <2>2. Outcome(r)' = Outcome(r) \/ rows'[r].pending
      BY <1>1, <1>t, OutcomeChanges DEF Observe
    <2>3. UNCHANGED <<store, finalizer>>
      BY <1>1 DEF Observe
    <2> QED BY <1>p, <2>1, <2>2, <2>3, ClearedStays
  <1>2. CASE RequestCancel(r)
    <2>1. /\ store'[r].private = store[r].private /\ store'[r].raw = store[r].raw
          /\ store'[r].result = store[r].result
          /\ UNCHANGED <<tables, finalizer>>
      BY <1>2, <1>t DEF RequestCancel, StoreType, StoreOfRun
    <2> QED
      BY <1>p, <2>1 DEF Cleared, Tidy, Kept, Running, LeaseGood, Exclusive, tables
  <1>3. CASE Finalize(r)
    <2>1. submitter[r] = "ended"
      <3> SUFFICES ASSUME submitter[r] # "ended" PROVE FALSE
        OBVIOUS
      <3>1. Running(r) /\ ~Expired(r)
        BY <1>3, <1>a DEF Finalize, Get
      <3>2. Terminal(r)' /\ rows' = rows
        BY <1>3, <3>1 DEF Finalize, Get
      <3> QED BY <3>1, <3>2 DEF Running, Terminal, Decided
    <2>2. finalizer'[r].pc = "saving" /\ rows'[r].pending
      BY <1>3, <1>t DEF Finalize, FinalizerType
    <2> QED BY <1>p, <2>1, <2>2 DEF Cleared, Kept, Submitting
  <1>4. CASE SaveResult(r)
    <2>1. /\ finalizer[r].pc = "saving" /\ finalizer'[r].pc = "scrubbing"
          /\ finalizer'[r].seen = finalizer[r].seen
          /\ store'[r].result = finalizer[r].seen.verdict /\ UNCHANGED tables
      BY <1>4, <1>t
      DEF SaveResult, FinalizerMoves, StoreType, StoreOfRun, FinalizerType, FinalizerOfRun
    <2> QED BY <1>p, <1>f, <2>1 DEF Cleared, Kept, Submitting, tables
  <1>5. CASE ScrubInputs(r)
    <2>1. /\ finalizer[r].pc = "scrubbing" /\ finalizer'[r].pc = "settling"
          /\ finalizer'[r].seen = finalizer[r].seen
          /\ finalizer'[r].clean = finalizer[r].clean
          /\ store'[r].result = store[r].result /\ Tidy(r)' /\ UNCHANGED tables
      BY <1>5, <1>t
      DEF ScrubInputs, FinalizerMoves, StoreType, StoreOfRun, FinalizerType,
          FinalizerOfRun, Tidy
    <2> QED BY <1>p, <1>f, <2>1 DEF Cleared, Kept, Submitting, tables
  <1>6. CASE StorageFails(r)
    <2>1. finalizer[r].pc \in {"saving", "scrubbing"} /\ UNCHANGED tables
      BY <1>6 DEF StorageFails
    <2>2. finalizer'[r].pc \in {"scrubbing", "settling"} /\ ~finalizer'[r].clean
      BY <1>6, <1>t DEF StorageFails, FinalizerType, FinalizerOfRun
    <2> QED BY <1>p, <1>f, <2>1, <2>2 DEF Cleared, Kept, Submitting, tables
  <1>7. CASE FinishFinalization(r)
    <2>1. finalizer[r].pc = "settling" /\ finalizer'[r].pc = "idle" /\ store' = store
      BY <1>7, <1>t DEF FinishFinalization, FinalizerType, Idle
    <2>2. CASE finalizer[r].clean
      <3>1. rows'[r].verdict = rows[r].verdict
        BY <1>7, <1>t, <2>2, OutcomeChanges DEF FinishFinalization
      <3>2. Tidy(r)' /\ store'[r].result = rows'[r].verdict
        BY <1>f, <2>1, <2>2, <3>1 DEF Cleared, Tidy
      <3> QED BY <1>f, <1>p, <2>1, <3>2 DEF Cleared, Submitting, Exclusive
    <2>3. CASE ~finalizer[r].clean
      <3>1. rows' = rows
        BY <1>7, <2>3 DEF FinishFinalization, tables
      <3> QED BY <1>f, <1>p, <2>1, <3>1 DEF Cleared, Kept, Submitting, Exclusive
    <2> QED BY <2>2, <2>3
  <1>8. CASE Reconcile(r)
    <2>1. UNCHANGED <<rows, asked, store, finalizer>>
      BY <1>8 DEF Reconcile, Release
    <2> QED BY <1>p, <2>1 DEF Cleared, Tidy, Kept, Running, LeaseGood, Exclusive
  <1>9. CASE CleanupFiles(r)
    <2>1. submitter[r] = "ended" /\ UNCHANGED tables
      BY <1>9, <1>a DEF CleanupFiles, Deletable
    <2>2. finalizer'[r].pc = "deleting" /\ Tidy(r)' /\ store'[r].result = None
      BY <1>9, <1>t
      DEF CleanupFiles, StoreType, EmptyStore, FinalizerType, FinalizerOfRun, Tidy
    <2> QED BY <1>p, <2>1, <2>2 DEF Cleared, Submitting
  <1>10. CASE CleanupRow(r)
    <2>1. /\ finalizer[r].pc = "deleting" /\ finalizer'[r].pc = "idle" /\ store' = store
      BY <1>10, <1>t DEF CleanupRow, FinalizerMoves, FinalizerType, FinalizerOfRun
    <2>2. submitter[r] = "ended"
      BY <1>a, <2>1
    <2> QED BY <1>p, <2>1, <2>2 DEF Cleared, Tidy, Submitting, Exclusive
  <1>11. CASE FinalizerDies(r)
    <2>1. finalizer'[r].pc = "idle" /\ UNCHANGED <<tables, store>>
      BY <1>11, <1>t DEF FinalizerDies, FinalizerType, Idle
    <2> QED
      BY <1>p, <2>1 DEF Cleared, Tidy, Kept, Running, LeaseGood, Exclusive, tables
  <1> QED BY <1>1, <1>2, <1>3, <1>4, <1>5, <1>6, <1>7, <1>8, <1>9, <1>10, <1>11
          DEF RecoveryStep

LEMMA ClearedStepInv ==
    ASSUME ExecInv, ResultInv, ClearedInv, [SubmissionNext]_submissionVars
    PROVE  ClearedInv'
  <1> SUFFICES ASSUME NEW q \in Runs \ late' PROVE Cleared(q)'
    BY DEF ClearedInv
  <1>1. CASE UNCHANGED submissionVars
    BY <1>1 DEF submissionVars, execVars, tables, processVars, ClearedInv, Cleared,
                Tidy, Kept, Running, LeaseGood, Exclusive
  <1>2. CASE SubmissionNext
    <2>1. q \notin late /\ (submitter'[q] \in Submitting => LeaseGood(q)')
      BY <1>2 DEF SubmissionNext
    <2>2. Cleared(q) /\ Sound(q)
      BY <2>1 DEF ClearedInv, ResultInv
    <2>3. CASE Time
      <3>t. LedgerTypeOK
        BY TypeParts DEF ExecInv
      <3>1. UNCHANGED <<asked, submitter, store, finalizer>> /\ Tick
        BY <2>3 DEF Time, Tick, processVars
      <3>2. rows'[q].verdict = rows[q].verdict /\ rows'[q].owner = rows[q].owner
            /\ rows'[q].pending = rows[q].pending
        BY <3>t, <3>1 DEF Tick, LedgerTypeOK, Row
      <3> QED
        BY <2>1, <2>2, <3>1, <3>2 DEF Cleared, Tidy, Kept, Running, Exclusive
    <2>4. ASSUME NEW r \in Runs,
                 SubmitterStep(r) \/ WorkerStep(r) \/ GuardianStep(r) \/ RecoveryStep(r)
          PROVE  Cleared(q)'
      <3>1. CASE r = q
        BY <2>1, <2>2, <2>4, <3>1, SubmitterKeepsCleared, WorkerKeepsCleared,
           GuardianKeepsCleared, RecoveryKeepsCleared
      <3>2. CASE r # q
        <4>1. SameOf(q)
          BY <2>4, <3>2, OthersStay
        <4> QED
          BY <2>2, <4>1 DEF SameOf, Cleared, Tidy, Kept, Running, LeaseGood, Exclusive
      <3> QED BY <3>1, <3>2
    <2> QED BY <1>2, <2>3, <2>4 DEF SubmissionNext, ExecNext
  <1> QED BY <1>1, <1>2

(* A settled run keeps no submitted input and no raw evidence, and its     *)
(* result.json says what the ledger says, however its processes died and   *)
(* its finalization was repeated, as long as its caller was never late.    *)
THEOREM SettledClean == SubmissionSpec => []SettledRunsAreClean
  <1>1. ExecInit => ClearedInv
    BY DEF ExecInit, LedgerInit, NoRow, ClearedInv, Cleared, Submitting, Exclusive, Idle
  <1>2. ExecInv /\ ResultInv /\ [SubmissionNext]_submissionVars =>
            ExecInv' /\ ResultInv'
    BY ExecStepInv, ResultStepInv DEF SubmissionNext, submissionVars
  <1>3. ExecInv /\ ResultInv /\ ClearedInv /\ [SubmissionNext]_submissionVars => ClearedInv'
    BY ClearedStepInv
  <1>4. ClearedInv => SettledRunsAreClean
    BY DEF ClearedInv, Cleared, Kept, Tidy, SettledRunsAreClean
  <1> QED
    BY <1>1, <1>2, <1>3, <1>4, ExecInitInv, ResultInitInv, PTL DEF SubmissionSpec
=============================================================================
