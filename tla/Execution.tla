------------------------------ MODULE Execution ------------------------------
(***************************************************************************)
(* One data directory and the processes that share it: callers that submit *)
(* runs (ExecutionService.run), one detached worker per launched run       *)
(* (worker.py, Supervisor), its guardian and workflow process, and any     *)
(* number of processes that poll, recover, reconcile and clean up          *)
(* (ExecutionService, RecoveryService).  They interact through the ledger  *)
(* (RunLedger), the artifact directory of a run (FileArtifacts) and the    *)
(* run's activity lock (FileRunGuard).  Any process may be suspended for   *)
(* any time between two of its steps, and workers, guardians and           *)
(* finalizers may die.                                                     *)
(***************************************************************************)
EXTENDS Naturals, FiniteSets

CONSTANTS
    Runs, Keys, None, Lease, Horizon, BusyWait,     \* as in RunLedger
    KeyOf,              \* the lock key each run asks for, or None
    Effectful,          \* the runs whose manifest declares effects
    Reports,            \* effects a workflow's evidence may report
    Retention           \* age at which cleanup removes a settled run

VARIABLES
    rows, locks, asked, \* the ledger
    submitter,          \* where run() stands for each run
    worker,             \* where the worker of each run stands
    draft,              \* what the worker is about to commit
    guardian,           \* the watchdog process of each run
    flow,               \* the workflow process of each run
    store,              \* the artifact directory of each run
    finalizer           \* the process holding the run's lock exclusively

INSTANCE RunLedger WITH Owners <- Runs, Requests <- {}
INSTANCE Supervision WITH Launches <- Runs

ASSUME ExecutionAssumption ==
    /\ Lease \in Nat /\ Horizon \in Nat /\ Lease < Horizon
    /\ BusyWait \in Nat /\ Retention \in Nat
    /\ None \notin Runs /\ None \notin Keys /\ "fresh" \notin Keys \cup {None}
    /\ KeyOf \in [Runs -> Keys \cup {None}]
    /\ Effectful \subseteq Runs
    /\ Reports \subseteq Effects

tables == <<rows, locks, asked>>
processVars == <<submitter, worker, draft, guardian, flow>>
execVars == <<tables, processVars, store, finalizer>>

Declared(r) == IF r \in Effectful THEN "unknown" ELSE "none"

(* A terminal result, as far as the properties tell results apart.         *)
Result == [verdict: Decided, effects: Effects]
NoResult == [verdict |-> "failed", effects |-> "none"]
ResultOf(r) == [verdict |-> rows[r].verdict, effects |-> rows[r].effects]

(* runs/<run_id>: job.json and inputs.json, raw-result.json, result.json,  *)
(* evidence.json and the cancel marker.                                    *)
EmptyStore == [dir |-> FALSE, private |-> {}, raw |-> None,
               result |-> None, evidence |-> None, cancel |-> FALSE]
Idle == [pc |-> "idle", clean |-> TRUE, seen |-> NoResult]

Submitting == {"created", "job", "inputs", "prepared", "failing"}
Guarding == {"guarded", "checked", "claimed", "waiting", "watching", "done",
             "committed"}
Supervising == {"waiting", "watching"}

ExecTypeOK ==
    /\ LedgerTypeOK
    /\ submitter \in [Runs -> Submitting \cup {"idle", "ended"}]
    /\ worker \in [Runs -> Guarding \cup {"none", "born", "ready", "gone"}]
    /\ draft \in [Runs -> Result]
    /\ SupervisionTypeOK
    /\ store \in [Runs -> [dir: BOOLEAN, private: SUBSET {"job", "inputs"},
                           raw: Reports \cup {"invalid", None},
                           result: Decided \cup {"running", None},
                           evidence: Reports \cup {None}, cancel: BOOLEAN]]
    /\ finalizer \in [Runs -> [pc: {"idle", "saving", "scrubbing", "settling",
                                    "deleting"},
                               clean: BOOLEAN, seen: Result]]

ExecInit ==
    /\ LedgerInit
    /\ submitter = [r \in Runs |-> "idle"]
    /\ worker = [r \in Runs |-> "none"]
    /\ draft = [r \in Runs |-> NoResult]
    /\ guardian = [r \in Runs |-> "none"]
    /\ flow = [r \in Runs |-> "none"]
    /\ store = [r \in Runs |-> EmptyStore]
    /\ finalizer = [r \in Runs |-> Idle]

-----------------------------------------------------------------------------
(* The activity lock: shared by the worker from before its claim until     *)
(* after its commit, and through an inherited descriptor by the guardian   *)
(* and the primary workflow process for as long as each lives.             *)
\* Mutation: the workflow process does not inherit the descriptor.
SharedWithoutFlow(r) == worker[r] \in Guarding \/ guardian[r] = "up"
Shared(r) ==
    \/ worker[r] \in Guarding
    \/ guardian[r] = "up"
    \/ flow[r] \in {"gated", "signed", "live"}
Exclusive(r) == finalizer[r].pc # "idle"
GuardIdle(r) == ~Shared(r) /\ ~Exclusive(r)

-----------------------------------------------------------------------------
(* The caller in ExecutionService.run, from create to launcher.start.      *)
(* What follows the launch (set_pid, observe, wait) touches neither lock   *)
(* nor files and is covered by Observe.                                    *)
Submit(r) ==
    /\ submitter[r] = "idle"
    /\ Create(r, KeyOf[r], None, Declared(r))
    /\ submitter' = [submitter EXCEPT ![r] = "created"]
    /\ UNCHANGED <<worker, draft, guardian, flow, store, finalizer>>

(* FileArtifacts.prepare, one atomic file after the other; only the first  *)
(* step makes the directory, the later ones fail without it.               *)
PrepareWrite(r) ==
    /\ \/ /\ submitter[r] = "created"
          /\ submitter' = [submitter EXCEPT ![r] = "job"]
          /\ store' = [store EXCEPT ![r].dir = TRUE,
                                    ![r].private = @ \cup {"job"}]
       \/ /\ submitter[r] = "job" /\ store[r].dir
          /\ submitter' = [submitter EXCEPT ![r] = "inputs"]
          /\ store' = [store EXCEPT ![r].private = @ \cup {"inputs"}]
       \/ /\ submitter[r] = "inputs" /\ store[r].dir
          /\ submitter' = [submitter EXCEPT ![r] = "prepared"]
          /\ store' = [store EXCEPT ![r].result = "running"]
    /\ UNCHANGED <<tables, worker, draft, guardian, flow, finalizer>>

Launch(r) ==
    /\ submitter[r] = "prepared" /\ store[r].dir
    /\ submitter' = [submitter EXCEPT ![r] = "ended"]
    /\ worker' = [worker EXCEPT ![r] = "born"]
    /\ UNCHANGED <<tables, draft, guardian, flow, store, finalizer>>

(* prepare or start raised.                                                *)
SubmissionFails(r) ==
    /\ submitter[r] \in Submitting \ {"failing"}
    /\ submitter' = [submitter EXCEPT ![r] = "failing"]
    /\ UNCHANGED <<tables, worker, draft, guardian, flow, store, finalizer>>

(* START_FAILED with no owner and no effects; a refused finish ends the    *)
(* caller with LEASE_LOST.  The finalize after a commit is Finalize.       *)
ReportStartFailure(r) ==
    /\ submitter[r] = "failing"
    /\ IF CanFinish(r, None)
       THEN Finish(r, None, "unstarted", "none")
       ELSE UNCHANGED tables
    /\ submitter' = [submitter EXCEPT ![r] = "ended"]
    /\ UNCHANGED <<worker, draft, guardian, flow, store, finalizer>>

-----------------------------------------------------------------------------
(* The worker: worker.main, Supervisor.execute and _execute.               *)
WorkerMoves(r, from, to) ==
    /\ worker[r] = from
    /\ worker' = [worker EXCEPT ![r] = to]

WorkerReadsJob(r) ==
    /\ WorkerMoves(r, "born", IF "job" \in store[r].private THEN "ready" ELSE "gone")
    /\ UNCHANGED <<tables, submitter, draft, guardian, flow, store, finalizer>>

(* guard.hold: waits for an exclusive holder to leave.                     *)
WorkerTakesGuard(r) ==
    /\ ~Exclusive(r)
    /\ WorkerMoves(r, "ready", "guarded")
    /\ UNCHANGED <<tables, submitter, draft, guardian, flow, store, finalizer>>

(* claim, first transaction: RUN_NOT_FOUND ends the worker.                *)
WorkerChecksLease(r) ==
    /\ IF Exists(r)
       THEN WorkerMoves(r, "guarded", "checked") /\ Get(r)
       ELSE WorkerMoves(r, "guarded", "gone") /\ UNCHANGED tables
    /\ UNCHANGED <<submitter, draft, guardian, flow, store, finalizer>>

(* claim, second transaction: LEASE_LOST ends the worker.                  *)
WorkerClaims(r) ==
    /\ IF CanClaim(r)
       THEN WorkerMoves(r, "checked", "claimed") /\ Claim(r, r)
       ELSE WorkerMoves(r, "checked", "gone") /\ UNCHANGED tables
    /\ UNCHANGED <<submitter, draft, guardian, flow, store, finalizer>>

Drafts(r, verdict, effects) ==
    draft' = [draft EXCEPT ![r] = [verdict |-> verdict, effects |-> effects]]

(* The policy, repeated with the grants of this moment, refuses, or the    *)
(* preparations fail: nothing was launched, so no effects are reported.    *)
WorkerRefuses(r) ==
    /\ WorkerMoves(r, "claimed", "done")
    /\ Drafts(r, "failed", "none")
    /\ UNCHANGED <<tables, submitter, guardian, flow, store, finalizer>>

(* "launched" is set before process.execute, whose first act is to look    *)
(* for a cancellation and whose second is to start the guardian.           *)
WorkerCannotStart(r) ==
    /\ WorkerMoves(r, "claimed", "done")
    /\ Drafts(r, IF store[r].cancel THEN "cancelled" ELSE "failed", Declared(r))
    /\ UNCHANGED <<tables, submitter, guardian, flow, store, finalizer>>

WorkerStartsGuardian(r) ==
    /\ ~store[r].cancel
    /\ WorkerMoves(r, "claimed", "waiting")
    /\ Begins(r)
    /\ UNCHANGED <<tables, submitter, draft, store, finalizer>>

(* The capture loop.  Its first round beats before it can read the         *)
(* process identity, so "waiting" acknowledges nothing.                    *)
WorkerBeats(r) ==
    /\ worker[r] \in Supervising
    /\ worker' = [worker EXCEPT ![r] = "watching"]
    /\ \E wait \in 0..BusyWait : Heartbeat(r, r, wait)
    /\ UNCHANGED <<submitter, draft, guardian, flow, store, finalizer>>

WorkerAcknowledges(r) ==
    /\ worker[r] = "watching"
    /\ Acknowledges(r)
    /\ UNCHANGED <<tables, submitter, worker, draft, store, finalizer>>

(* The loop is left with an error: a cancellation, the deadline, a refused *)
(* heartbeat, too much output, the guardian's own verdict or its death.    *)
(* A guardian still up is asked to stop and at most waited for; the group  *)
(* of a dead one is stopped if its identity had been read.                 *)
\* Mutation: effects are only declared for a workflow that reported some.
WorkerStopsOptimistic(r) ==
    /\ worker[r] \in Supervising
    /\ worker' = [worker EXCEPT ![r] = "done"]
    /\ Drafts(r, "failed", "none")
    /\ StopsOrphan(r)
    /\ UNCHANGED <<tables, submitter, store, finalizer>>
WorkerStops(r) ==
    /\ worker[r] \in Supervising
    /\ worker' = [worker EXCEPT ![r] = "done"]
    /\ \E verdict \in {"failed", "cancelled"} :
        /\ verdict = "cancelled" => store[r].cancel \/ guardian[r] = "stopped"
        /\ Drafts(r, verdict, Declared(r))
    /\ StopsOrphan(r)
    /\ UNCHANGED <<tables, submitter, store, finalizer>>

(* The workflow exited by itself: its evidence is verified and kept, or    *)
(* refused.                                                                *)
\* Mutation: the verified evidence is not saved.
WorkerCollectsUnsaved(r) ==
    /\ guardian[r] = "exited"
    /\ WorkerMoves(r, "watching", "done")
    /\ IF store[r].raw \in Reports
       THEN Drafts(r, "completed", store[r].raw)
       ELSE Drafts(r, "failed", Declared(r))
    /\ UNCHANGED <<tables, submitter, guardian, flow, store, finalizer>>
WorkerCollects(r) ==
    /\ guardian[r] = "exited"
    /\ WorkerMoves(r, "watching", "done")
    /\ IF store[r].raw \in Reports
       THEN /\ store' = [store EXCEPT ![r].evidence = store[r].raw]
            /\ Drafts(r, "completed", store[r].raw)
       ELSE /\ Drafts(r, "failed", Declared(r))
            /\ UNCHANGED store
    /\ UNCHANGED <<tables, submitter, guardian, flow, finalizer>>

WorkerCommits(r) ==
    /\ IF CanFinish(r, r)
       THEN /\ WorkerMoves(r, "done", "committed")
            /\ Finish(r, r, draft[r].verdict, draft[r].effects)
       ELSE WorkerMoves(r, "done", "gone") /\ UNCHANGED tables
    /\ draft' = [draft EXCEPT ![r] = NoResult]
    /\ UNCHANGED <<submitter, guardian, flow, store, finalizer>>

(* Leaving the guard; the finalize that follows is Finalize.               *)
WorkerLeaves(r) ==
    /\ WorkerMoves(r, "committed", "gone")
    /\ UNCHANGED <<tables, submitter, draft, guardian, flow, store, finalizer>>

WorkerDies(r) ==
    /\ worker[r] \notin {"none", "gone"}
    /\ worker' = [worker EXCEPT ![r] = "gone"]
    /\ draft' = [draft EXCEPT ![r] = NoResult]
    /\ UNCHANGED <<tables, submitter, guardian, flow, store, finalizer>>

-----------------------------------------------------------------------------
(* The guardian and the workflow (Supervision).  A guardian that finds its *)
(* worker gone before the launch starts nothing; one whose worker is       *)
(* leaving may still start a process behind the gate.                      *)
GuardianLaunches(r) ==
    /\ worker[r] \in Supervising \cup {"done"}
    /\ Forks(r)
    /\ UNCHANGED <<tables, submitter, worker, draft, store, finalizer>>

GuardianOpensGate(r) ==
    /\ OpensGate(r)
    /\ UNCHANGED <<tables, submitter, worker, draft, store, finalizer>>

WorkflowExits(r) ==
    /\ Exits(r)
    /\ \E raw \in Reports \cup {"invalid"} : store' = [store EXCEPT ![r].raw = raw]
    /\ UNCHANGED <<tables, submitter, worker, draft, finalizer>>

GuardianEnds(r) ==
    /\ Leaves(r)
    /\ UNCHANGED <<tables, submitter, worker, draft, store, finalizer>>

GuardianKilled(r) ==
    /\ Dies(r)
    /\ UNCHANGED <<tables, submitter, worker, draft, store, finalizer>>

-----------------------------------------------------------------------------
(* Any process reading a run: wait, inspect, cancel and recover all start  *)
(* with a get, which matters here only when it expires the lease.          *)
Observe(r) ==
    /\ Expired(r)
    /\ Get(r)
    /\ UNCHANGED <<processVars, store, finalizer>>

RequestCancel(r) ==
    /\ Running(r) /\ LeaseGood(r)
    /\ store[r].dir
    /\ store' = [store EXCEPT ![r].cancel = TRUE]
    /\ UNCHANGED <<tables, processVars, finalizer>>

(* RecoveryService.finalize, run by the worker after its commit, by a      *)
(* caller whose launch failed, by every wait that finds a terminal run, by *)
(* recover and by reconcile.  A process that does not get the lock, or     *)
(* finds the run running or settled, leaves at once and changes nothing.   *)
\* Mutation: the activity lock is not taken.
FinalizeUnguarded(r) ==
    /\ ~Exclusive(r)
    /\ Get(r)
    /\ Terminal(r)' /\ rows'[r].pending
    /\ finalizer' = [finalizer EXCEPT ![r] =
                        [pc |-> "saving", clean |-> TRUE, seen |-> ResultOf(r)']]
    /\ UNCHANGED <<processVars, store>>
Finalize(r) ==
    /\ GuardIdle(r)
    /\ Get(r)
    /\ Terminal(r)' /\ rows'[r].pending
    /\ finalizer' = [finalizer EXCEPT ![r] =
                        [pc |-> "saving", clean |-> TRUE, seen |-> ResultOf(r)']]
    /\ UNCHANGED <<processVars, store>>

FinalizerMoves(r, from, to) ==
    /\ finalizer[r].pc = from
    /\ finalizer' = [finalizer EXCEPT ![r].pc = to]

SaveResult(r) ==
    /\ FinalizerMoves(r, "saving", "scrubbing")
    /\ store' = [store EXCEPT ![r].dir = TRUE,
                              ![r].result = finalizer[r].seen.verdict]
    /\ UNCHANGED <<tables, processVars>>

ScrubInputs(r) ==
    /\ FinalizerMoves(r, "scrubbing", "settling")
    /\ store' = [store EXCEPT ![r].private = {}, ![r].raw = None]
    /\ UNCHANGED <<tables, processVars>>

(* One of the two fails, possibly half way; the other is still attempted.  *)
StorageFails(r) ==
    /\ \/ /\ finalizer[r].pc = "saving"
          /\ finalizer' = [finalizer EXCEPT ![r].pc = "scrubbing", ![r].clean = FALSE]
          /\ UNCHANGED store
       \/ /\ finalizer[r].pc = "scrubbing"
          /\ finalizer' = [finalizer EXCEPT ![r].pc = "settling", ![r].clean = FALSE]
          /\ \E kept \in SUBSET store[r].private, raw \in {store[r].raw, None} :
                store' = [store EXCEPT ![r].private = kept, ![r].raw = raw]
    /\ UNCHANGED <<tables, processVars>>

\* Mutation: the run is settled although a step failed.
FinishFinalizationAnyway(r) ==
    /\ finalizer[r].pc = "settling"
    /\ finalizer' = [finalizer EXCEPT ![r] = Idle]
    /\ Settle(r, ReleasesKey(finalizer[r].seen.effects))
    /\ UNCHANGED <<processVars, store>>
\* Mutation: settling always releases the key.
FinishFinalizationReleasing(r) ==
    /\ finalizer[r].pc = "settling"
    /\ finalizer' = [finalizer EXCEPT ![r] = Idle]
    /\ IF finalizer[r].clean THEN Settle(r, TRUE) ELSE UNCHANGED tables
    /\ UNCHANGED <<processVars, store>>
FinishFinalization(r) ==
    /\ finalizer[r].pc = "settling"
    /\ finalizer' = [finalizer EXCEPT ![r] = Idle]
    /\ IF finalizer[r].clean
       THEN Settle(r, ReleasesKey(finalizer[r].seen.effects))
       ELSE UNCHANGED tables
    /\ UNCHANGED <<processVars, store>>

(* The second half of reconcile, once a finalize has left nothing pending. *)
Reconcile(r) ==
    /\ GuardIdle(r)
    /\ HoldsAny(r)
    /\ Release(r)
    /\ UNCHANGED <<processVars, store, finalizer>>

(* cleanup: the files first, then the row.                                 *)
CleanupFiles(r) ==
    /\ GuardIdle(r)
    /\ Deletable(r) /\ rows[r].age > Retention
    /\ store' = [store EXCEPT ![r] = EmptyStore]
    /\ finalizer' = [finalizer EXCEPT ![r].pc = "deleting"]
    /\ UNCHANGED <<tables, processVars>>

CleanupRow(r) ==
    /\ FinalizerMoves(r, "deleting", "idle")
    /\ Delete(r)
    /\ UNCHANGED <<processVars, store>>

FinalizerDies(r) ==
    /\ Exclusive(r)
    /\ finalizer' = [finalizer EXCEPT ![r] = Idle]
    /\ UNCHANGED <<tables, processVars, store>>

Time ==
    /\ Tick
    /\ UNCHANGED <<processVars, store, finalizer>>

-----------------------------------------------------------------------------
SubmitterStep(r) ==
    \/ Submit(r) \/ PrepareWrite(r) \/ Launch(r)
    \/ SubmissionFails(r) \/ ReportStartFailure(r)
WorkerStep(r) ==
    \/ WorkerReadsJob(r) \/ WorkerTakesGuard(r) \/ WorkerChecksLease(r)
    \/ WorkerClaims(r) \/ WorkerRefuses(r) \/ WorkerCannotStart(r)
    \/ WorkerStartsGuardian(r) \/ WorkerBeats(r) \/ WorkerAcknowledges(r)
    \/ WorkerStops(r) \/ WorkerCollects(r) \/ WorkerCommits(r)
    \/ WorkerLeaves(r) \/ WorkerDies(r)
GuardianStep(r) ==
    \/ GuardianLaunches(r) \/ GuardianOpensGate(r) \/ WorkflowExits(r)
    \/ GuardianEnds(r) \/ GuardianKilled(r)
RecoveryStep(r) ==
    \/ Observe(r) \/ RequestCancel(r) \/ Finalize(r) \/ SaveResult(r)
    \/ ScrubInputs(r) \/ StorageFails(r) \/ FinishFinalization(r)
    \/ Reconcile(r) \/ CleanupFiles(r) \/ CleanupRow(r) \/ FinalizerDies(r)

ExecNext ==
    \/ Time
    \/ \E r \in Runs : SubmitterStep(r) \/ WorkerStep(r) \/ GuardianStep(r)
                       \/ RecoveryStep(r)

ExecSpec == ExecInit /\ [][ExecNext]_execVars

(* What liveness assumes.  A worker that is not dead runs on (a suspended  *)
(* one is resumed or killed, as recovery.md asks), a guardian enforces its *)
(* own deadline, someone keeps reading and recovering runs, time passes,   *)
(* and storage failures and deaths of finalizers come to an end.  Nothing  *)
(* is assumed of the submitting caller or of the workflow's own exit.      *)
WorkerPasses(r) ==
    \/ WorkerReadsJob(r) \/ WorkerTakesGuard(r) \/ WorkerChecksLease(r)
    \/ WorkerClaims(r) \/ WorkerRefuses(r) \/ WorkerCannotStart(r)
    \/ WorkerStartsGuardian(r) \/ WorkerCommits(r) \/ WorkerLeaves(r)
WorkerReaps(r) == guardian[r] # "up" /\ (WorkerStops(r) \/ WorkerCollects(r))

ExecFairness ==
    /\ WF_execVars(Time)
    /\ \A r \in Runs :
        /\ WF_execVars(WorkerPasses(r))
        /\ WF_execVars(WorkerReaps(r))
        /\ WF_execVars(GuardianEnds(r))
        /\ WF_execVars(Observe(r))
        /\ WF_execVars(Finalize(r))
        /\ WF_execVars(SaveResult(r))
        /\ WF_execVars(ScrubInputs(r))
        /\ WF_execVars(FinishFinalization(r))
        /\ <>[][~StorageFails(r) /\ ~FinalizerDies(r)]_execVars

-----------------------------------------------------------------------------
Executing(r) == flow[r] = "live"

(* No two workflows that asked for the same resource ever execute at the   *)
(* same time, however workers are suspended, leases lost, guardians killed *)
(* and runs recovered, reconciled and removed (concurrency_input).         *)
OneExecutionPerResource ==
    \A r, q \in Runs : Executing(r) /\ Executing(q) /\ KeyOf[r] = KeyOf[q]
                       /\ KeyOf[r] # None => r = q

(* A run is settled, reconciled and removed only when none of its          *)
(* processes executes: a terminal row alone says nothing about processes   *)
(* (the activity lock in finalize, reconcile and cleanup).                 *)
ExecutingRunsAreUnsettled ==
    \A r \in Runs : Executing(r) => Exists(r) /\ ~Settled(r)

(* A run that did not complete reports "none" only if its workflow never   *)
(* executed or its manifest declares no effects (the "launched" flag of    *)
(* _execute, START_FAILED).                                                *)
NoEffectsMeansNotExecuted ==
    \A r \in Runs :
        /\ Terminal(r) /\ rows[r].verdict # "completed"
        /\ rows[r].effects = "none" /\ r \in Effectful
        => flow[r] \notin {"live", "over"}

(* A completed run has its evidence on disk, and that evidence reports the *)
(* effects of the ledger, until cleanup removes both.                      *)
CompletedRunsHaveEvidence ==
    \A r \in Runs : rows[r].verdict = "completed" /\ store[r].dir
                        => store[r].evidence = rows[r].effects

(* A key released under a run whose effects are partial or unknown was     *)
(* released by someone who reconciled a settled run: finalization alone,   *)
(* retried or repeated, never hands on an unverified resource.             *)
UnverifiedResourceIsKept ==
    [][\A k \in Keys, r \in Runs :
          Holds(r, k) /\ ~Holds(r, k)' /\ rows[r].effects \in {"partial", "unknown"}
              => Settled(r) /\ flow[r] # "live" /\ finalizer[r].pc = "idle"
      ]_execVars

(* A caller that could not launch leaves no submitted inputs behind once   *)
(* its run is settled (the comment on the start-failure path of run: "An   *)
(* artifact failure must not leave submitted inputs behind").              *)
FailedSubmissionsLeaveNoInputs ==
    \A r \in Runs :
        submitter[r] = "ended" /\ worker[r] = "none" /\ Settled(r)
            => store[r].private = {}

(* Every run that was created is eventually settled, whatever died or was  *)
(* suspended on the way.  The one exception security.md names: guardian    *)
(* and worker both lost, and the workflow process still running.           *)
Orphan(r) == guardian[r] = "killed" /\ worker[r] = "gone" /\ flow[r] = "live"
RunsAreEventuallySettled ==
    \A r \in Runs : Exists(r) ~> Settled(r) \/ ~Exists(r) \/ Orphan(r)

(* The invocation contract, as these processes keep it.                    *)
Phase(r) ==
    CASE asked[r] = "fresh" -> "fresh"
      [] asked[r] # "fresh" /\ Running(r) -> "open"
      [] asked[r] # "fresh" /\ Terminal(r) /\ rows[r].pending -> "decided"
      [] asked[r] # "fresh" /\ Settled(r) -> "settled"
      [] asked[r] # "fresh" /\ ~Exists(r) -> "forgotten"
Progress(r) ==
    CASE flow[r] \in {"none", "gated", "signed"} -> "ahead"
      [] flow[r] = "live" -> "on"
      [] flow[r] \in {"over", "barred"} -> "over"

Contract == INSTANCE RunContract WITH
    phase <- [r \in Runs |-> Phase(r)],
    resolved <- [r \in Runs |-> rows[r].effects \notin {"partial", "unknown"}],
    wants <- asked,
    holder <- locks,
    execution <- [r \in Runs |-> Progress(r)]

ImplementsContract == Contract!ContractSpec
=============================================================================
