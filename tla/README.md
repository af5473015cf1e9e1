# Owlmatic: specification and proofs

TLA+ models of Owlmatic: how runs are recorded, executed, supervised, recovered,
judged, reported and measured, and the two workflows that the repository ships;
the TLC configurations that check them on small instances; and TLAPS proofs of what
holds for every instance. `PROJECT.json` maps every definition to the lines it
translates. Paths below are relative to `src/owlmatic/`, those of the two labs to
`scenarios/`.

## 1. Inventory

### Components

| Component | State it keeps | Operations | Correct when |
|---|---|---|---|
| Run ledger (`infrastructure/run_repository.py`, tables of `sqlite.py`) | `runs` (record, heartbeat, owner, pending, request id), `locks` (key, run) | create, get (expires), claim, finish, heartbeat, settled, release_lock, pending, expired, delete, each one `BEGIN IMMEDIATE` transaction (claim: two) | decisions are final, owners fenced, keys kept until settled, a lock always has a row |
| Execution service (`execution_service.py`) | none of its own | run, wait, inspect, cancel, reconcile, cleanup | a failed launch reports no effects and leaves nothing behind; cleanup touches only idle, settled, unlocked runs |
| Worker and supervisor (`worker.py`, `supervisor.py`) | owner token, result under construction | hold guard, claim, check policy, execute, verify and save evidence, commit, finalize | effects are never understated; a fenced worker changes nothing |
| Recovery (`recovery_service.py`) | none | finalize, recover, reconcile | repeated or interrupted finalization converges; unverified resources are kept |
| Activity lock (`infrastructure/run_guard.py`) | one flock per run, shared by worker, guardian and workflow | shared_descriptor, hold, exclusive | nobody settles a run that executes |
| Artifacts (`infrastructure/files.py`) | `runs/<id>/`: job, inputs, raw and verified evidence, result, cancel marker | prepare, job, save_result, save_evidence, raw_evidence, request_cancel, scrub_inputs, remove | private inputs disappear with settlement, result repeats the ledger |
| Process supervision (`infrastructure/process.py`, `process_guardian.py`) | three pipes, signals, a process group, two deadlines | see section 3, `Guardian` | no unacknowledged execution, no execution that outlives everything that could stop it |
| Evidence and domain rules (`verification.py`, `domain.py`) | none (pure) | verify_evidence, consistent_state, finish | a pass is proved by its checks |
| Policy (`policy.py`) | none | check, environment_for | only granted references run |
| Catalogue, trust, settings (`catalog_service.py`, `FileSettings`, `SqliteWorkflows`) | `config.json`, `workflows` table | add, sync, trust, find | revision and workflows agree, grants are not lost |
| Bundles (`infrastructure/bundles.py`, `git.py`) | content-addressed snapshots | load, snapshot, verify | what runs is what was reviewed |
| Authoring (`authoring_service.py`, `infrastructure/authoring.py`) | drafts | create, validate, publish | only validated drafts are published |
| Export (`export_service.py`, `automatic_export.py`, `export_store.py`, `http_export.py`) | single-slot outbox, source id, sequence, configuration digest; a watcher process per run | configure, disable, status, preview, push, observe, watch | a snapshot is delivered until accepted or given up, sequences never repeat for different contents |
| Measurement (`measurement/`, `infrastructure/measurement/`) | tasks, run attribution, baselines, coverage, emissions, drafts | ingest, baseline, declare, capture, retain, assess, watch | no history and no run is counted twice, credit is earned, estimates rise only for cause |
| Statistics, dashboard | none (reads terminal runs) | report, generate | totals partition the runs |
| Redacted log (`infrastructure/logs.py`) | two pending buffers | write, close | no secret is written, whatever the chunks |
| Migration (`sqlite.py`) | schema version | upgrade from 0..3 | legacy active runs are closed and keep their locks |
| CLI, MCP server, bootstrap | none | parsing, wiring, transport | not modelled |
| Deploy-monitor lab (`deploy_monitor/`) | the deployment of a request key, the monitor's window and cursor, the services' clock | deploy, status, page; the monitor's loop | a pass is a whole window without errors, a failure has its cause |
| Task-replay lab (`task_replay/`) | the failed job, attempts and their scratch directories | load, describe, attempt, decide | a finding is backed by what the workers did |
| Benchmark, demonstrations, examples | measurements of the system | | not modelled |

### Interactions

A caller creates a row (and lock), writes the job, and starts a detached worker.
The worker takes the run's activity lock shared, claims the row, starts a
guardian, which starts the workflow behind a gate. All of them, and any number of
other callers that poll, cancel, recover, reconcile or clean up, meet only in
three places: the database (short transactions), the run's directory (atomic
file replacements) and the activity lock (which the guardian and the workflow
inherit as an open descriptor). Nobody sends messages except over the guardian's
three pipes. There is no daemon: expiry and recovery happen when someone reads.

Between the claim and the commit, the worker asks the policy once more, redacts what
the workflow prints, and judges the evidence it leaves; only the record that comes of
it reaches the ledger. Measurement reads session files that the hosts go on writing,
and runs from the ledger, and writes tables of its own: nothing else reads them.

### What is hard

* Every process can be suspended for longer than its lease between any two steps
  and go on afterwards; any process can be killed at any point.
* A terminal row does not mean that the run's processes stopped.
* claim is two transactions, finalization four steps, cleanup two, submission
  five; each can be cut short or overtaken.
* Guardian and worker watch each other, and either may die first.
* Sessions grow, are copied and are read in overlapping ranges while imports of them
  and retention go on; runs named in them end and are removed meanwhile.
* Secrets, evidence and grants meet at the boundaries of chunks, checks and moments.

The complete list, with the lines and the properties that watch them, is
"hazards" in `PROJECT.json`.

## 2. Modules

```
RunContract  (abstract)  <-- implemented by --  Execution -- INSTANCE --> RunLedger
   |                                               |                        |
   |                                           Submission                   |
   |                                               |                        |
RunContractProofs                ExecutionProofs, MCExecution     RunLedgerProofs, MCRunLedger
                                 MCSubmission

Supervision (a launch in outline)  <-- INSTANCE --  Execution
   ^
   +-- implemented by --  Guardian (one launch in detail)  --  GuardianProofs, MCGuardian

Export (outbox and watchers)     --  ExportProofs, MCExport
Catalog (table, settings, bundles)  --  CatalogProofs, MCCatalog

HostHistory (sessions)  <-- EXTENDS --  Measurement  -- INSTANCE -->  Estimation
                                            |
                               MeasurementProofs, MCMeasurement

RedactedLog <-- Policy <-------+
Evidence <-- DeployMonitor <---+-- Workflows  --  WorkflowsProofs, MCWorkflows
Evidence <-- TaskReplay <------+
```

Definitions whose comment begins with "Mutation" are plausible errors in the
definition after them. No specification uses them; the mutants of
`PROJECT.json` put each in its place to show that the properties notice.

## 3. What is modelled

### RunLedger

`rows` and `locks` are the two tables; `asked` is a history variable (the key each
run id was created with). One action per method of `SqliteRuns`; `claim` is
`Get` followed by `Claim`. A refused call rolls back, so it is a disabled action.

*Time.* Each row has an age, the ticks since its stored heartbeat, saturated at
`Horizon > Lease`. `Tick` ages every row. A heartbeat may store a time up to
`BusyWait` ticks old, because the code reads the clock before it waits for the
write lock. Nothing forces a tick to wait for a process: a suspended worker is one
that takes no step while ticks pass.

*Verdict.* state, error code and origin of a result are one value:
running, completed, cancelled, failed, unstarted (START_FAILED, by the caller),
lost (WORKER_LOST, by a reader).

*Request ids* are remembered by the row (the UNIQUE column), so they are free
again when cleanup deletes it. The fingerprint only chooses between two refusals
and is left out.

### Execution

The ledger (INSTANCE, a worker's owner token being its run) plus, per run:
`submitter` (create, the three files of prepare, launch, or failure and its
report), `worker` (from reading the job to leaving the guard) with its `draft`
result, `guardian` and `flow` (those of Supervision), `store` (the directory) and `finalizer`
(whoever holds the activity lock exclusively: finalization in its three steps, or
cleanup in its two). At most one process can hold that lock, so one variable per
run stands for any number of recovering processes; those that do not get the lock
or find nothing to do leave without effect.

* The shared side of the activity lock is not a variable: it is held exactly
  while worker, guardian or workflow process live in the right states (`Shared`).
* `Observe` is the only effect of reading a run (wait, inspect, cancel, recover,
  the export watcher): it can expire its lease.
* `WorkerBeats` comes before the first acknowledgement, as in the capture loop.
* `WorkerStops` covers every way the loop ends with an error; it can leave the
  guardian, and so the workflow, running, because the worker waits 3 s at most.
* `StorageFails` is a failed save or a scrub that stopped half way; the other of
  the two is still attempted, and the run stays pending.
* A cleanup that works from a list older than another cleanup's deletion finds
  nothing left to remove and is not modelled. `set_pid`, the completion observer
  and the log are left out: nothing reads the first, the others are other parts.

### Supervision

The outline of a launch: a guardian that is up, left or was killed, and a workflow process that
is behind its gate, acknowledged, let through, over or barred. Execution takes its steps as
conjuncts of its own actions and changes `guardian` and `flow` by no others; it adds when
its worker or its guardian takes them, and what they do to the directory.

### Submission

Execution with one history variable: `late` collects the runs whose caller was still
submitting when their lease ran out. What holds of all other runs is `SettledRunsAreClean`;
of these it may not (finding 1).

### Guardian

One launch in detail: `_capture` and the finally block of `execute` in the worker,
`supervise` and `terminate` in the guardian, `_exec` in the child. The control pipe
carries one "S" and ends with the worker's descriptor; the status pipe carries the
identity line and a final line, read together or apart; the gate opens with the
"S" and closes with the guardian. `GroupStops` is SIGTERM with the escalation to
SIGKILL. A round of the guardian's loop is not atomic. Descendants that leave the
process group are outside the model, as `docs/security.md` puts them outside the
guarantee. `ImplementsSupervision` is the refinement: `Watchdog` reads the guardian and its
status, `Flow` the gate, the group's leader and what the worker knows. Pipes, signals and
descendants disappear in it; what Execution keeps is the gate, the acknowledgement, that a
guardian that leaves has stopped the group and one that is killed has not, that it says
"exit" only of a workflow that left, and that the worker can stop the group of a
guardian it finds dead. When the worker takes its part is not in the outline; of it
`ReturnedCodesAreTrue` shows that `execute` returns a code only after a guardian that
left as "exited", which is the guard of Execution's `WorkerCollects`.

### RunContract

What an invocation promises, with no leases, files or deaths: phases fresh, open,
decided, settled, forgotten; an execution that is ahead, on or over; keys with one
holder. `Execution!ImplementsContract` is the refinement: `Phase` reads the row,
`Progress` the workflow process, `holder` is the table locks. A fenced worker may
still begin a *decided* run (its heartbeat and its acknowledgement are two steps);
it can never begin a settled one.

### Export

`state` is `export-state.json`: sequence, configuration digest, pending snapshot,
digest of the last acknowledged payload (digests are the values themselves). Every
operation holds `export.lock` from its first read to its last write. All but a push
are therefore one action; a push is `Begin`, which synchronizes, prepares and hands
the request to the sender, and one of `Succeed`, `Fail` and `PushDies`. `pusher`
holds the lock between them; the lock dies with it. `sent` is a history of requests:
each may arrive at once, late (`Arrive`) or never, so an answer can be lost and a
request can overtake nothing but arrive after its outbox was reset. Receivers keep
the snapshot with the highest number, as `docs/observability.md` asks of them.

* `Edit` changes the file without the lock and stands for a `configure` or `disable`
  that dies between its two steps; `Malformed` is a file that does not validate.
  An operation that raises after synchronizing (an oversized snapshot, an unreadable
  ledger) leaves what `Status` leaves.
* A report is the day its window begins, the scope it shares, and how many runs are
  active and ended: the least with which statistics change, return to an earlier
  value (a run cleaned up) and differ between configurations.
* `Retention` is at least a day, as `DeliveryPolicy` demands. That matters: a snapshot
  accepted without an answer must be of an earlier day when it expires, or a later
  report equal to the last *acknowledged* one would be skipped although the receiver
  shows something else.
* A watcher is one process: it watches, pushes, sleeps, ends. Its launch may fail or
  come late (`Observe` need not happen).

### Catalog

Every process runs one command at a time: `task[p]` holds its arguments and what it
has read so far, `pc` where it is. Four places are shared, each with its own way of
being changed, and no transaction spans two of them:

* `source`, `published`: working trees and remote repositories, changed from outside
  (`Edit`). A tree gives each workflow directory its content; a commit is its tree.
* `fetched`, `sourceLock`: the bare clone of a source, shared by all catalogues read
  from it, with its FETCH_HEAD and its lock, held until the workflows are loaded.
* `bundles`: a digest is the content it was computed from; `Copy`, then `Rename` after
  a comparison, into a directory that is there afterwards and for good.
* `rows`, `index` (one transaction) and `config` (replaced under `configLock`). An `add`
  replaces the table *inside* that lock, a `sync` before it.

`load` is two reads, the manifest first and the digest of the directory afterwards,
and `snapshot` one or two more: of a Git catalogue they see a private directory, of a
local one whatever its author has made of it by then. Early refusals (a name taken,
an unknown reference) change nothing and are disabled steps; a command that can go no
further (content changed, duplicate ids, a name registered meanwhile) has only
`Interrupt` left, which also stands for failing storage and for the end of the process.
The initial update of every process writes back what it read under the lock and is left
out, as are all profiles but one. `settled` is a history variable.

### HostHistory, Estimation, Measurement

`HostHistory` decodes a session line by line (`Events`) and reads a range of it into an
observation (`LocalHistory.read`). A line is a record of a kind; the cumulative counts of
Codex are also read before the range, the answers of Claude add up per message. `Feed` is
the step, `Fed` its fold as a recursive function; a digest is the text it is a hash of.

`Measurement` is the ledger. `job[p]` is what a process (the watcher or a command) is in
the middle of: an import reads the file, then the runs (`Attribute`), then stores in one
transaction (`Store`: `put`, refused as a whole by its first violated condition); a
baseline or a draft is checked in one transaction and linked in the next. `Retain` ends a
round of the watcher. Files grow (`Write`), runs start, end and are removed, time passes.
`Estimation` is the net saving of `assess`, over sets of observations.

* What is emitted (the lines a host is given to show), the tool context and its counter,
  the export a change triggers and a disabled configuration are left out. Nothing of the
  tasks, links or coverage is read from them.
* A report reads tasks, links and coverage in three transactions; the property about
  estimates is one about the tables.
* `verified` is set anew by every import, so one that read the runs before they ended can
  overwrite one that read them after: verified falls back to false until the next round.
  Only credit that is not earned is excluded by `CreditIsEarned`.
* A link inserted after retention removed its task is kept and ignored by `assess`, until
  a task of that name is recorded again.

### Workflows and its parts

`Workflows` is one run between the caller's policy check and the record: `Starts` is the
worker's own check, `Prints` and `StreamEnds` are chunks of output, `Leaves` the exit with
evidence, `Judges` verification and `Run.finish`, `Stops` a cancellation or a missing
result. What runs is any program, which leaves one of given results, or one of the two
shipped workflows, action by action. The process tree and the ledger are left to Execution.

* `RedactedLog`: a text is a sequence of characters, a secret a text, the marker one more
  character. `Cut` (what is safe to write now) and `Replace` are folds, in the order of the
  code: the longest secret first, occurrences from the left. The size of JSON around a
  chunk is left out of the bound.
* `Policy`: the conditions of `check` in their order; the first that fails names the
  refusal. What holds of the host is a set of facts, and `Change` takes one away, revokes
  trust or narrows the profile before the worker asks.
* `Evidence`: `verify_evidence`, `Completed` and `Failed` (`finish`), and `Consistent`,
  the validator of the record, which would turn accepted evidence into EXECUTION_ERROR.
* `DeployMonitor`: monitor and services in half seconds on two clocks. Every request may
  fail on its way or lose its answer, and takes its time (`MaxDelay`). The faults are those of
  the lab's plans and the corruptions of `tests/test_deploy_monitor.py`.
* `TaskReplay`: a worker is one process with a scratch directory; it may be lost after or
  before its work, and the checkout edited at any time. The environment it reports is that of
  its end. `ran` is a history of what workers did.

## 4. What is checked

| Run | Instance | Shows |
|---|---|---|
| `run_ledger` | 2 runs, 1 key, 1 request, 2 owners, lease 1, horizon 2, heartbeat delay up to 1; symmetry on runs and owners; 55,053 states | under arbitrary callers locks follow runs, a request names one run, decisions are final |
| `execution_contention` | 2 runs sharing a key, both effectful, lease 0, horizon 1; symmetry on runs; 1.36 M states, about two minutes | workflows on one resource never overlap; the processes implement the contract |
| `execution_lifecycle` | 1 run, lease 1, horizon 2, delayed heartbeats, all four reported effects, callers prompt or late; 14,864 states | results, evidence and settlement agree with what executed; settled runs of prompt callers are clean; every run is eventually settled |
| `execution_inputs` (violation) | the same, one reported effect | finding 1 |
| `guardian` | one launch; 725 states | the supervision protocol, safety and liveness; the launch implements Supervision |
| `guardian_orphan` (violation) | one launch | finding 2 |
| `export` | 1 run, 2 receivers, 4 configurations and a malformed one, a day of 1 tick, retention 1, 2 attempts, 2 sequences by hand; 1.2 M states | what is sent, numbered, skipped and shown agree |
| `export_watchers` | 2 runs and watchers, 1 receiver, one configuration and a malformed one, 3 ticks; 181,390 states | every watcher ends |
| `catalog` | 2 processes, 2 catalogues of one Git source and a draft, 2 trees of 2 workflows each, 1 edit or commit, 3 commands; symmetry on processes; 1.44 M states | pins, offers, settings, bundles and Git grants |
| `catalog_local` (violation) | 2 processes, 1 local catalogue and a draft, 3 commands | finding 3 |
| `measurement` | 2 processes, 4 tasks, 4 files, 1 run and workflow, retention 0, times 0 and 1; 338,312 states | nothing is counted twice, credit is earned, attribution is kept, estimates rise only for cause |
| `workflows` | 5 families of scenarios (below); 466,199 states | no secret is shown, results are earned, the shipped workflows claim what happened |

*Bounds.* Two runs are enough for contention: a property of one key relates two
runs, and a third could only repeat what the second does. A second key would
only let runs proceed independently. Lease 0 with horizon 1 keeps the distinction
the tests make (fresh or expired) and lets expiry fall between any two steps; the
one-run instance has the finer clock. `Retention` is 0 or 1 so that cleanup happens
within the horizon. Reported effects in the contention run are `partial` (the hard
case: the key outlives settlement) besides the `none` and `unknown` of failures.
In `export`, one reconfiguration after two numbers is what a sequence that starts
again needs to collide, one tick is a day, an expiry and a backoff, and the four
configurations differ in mode, place and scope one at a time. `EndOfTime` and
`MaxSequence` are the only bounds in the guards of Export. In `export_watchers`
pushes by hand only repeat what watchers prepared, so `MaxSequence` cuts nothing off.
In `catalog` two commands race and a third repairs or uses the outcome; the two trees
share one workflow, so a change of version replaces one reference and keeps another.
`MaxEdits` and `MaxCommands` are the bounds in its guards.
In `measurement` a plan is what is imported and by whom, with the sessions it needs: two
reuses that show one run, imported by two processes (`Contested`); a session that grows by
a second task and is read whole and by task, at once and by one process (`Growing`,
`Parted`); answers written repeatedly and read in overlapping ranges (`Answers`); two
baselines, a reuse and a cost, with links, drafts, coverage and retention (`Costed`). Each
is begun as late as keeps its race; the counters may go back, and a session may count on
after its task. Retention of 0 over the times 0 and 1 forgets what was observed at 0, between
any two steps of an import or a link. `MaxTime` is the bound in the guards.
In `workflows` the families are programs that print (5 characters of 2, in chunks of up to
3, on two streams, under 8 sets of secrets that share beginnings, ends and middles), that
leave texts with secrets, that report (every outcome, up to 2 checks, all effects, exits
0 to 2, against three required lists), that are submitted while things change, and the two
shipped ones. A log of 4 characters overflows. For the monitor, a window of 6 half seconds,
a deadline of 4, grace of 2 and polls of 3 put errors, drift and late logs before, in and
after the window; 2 replicas can disagree, pages of 4 need several pages; the services' clock
jumps by less and by more than the skew allowed. Three attempts show a clean one before and after
another; a deadline of 2 ticks passes at any point. `MaxClock`, `MaxDelay` and `MaxChunk`
are the bounds in its guards.
`CHECK_DEADLOCK FALSE` only for Guardian (a launch ends), Export and Measurement (time does),
Catalog (the commands run out) and Workflows (the run is done). The one-run instances
never deadlock because time goes on (`Tick` of an empty table is a step).

*Symmetry* is used in runs with safety properties only.

*Fairness* (`ExecFairness`). A worker that is not dead runs on, because
`docs/recovery.md` asks the operator to resume or stop a suspended one; it
leaves its capture loop once its guardian is gone, because the loop ends with
it. A guardian ends because it has a deadline of its own (`supervise`). Someone
keeps reading and recovering runs: there is no daemon, so eventual settlement is
a promise to users who do. Storage failures and deaths of finalizers come to an
end. Nothing is assumed of the submitting caller, of the workflow's exit, or of
heartbeats. In Guardian, only the guardian's own steps, the child's read of the
gate, and the worker's cleanup once its guardian is dead are fair; the worker may
otherwise stay suspended for ever.

In Export, a push that is not killed ends by the timeout of its connection, a
watcher that is not killed goes on and gets the lock in its turn (the one strong
fairness: the lock is contended), and time passes. Nothing is assumed of runs,
receivers, or the people who configure and push.

`RunsAreEventuallySettled` names the one exception the documentation names: worker
and guardian both lost and the workflow still running. That run must stay pending,
because its resource is still in use.

### Findings

1. `FailedSubmissionsLeaveNoInputs`: when a submission takes longer than the
   lease, another process can settle the run before `prepare` writes its files. If
   prepare or the launch then fails, `finish(failed, None)` is refused with
   LEASE_LOST, the `finalize` after it never runs, and nobody scrubs a run that is
   already settled: the inputs stay until cleanup removes the directory. Of callers that keep
   ahead of their lease it holds, for launched runs as well (`SettledRunsAreClean`).
2. `SurvivingWorkerStopsGroup`: the worker looks for a dead guardian once. A
   guardian killed after that look, while the worker asks it to stop and waits,
   leaves the group running although the worker survives. `WorkerStopsOrphans` is
   what does hold. The inherited activity lock keeps the run from being settled
   (`ExecutingRunsAreUnsettled`), so the resource is safe.

3. `GrantsAreImmutable`: `load` reads the manifest of a local directory before it takes
   the digest. An edit in between registers the new content's reference with the old
   content's manifest; the digests agree, so `snapshot` accepts it. The reference can
   be granted, and a later sync replaces what is on record under it. Of Git catalogues
   the property holds (`GitGrantsAreImmutable`).

Baselines that are no task have no run of their own. `docs/measurement.md` says that "multi-task
sessions and mixed models cannot establish a baseline"; of a selection that begins after the
first line, `LocalHistory.read` asks only that some task starts in it and no second one
(`history.py:41`, `:43`). Lines 2 to 6 of a session of two tasks (prompt, count, complete; twice)
begin after the start of the first and contain that of the second: they pass as one complete task
with the use of both. `UseIsCountedOnce` is not affected: what is counted was spent, and once.

That two syncs of one catalogue can leave the recorded revision behind the offered
workflows, as a crash can, is no finding: `docs/architecture.md` gives the two stores no
common transaction. `SettledAgrees` is what it promises instead.

`SecretsStayHidden` is stated for streams in which no secret begins within another and ends
after it (`Separate`): there the cut, which moves back for one secret after the other, may
come to lie within one it has already passed. `MonitorSaysWhatHappened` and `ResultIsEarned`
hold as stated, with the skew the code allows.

## 5. What is proved

TLAPS proves these for every value of the constants. Of the ledger they assume
`LeaseAssumption` and `NoneAssumption` (durations are naturals, the horizon lies
beyond the lease, `None` is no element of the other sets).

* **RunLedgerProofs.** `LedgerInv` is the conjunction of the type invariant, the
  three invariants about keys, requests and ownership, and `RowsAreAsked`. The last is
  what makes it inductive: a run id with a row has been asked before, so `Create`
  never meets the lock of an earlier row. `LedgerInitInv` and `LedgerStepInv` (one
  step per transaction) give `LedgerInvariant`; all invariants of the run follow.
  `DecisionsStay`, `OwnersAreNotReplaced` and `UnresolvedKeysStay` prove the three
  action properties, action by action, from the same invariant.
* **RunContractProofs.** `ContractInv` adds to the types that only an unsettled run
  executes and that an unsettled run holds its key; exclusion follows
  (`ContractExclusion`). `ContractAssumption` is a hypothesis of the theorems, to be
  discharged by an implementation.
* **GuardianProofs.** `GuardInv` says what each message means: an "S" or an open
  gate that the worker knows the group, a guardian past `terminate` that the group is
  gone, a final line anywhere on its way that the guardian left with that status, and
  "exit" that the workflow left by itself. `GateFollowsGroup` is the other direction: what is
  known has been launched, what is past the gate was let through. The
  safety properties of the run `guardian` follow, and with them the refinement: of the
  eight things a step may do to the outline (`OutlineSteps`), `StepsAreOutlined` names the one
  that each step does. ExecutionProofs expands the same outline, so what it proves of
  resources, settlement and results rests on launches that Guardian implements.

* **ExecutionProofs.** `ExecInv` joins to the types: the ledger's own invariant
  (`StepsAreLedgerSteps`: every step of Execution is a step of RunLedger or leaves it
  alone, so `LedgerStepInv` is reused); `LockExcludes`, that whoever finalizes or
  cleans up meets neither the worker's, the guardian's nor the workflow's share of
  the activity lock; `FinalizerSees`, that what the finalizer read is still so, its
  row being decided; `BoundRunsAreUnsettled`, that a run with a live share is not
  settled; and two facts about keys and drafts. From it follow the types, exclusion,
  `ExecutingRunsAreUnsettled` and `UnverifiedResourceIsKept`, and, step by step
  (`RefStep`), that Execution implements RunContract. Assumptions: those of RunLedger
  and `ExecutionAssumption`.
* **ExportProofs.** `ExportInv`: no number beyond the outbox's own was ever used, and
  that of the pending snapshot only for it (`Sendable`); receivers show what was sent;
  and the last acknowledged payload is what the receiver shows, the pending snapshot
  apart, or it is of an earlier day (`LastIsShown`, with `Dated`). The last clause is
  the argument of `UnchangedIsShown`, and the only use of retention being a day or
  more. Assumptions: `ExportAssumption`, `NoValueAssumption` (finitely many runs,
  positive policy, `None` is no record).
* **CatalogProofs**, in layers. `BaseInv`: the types, what a command knows at each
  point of its way, and that whoever is between reading and replacing `config.json`
  holds its lock and knows what is in it. `ConfigInv`: names are distinct, a sync goes
  by the revision on record, an addition about to be written is of a new name; with
  it every write is one of those `ConfigKept` allows. `GitInv`: a Git cache is used by
  the holder of its lock, so what is unpacked is the commit that was fetched and what
  is found is what the commit holds. `BundleInv`: a bundle is set once, to what it is
  named after, and what was found has one. `OfferInv`, on these: replacing the table
  of one catalogue leaves the others' offers, so what a command has placed is still
  offered when it records its revision, if it is an addition (the lock) or runs alone.
  All seven properties of the run `catalog` follow. Assumption: `CatalogAssumption`.

* **ExecutionProofs, results.** `ResultInv` adds the order in which a run gets anywhere: no
  worker before the caller is done, no guardian before the worker sets "launched", no
  workflow without a guardian; so what is drafted with no effects was never launched, and
  what is drafted as completed has its evidence on disk. `NoEffectsMeansNotExecuted` and
  `CompletedRunsHaveEvidence` follow. `ClearedInv`, for runs that are not `late`: a submitting
  caller has a running, unclaimed, unexpired row and nobody else at the lock; what the
  holder of the lock has cleaned stays clean until it settles; so `SettledRunsAreClean`.
* **MeasurementProofs.** `MeasurementInv`: the types it needs (`Base`); `JobSound`, that what a process
  has read is an observation of its selection, and that what it is about to store is
  attributed and its credit earned (`PutSound`); the same of what is stored; and
  `NothingIsCountedTwice`, which is inductive with them because overlap and copy are
  symmetric (`Symmetric`) and `Retain` frees exactly the runs of what it removes. A run that has
  ended keeps what it proved (`ProvenStays`), so `CreditIsEarned` follows.
  `LedgerInv` adds what was read: every observation, in a process or on record, holds
  some first lines of its session, the text of what it selected and their use
  (`OfLines`), and names the workflow of its runs (`OwnRef`). A complete
  task may be replaced only by one of the same text, one text of a session ends at one
  line (`SameTextSameEnd`), and the use of some first lines is that of no others: so it keeps
  what it used (`AttributionIsKept`). `MeasurementTypes` follows from the same.
  `UseIsCountedOnce` adds up: what a range of lines used is the growth of a measure from the range's
  beginning to its end (`OfLines`, `LinesAreAdded`, `AnswersAddUp`), the measure never falls
  along a session (`MeasureGrows`), and ranges that share no line can be taken one after
  the other, the last one first (`RangesAddUp`, on smallest sets). There is a measure for each of the three ways
  of counting: the last cumulative count, what the turns say, the last of each answer's repetitions; a
  summary of the whole session is alone with it (`SummaryIsAlone`). Each task was read when the session
  was shorter, so `OfLines` is stated of what had been written by then. The premise
  `Accountable` is that a host counts in one way and writes no message after a result, and that
  no finished task is selected from the middle of an answer.
  `EstimatesRiseForCause` is a fact about two ledgers (`GoesOn`, `NetFalls`): credits do not rise
  as long as every baseline they are compared with is there, costs do not fall, a
  credited reuse keeps its workflow and what is forgotten was declared. Assumption:
  `MeasurementAssumption`.
* **WorkflowsProofs.** `WorkInv`, by stage: the run as it began, what was admitted as it stood when
  the worker asked, what was left, what the end made of it. The argument of `ResultIsEarned` is `AcceptedIsConsistent`:
  accepted evidence always makes a record, because the required checks, distinct, inject
  into the passing ones, so there are as many. `RefusalIsNamed`: the first failing condition
  names the refusal, and without one all hold. `ReplayInv`, for `ReplayFindingIsBacked`: the
  attempts so far are numbered and clean, under the incident's code, and an observation says
  what its worker did.
* **WorkflowsProofs, the log.** `Replace` and `CutBefore` go through a text character by character;
  what they leave is stated of the first k characters (`Passing`, `CutBeforeIs`). `LogInv`
  relates three texts of a stream: what was printed, what is shown, and what is kept back.
  Shown and kept back together run along what was printed (`Along`): text that is shown
  is text that was printed, but for the markers, up to where the rest begins. What is kept back is
  long enough for every secret but its last byte (`KeepIs`), and the cut lies in no
  secret (`Settled`), if none begins within another and ends after it (`Apart`); so no secret
  lies across two pieces that are shown, which is `SecretsStayHidden`. `Counted` is the log's
  limit. With the limits of the monitor (`MonInv`: pages, times and cursor) it gives `WorkflowTypes`.
* **WorkflowsProofs, deploy-monitor.** `SayInv` says what the monitor knows at each stage. When the
  rollout was seen, all replicas were ready with the version asked for, on the services'
  clock at the window's beginning (`RolledOut`, `Timed`). That clock is off by nothing, or, once it
  jumped, by what the check on it lets through (`Slack`). An interval's events are listed
  by their rank, and since no two have a number in common the list has every event once
  (`RankedInOrder`). What a scan has read is the first `cursor` events of the interval
  (`Scanned`); its last page ends with all of them, or with a mark before the end
  (`Gathered`). Whatever is concluded from there has its cause (`Backs`), and what has been concluded
  stays so (`Told`). `Reported` takes it to the run: the evidence of the monitor is always
  accepted. `MonitorSaysWhatHappened` follows.

Of the modules under `WorkflowsProofs` the theorems assume `EvidenceAssumption`, `PolicyAssumption`,
`ReplayAssumption`, `MonitorAssumption` and `WorkflowAssumption`. Beside the types of the constants
these say what the code or the lab fixes: required checks are a list; a scenario's secrets
are finitely many and not empty; `None` is no element of the sets it is joined to; the lab has at most
three replicas, because its events are numbered four to a second and the last number
is the error's (`fixtures.py:82`, `:93`); a faulty service names a version that was not asked for
("old"); and its fault is one of `FaultNames`.

Recursion is written as recursive functions and folds over finite sets, and the proofs about
them do without an induction rule: the least number, or a smallest set, of which the
statement fails is taken, and the one before it refutes it (`LeastIsIn`, `UpTo`, `BySubsets`).

Only model-checked: liveness. `RunsAreEventuallySettled`, `GuardianEndsExecution`, `WorkerStopsOrphans` and
`WatchersEnd` are claims about fairness, thus about ENABLED, which is out of the prover's
reach. Every invariant and every action property of the passing runs, and both refinements,
are theorems. `UseIsCountedOnce` is one about sessions as hosts write them (`Accountable`): it fails
of sequences of lines that mix counts of their own with counts per answer, or that write
one answer into two tasks.

## 6. Not modelled, and why

* Migration (`sqlite.py:44`): one transaction before any process of the new version runs.
  The ledger is modelled from the tables it leaves; a legacy worker that still runs then
  is a hazard no property covers.
* The limit of `pending` (100 runs) and the sweep of `recover` over them: in Execution any
  run may be read and finalized at any time, which is what the sweep does when it gets to
  it. That 100 unfinalizable runs starve the others takes more runs than TLC can hold.
* Statistics and dashboard: read-only aggregation; Export has the two counts on which its
  snapshots depend.
* Of authoring, the scaffold of a draft and the setup of hosts (file copies); of measurement,
  what section 3 names.
* Command line, MCP and HTTP transports, wiring: no state and no concurrency of their own.
* Benchmark, demonstrations and examples: they use the system.
* Everywhere: the text of messages and the layout of pages, SHA-256 and JSON encodings
  (taken as injective), the search ranking of SQLite, workflows that leave their process
  group, and clocks that step back under the ledger.
