------------------------------ MODULE RunLedger ------------------------------
(***************************************************************************)
(* The run ledger: the tables "runs" and "locks" of catalog.sqlite and the *)
(* transactions of SqliteRuns over them.  Each method of that class is one *)
(* BEGIN IMMEDIATE transaction, so each is one atomic action here; a       *)
(* method that raises rolls back and leaves the tables as they were, so a  *)
(* refused call is a disabled action.  claim is two transactions (get,     *)
(* then the UPDATE) and a caller takes them as two steps.                  *)
(*                                                                         *)
(* Time.  A row stores the wall-clock time of its last heartbeat and every *)
(* test compares it with the present: "age" is that difference in ticks,   *)
(* saturated at Horizon, so that the model has no ever-growing clock.      *)
(*                                                                         *)
(* A run's state, error code and the origin of its result are one          *)
(* "verdict": running, completed, cancelled, failed (state error, written  *)
(* by the worker), unstarted (START_FAILED, written by the launching       *)
(* caller) and lost (WORKER_LOST, written by whoever read the row after    *)
(* the lease expired).                                                     *)
(***************************************************************************)
EXTENDS Naturals, FiniteSets

CONSTANTS
    Runs,       \* run ids; new_id never returns one twice
    Keys,       \* lock keys: hashes of catalog, workflow, environment, input
    Requests,   \* caller-chosen request ids
    Owners,     \* owner tokens of supervisors
    None,       \* no key, no request, no owner, no run
    Lease,      \* ticks a heartbeat is good for (30 s)
    Horizon,    \* ages are told apart up to here
    BusyWait    \* ticks a heartbeat can wait for the write lock (10 s)

ASSUME LeaseAssumption ==
    Lease \in Nat /\ Horizon \in Nat /\ BusyWait \in Nat /\ Lease < Horizon
ASSUME NoneAssumption ==
    /\ None \notin Runs \cup Keys \cup Requests \cup Owners
    /\ "fresh" \notin Keys \cup {None}

VARIABLES
    rows,       \* the table "runs"
    locks,      \* the table "locks": the run holding each key
    asked       \* history: the key each run id was created with, or "fresh"

ledgerVars == <<rows, locks, asked>>

Decided == {"completed", "cancelled", "failed", "unstarted", "lost"}
Effects == {"none", "completed", "partial", "unknown"}
Unresolved == {"partial", "unknown"}
Ages == 0..Horizon

Row == [verdict: {"absent", "running"} \cup Decided, effects: Effects,
        owner: Owners \cup {None}, pending: BOOLEAN, age: Ages,
        request: Requests \cup {None}]

NoRow == [verdict |-> "absent", effects |-> "none", owner |-> None,
          pending |-> FALSE, age |-> 0, request |-> None]

LedgerTypeOK ==
    /\ rows \in [Runs -> Row]
    /\ locks \in [Keys -> Runs \cup {None}]
    /\ asked \in [Runs -> Keys \cup {None, "fresh"}]

-----------------------------------------------------------------------------
Exists(r) == rows[r].verdict # "absent"
Running(r) == rows[r].verdict = "running"
Terminal(r) == rows[r].verdict \in Decided
Settled(r) == Terminal(r) /\ ~rows[r].pending
LeaseGood(r) == rows[r].age <= Lease
Holds(r, k) == locks[k] = r
HoldsAny(r) == \E k \in Keys : Holds(r, k)
WithoutLocksOf(r) == [k \in Keys |-> IF locks[k] = r THEN None ELSE locks[k]]

LedgerInit ==
    /\ rows = [r \in Runs |-> NoRow]
    /\ locks = [k \in Keys |-> None]
    /\ asked = [r \in Runs |-> "fresh"]

(* The lookups of create.  (An operator whose comment starts with          *)
(* "Mutation" is a plausible error in the operator after it; no            *)
(* specification uses it.)                                                 *)
\* Mutation: only the requests of running runs are remembered.
RequestFreeOfRunning(request) ==
    request = None
    \/ \A r \in Runs : rows[r].request = request => ~Running(r)
RequestFree(request) ==
    request # None => \A r \in Runs : rows[r].request # request
KeyFree(key) == key # None => locks[key] = None

(* create: a known request id answers with its own run or a conflict and a *)
(* taken key answers BUSY; none of the three changes the tables.           *)
Create(r, key, request, effects) ==
    /\ asked[r] = "fresh"
    /\ RequestFree(request)
    /\ KeyFree(key)
    /\ rows' = [rows EXCEPT ![r] = [NoRow EXCEPT !.verdict = "running",
                                                 !.effects = effects,
                                                 !.request = request]]
    /\ locks' = [k \in Keys |-> IF k = key THEN r ELSE locks[k]]
    /\ asked' = [asked EXCEPT ![r] = key]

(* get: the row as a reader finds it, a run whose lease ran out being      *)
(* decided by the read itself, in the same transaction.                    *)
\* Mutation: only runs with an owner expire.
ExpiredOwned(r) == Running(r) /\ ~LeaseGood(r) /\ rows[r].owner # None
Expired(r) == Running(r) /\ ~LeaseGood(r)

Lost(row) == [row EXCEPT !.verdict = "lost", !.owner = None, !.pending = TRUE]

Get(r) ==
    /\ Exists(r)
    /\ rows' = IF Expired(r) THEN [rows EXCEPT ![r] = Lost(@)] ELSE rows
    /\ UNCHANGED <<locks, asked>>

(* The conditional UPDATE that follows the get in claim.                   *)
CanClaim(r) == Running(r) /\ LeaseGood(r) /\ rows[r].owner = None

Claim(r, owner) ==
    /\ CanClaim(r)
    /\ rows' = [rows EXCEPT ![r] = [@ EXCEPT !.owner = owner, !.age = 0]]
    /\ UNCHANGED <<locks, asked>>

(* finish: owner is None when the launching caller reports START_FAILED.   *)
\* Mutation: the state of the row is not tested.
CanFinishDecided(r, owner) ==
    Exists(r) /\ LeaseGood(r) /\ rows[r].owner = owner
CanFinish(r, owner) == Running(r) /\ LeaseGood(r) /\ rows[r].owner = owner

Finish(r, owner, verdict, effects) ==
    /\ CanFinish(r, owner)
    /\ rows' = [rows EXCEPT ![r] =
                   [@ EXCEPT !.verdict = verdict, !.effects = effects,
                             !.owner = None, !.pending = TRUE, !.age = 0]]
    /\ UNCHANGED <<locks, asked>>

(* heartbeat: the time is read before the UPDATE waits for the write lock, *)
(* so both the test and the value stored can be "wait" ticks old.          *)
CanBeat(r, owner, wait) ==
    /\ Running(r)
    /\ rows[r].owner = owner
    /\ wait <= rows[r].age
    /\ rows[r].age - wait <= Lease

Heartbeat(r, owner, wait) ==
    /\ CanBeat(r, owner, wait)
    /\ rows' = [rows EXCEPT ![r].age = wait]
    /\ UNCHANGED <<locks, asked>>

(* settled: the end of finalization, which releases the key of a run whose *)
(* effects are known (the argument RecoveryService.finalize passes).       *)
\* Mutation: only partial effects keep the key.
ReleasesKeyOfUnknown(effects) == effects # "partial"
ReleasesKey(effects) == effects \notin Unresolved

Settle(r, releaseLock) ==
    /\ Terminal(r)
    /\ locks' = IF releaseLock THEN WithoutLocksOf(r) ELSE locks
    /\ rows' = [rows EXCEPT ![r].pending = FALSE]
    /\ UNCHANGED asked

(* release_lock: what reconcile ends with.                                 *)
Releasable(r) == Settled(r)

Release(r) ==
    /\ Releasable(r)
    /\ locks' = WithoutLocksOf(r)
    /\ UNCHANGED <<rows, asked>>

\* Mutation: "id NOT IN (SELECT run_id FROM locks)" is missing.
DeletableLocked(r) == Settled(r)
Deletable(r) == Settled(r) /\ ~HoldsAny(r)

Delete(r) ==
    /\ Deletable(r)
    /\ rows' = [rows EXCEPT ![r] = NoRow]
    /\ UNCHANGED <<locks, asked>>

Older(age) == IF age < Horizon THEN age + 1 ELSE age

Tick ==
    /\ rows' = [r \in Runs |-> IF Exists(r)
                               THEN [rows[r] EXCEPT !.age = Older(@)]
                               ELSE rows[r]]
    /\ UNCHANGED <<locks, asked>>

-----------------------------------------------------------------------------
(* The ledger on its own: any process may call any method at any time.     *)
CreateSome(r) ==
    \E key \in Keys \cup {None}, request \in Requests \cup {None},
       effects \in {"none", "unknown"} : Create(r, key, request, effects)
ClaimSome(r) == \E owner \in Owners : Claim(r, owner)
HeartbeatSome(r) ==
    \E owner \in Owners, wait \in 0..BusyWait : Heartbeat(r, owner, wait)
FinishByWorker(r) ==
    \E owner \in Owners, verdict \in {"completed", "cancelled", "failed"},
       effects \in Effects : Finish(r, owner, verdict, effects)
FinishByLauncher(r) == Finish(r, None, "unstarted", "none")
SettleSome(r) == Settle(r, ReleasesKey(rows[r].effects))

LedgerNext ==
    \/ Tick
    \/ \E r \in Runs :
        \/ CreateSome(r) \/ Get(r) \/ ClaimSome(r) \/ HeartbeatSome(r)
        \/ FinishByWorker(r) \/ FinishByLauncher(r) \/ SettleSome(r)
        \/ Release(r) \/ Delete(r)

LedgerSpec == LedgerInit /\ [][LedgerNext]_ledgerVars

-----------------------------------------------------------------------------
(* A key stays taken for as long as its run is open or not yet settled: no *)
(* order of expiry, completion, settlement, reconciliation and cleanup     *)
(* frees a resource whose run still needs it (SqliteRuns.settled and       *)
(* release_lock).                                                          *)
OpenRunsHoldTheirKey ==
    \A r \in Runs :
        Exists(r) /\ ~Settled(r) /\ asked[r] \in Keys => Holds(r, asked[r])

(* A taken key always belongs to a run that still has its row and asked    *)
(* for it; a lock left behind by a deleted run could never be reconciled   *)
(* (release_lock raises RUN_NOT_FOUND).                                    *)
LocksHaveRows ==
    \A k \in Keys : locks[k] # None => Exists(locks[k]) /\ asked[locks[k]] = k

LocksFollowRuns == OpenRunsHoldTheirKey /\ LocksHaveRows

(* A run that ended with partial or unknown effects gives up its key only  *)
(* once settled, that is by an explicit reconcile and never by the         *)
(* finalization that settles it (RecoveryService.finalize).                *)
UnresolvedKeepsKey ==
    [][\A k \in Keys, r \in Runs :
          Holds(r, k) /\ ~Holds(r, k)' =>
              /\ Terminal(r)
              /\ rows[r].effects \in Unresolved => Settled(r)]_ledgerVars

(* A decided run is never decided again: a stale worker, a second launcher *)
(* or a late expiry cannot replace the verdict or the effects while the    *)
(* row lives, nor make a settled run pending again (get, finish).          *)
DecisionsAreFinal ==
    [][\A r \in Runs : Terminal(r) /\ Exists(r)' =>
          /\ rows'[r].verdict = rows[r].verdict
          /\ rows'[r].effects = rows[r].effects
          /\ rows'[r].pending => rows[r].pending]_ledgerVars

(* Ownership is taken once: an owner is only ever replaced by nobody, and  *)
(* only together with the decision of the run, so that a worker that was   *)
(* fenced out cannot be followed by another on the same run (claim, get).  *)
OwnershipIsTakenOnce ==
    [][\A r \in Runs : rows[r].owner # None /\ rows'[r].owner # rows[r].owner
          => rows'[r].owner = None /\ Terminal(r)']_ledgerVars

(* Undecided runs carry no finalization intent and decided ones no owner,  *)
(* so the pending query of recover finds every decided run not yet         *)
(* settled, and a fenced worker finds no owner to match.                   *)
PendingMeansDecided ==
    \A r \in Runs : /\ rows[r].pending => Terminal(r)
                    /\ rows[r].owner # None => Running(r)

(* A request id names one run at a time: retried submissions find the run  *)
(* instead of opening a second one (create).                               *)
OneRunPerRequest ==
    \A r, q \in Runs :
        rows[r].request # None /\ rows[r].request = rows[q].request => r = q
=============================================================================
