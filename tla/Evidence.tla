----------------------------- MODULE Evidence ------------------------------
(***************************************************************************)
(* The evidence a workflow leaves, what verify_evidence makes of it, and   *)
(* the run record it may end up in (Run.finish and Run.consistent_state).  *)
(* What the outputs are worth against the schema is one Boolean.           *)
(***************************************************************************)
EXTENDS Integers, Sequences, FiniteSets

CONSTANTS CheckNames, None

Outcomes == {"pass", "fail", "inconclusive", "not_applicable"}
Effects == {"none", "completed", "partial", "unknown"}
Check == [name : CheckNames, status : {"pass", "fail", "skip"}]

\* fits: the outputs satisfy the workflow's schema; mine: run_id is the run's
EvidenceType == [mine : BOOLEAN, fits : BOOLEAN, outcome : Outcomes,
                 checks : Seq(Check), effects : Effects]

ASSUME EvidenceAssumption ==
    /\ None # "EXECUTION_ERROR"
    /\ None \notin [required : Nat, passed : Nat, failed : Nat, skipped : Nat]

Injective(names) == \A i, j \in DOMAIN names : names[i] = names[j] => i = j

(* BundleStore.load: a manifest requires at least one check, none twice.    *)
Requirable(names) == names # <<>> /\ Injective(names)

Names(checks) == [i \in DOMAIN checks |-> checks[i].name]
WithStatus(checks, status) == {i \in DOMAIN checks : checks[i].status = status}
Proves(checks, name) == \E i \in WithStatus(checks, "pass") : checks[i].name = name

(* A pass has to be earned: by the exit, by every required check, by no     *)
(* check that failed and by effects that are known.                         *)
\* Mutation: a required check may be missing or skipped.
ProvenUnlessFailed(e, required, exit) ==
    /\ exit = 0
    /\ WithStatus(e.checks, "fail") = {}
    /\ e.effects \notin {"partial", "unknown"}
ProvenPass(e, required, exit) ==
    /\ exit = 0
    /\ \A i \in DOMAIN required : Proves(e.checks, required[i])
    /\ WithStatus(e.checks, "fail") = {}
    /\ e.effects \notin {"partial", "unknown"}

ProvenFailure(e) == WithStatus(e.checks, "fail") # {}

(* verify_evidence: the first thing that is wrong with the evidence.        *)
Verdict(e, required, exit) ==
    CASE ~e.mine -> "STALE_EVIDENCE"
      [] e.mine /\ ~Injective(Names(e.checks)) -> "DUPLICATE_CHECK"
      [] e.mine /\ Injective(Names(e.checks)) ->
         CASE ~e.fits -> "INVALID_OUTPUT"
           [] e.fits /\ e.outcome = "pass" /\ ~ProvenPass(e, required, exit) -> "UNPROVEN_PASS"
           [] e.fits /\ e.outcome = "fail" /\ ~ProvenFailure(e) -> "UNPROVEN_FAILURE"
           [] OTHER -> IF exit \in {0, 1} THEN "accepted" ELSE "PROCESS_FAILED"

Counts(e, required) ==
    [required |-> Len(required),
     passed |-> Cardinality(WithStatus(e.checks, "pass")),
     failed |-> Cardinality(WithStatus(e.checks, "fail")),
     skipped |-> Cardinality(WithStatus(e.checks, "skip"))]

Started(effects) == [state |-> "running", outcome |-> "inconclusive", effects |-> effects,
                     counts |-> None, error |-> None]

(* Run.consistent_state: the records that can be built at all.              *)
Consistent(run) ==
    CASE run.state = "running" -> /\ run.outcome = "inconclusive"
                                  /\ run.error = None /\ run.counts = None
      [] run.state = "completed" ->
            /\ run.error = None /\ run.counts # None
            /\ run.outcome = "pass" => /\ run.counts.failed = 0
                                       /\ run.counts.passed >= run.counts.required
                                       /\ run.effects \notin {"unknown", "partial"}
            /\ run.outcome = "fail" => run.counts.failed > 0
      [] OTHER -> run.outcome = "inconclusive" /\ run.error # None

(* Supervisor._execute's error branches: what a workflow that was started   *)
(* may have done stays as the run was submitted with.                       *)
Failed(run, error, launched) ==
    [run EXCEPT !.state = IF error = "CANCELLED" THEN "cancelled" ELSE "error",
                !.error = error,
                !.effects = IF launched THEN @ ELSE "none"]

Completed(run, e, required) ==
    [run EXCEPT !.state = "completed", !.outcome = e.outcome,
                !.effects = e.effects, !.counts = Counts(e, required)]

(* What the run becomes of its evidence.  An accepted result that the       *)
(* record refuses would come out as EXECUTION_ERROR.                        *)
Finished(run, e, required, exit) ==
    LET verdict == Verdict(e, required, exit)
        done == Completed(run, e, required)
    IN  CASE verdict # "accepted" -> Failed(run, verdict, TRUE)
          [] verdict = "accepted" /\ Consistent(done) -> done
          [] OTHER -> Failed(run, "EXECUTION_ERROR", TRUE)
=============================================================================
