----------------------------- MODULE TaskReplay -----------------------------
(***************************************************************************)
(* The workflow lab.task-reproduce: the snapshot of a failed job is read,  *)
(* kept, and replayed by workers, each a process with a scratch directory  *)
(* of its own, until an attempt says something else than "clean".  A       *)
(* worker may fail or take too long, and the checkout it runs from may     *)
(* change.  A balance and an amount are numbers, a digest is what it is of. *)
(***************************************************************************)
EXTENDS Evidence, FiniteSetsExt, SequencesExt

CONSTANTS
    Jobs,           \* the failed jobs of the database, with their fault plans
    MaxAttempts,    \* max_attempts of the inputs
    TotalTime       \* ticks until the experiment's deadline

Behaviors == {"clean", "target_failure", "different_failure", "input_drift",
              "dirty_state", "lost_ack", "timeout", "bad_postcondition"}
Snapshots == {"complete", "missing_state", "missing_item", "unsupported_task"}

Findings == {"blocked", "inconclusive", "reproduced", "not_reproduced"}

ASSUME ReplayAssumption ==
    /\ None \notin Findings \cup {"REVISION_CONFLICT", "ACCOUNT_REJECTED"}
    /\ Jobs \subseteq [snapshot : Snapshots, external : BOOLEAN, drift : BOOLEAN,
                       plan : Seq(Behaviors) \ {<<>>}]
    /\ MaxAttempts \in 1..10 /\ TotalTime \in Nat \ {0}

VARIABLES
    job,        \* the rows of the failed job
    checkout,   \* the code the workers run: the incident's, or another
    left,       \* time until the deadline
    rep,        \* the experiment
    worker,     \* the worker of the attempt under way
    ran         \* history: what the workers did, one after the other

replayVars == <<job, checkout, left, rep, worker, ran>>

Revision == 7
Balance == 50
Amounts == 3
Initial == [revision |-> Revision, balance |-> Balance]
Target == "REVISION_CONFLICT"

\* what is extracted: the inputs, the state before, the environment, the failure
Incident == [inputs |-> "inputs", expected |-> Revision, initial |-> Initial,
             environment |-> "pinned", failure |-> Target]

Unstarted == [pc |-> "load", number |-> 0, attempts |-> <<>>, finding |-> None]

ReplayInit ==
    /\ job \in Jobs
    /\ checkout = "pinned" /\ left = TotalTime
    /\ rep = Unstarted /\ worker = None /\ ran = <<>>

Goes(r) == rep' = r

Found(r, finding) == [r EXCEPT !.pc = "done", !.finding = finding]

Attempted(what) == [rep EXCEPT !.attempts = Append(@, [number |-> rep.number, finding |-> what])]

----------------------------------------------------------------------------
(* SqliteIncidents.load: one transaction reads the rows, and a snapshot     *)
(* that is not complete or not supported ends the experiment; so does a job *)
(* whose effects would leave the machine.                                   *)
Load ==
    /\ rep.pc = "load"
    /\ \/ Goes(IF job.snapshot # "complete" \/ job.external THEN Found(rep, "blocked")
               ELSE [rep EXCEPT !.pc = "describe"])
       \/ Goes(Found(rep, "blocked"))   \* the database cannot be read
    /\ UNCHANGED <<job, checkout, left, worker, ran>>

Described == IF job.drift THEN "zeros" ELSE checkout

(* The environment of the workers has to be the incident's before any runs. *)
Describe ==
    /\ rep.pc = "describe"
    /\ \/ Goes(IF Described # Incident.environment
               THEN Found(rep, "blocked")
               ELSE [rep EXCEPT !.pc = "attempt", !.number = 1])
       \/ Goes(Found(rep, "inconclusive"))
    /\ UNCHANGED <<job, checkout, left, worker, ran>>

Behavior(number) == job.plan[Min({number, Len(job.plan)})]

StartAttempt ==
    /\ rep.pc = "attempt" /\ worker = None
    /\ IF left <= 0
       THEN Goes(Found(rep, "inconclusive")) /\ UNCHANGED worker
       ELSE Goes([rep EXCEPT !.pc = "running"]) /\ worker' = [scratch |-> "fresh"]
    /\ UNCHANGED <<job, checkout, left, ran>>

(* worker.execute: the state is written into the scratch directory before   *)
(* and after; the environment it reports is the checkout's when it ends.    *)
Observation(behavior) ==
    LET initial == [Initial EXCEPT !.revision = IF behavior = "dirty_state" THEN @ + 1 ELSE @]
        seen == IF behavior = "target_failure" THEN initial.revision + 1 ELSE initial.revision
        signature == CASE seen # Incident.expected -> Target
                       [] seen = Incident.expected /\ behavior = "different_failure" -> "ACCOUNT_REJECTED"
                       [] OTHER -> None
    IN  [attempt |-> rep.number,
         inputs |-> IF behavior = "input_drift" THEN "zeros" ELSE Incident.inputs,
         environment |-> checkout, initial |-> initial, signature |-> signature,
         final |-> IF signature # None THEN initial
                   ELSE [revision |-> initial.revision + 1,
                         balance |-> initial.balance + Amounts
                                     + (IF behavior = "bad_postcondition" THEN 1 ELSE 0)]]

WorkerRuns ==
    /\ rep.pc = "running" /\ worker # None /\ worker.scratch = "fresh"
    /\ Behavior(rep.number) # "timeout"
    /\ worker' = [scratch |-> "used", says |-> IF Behavior(rep.number) = "lost_ack" THEN None
                                               ELSE Observation(Behavior(rep.number))]
    /\ ran' = Append(ran, [number |-> rep.number, behavior |-> Behavior(rep.number),
                           code |-> checkout])
    /\ UNCHANGED <<job, checkout, left, rep>>

(* No answer within the time, a failed process or no observation: what the  *)
(* worker did is not known, and the experiment ends.                        *)
WorkerIsLost ==
    /\ rep.pc = "running" /\ worker # None
    /\ Goes(Found(Attempted("unknown"), "inconclusive"))
    /\ worker' = None
    /\ UNCHANGED <<job, checkout, left, ran>>

Comparable(seen) ==
    /\ seen.attempt = rep.number
    /\ seen.environment = Incident.environment
    /\ seen.inputs = Incident.inputs
    /\ seen.initial = Incident.initial

Succeeded(seen) ==
    /\ seen.final.revision = Incident.initial.revision + 1
    /\ seen.final.balance = Incident.initial.balance + Amounts

(* What an observation shows.  One that comes late or was made under other  *)
(* conditions shows nothing, whatever its signature.                        *)
\* Mutation: a failure with the incident's signature is one whatever the conditions.
ShowsByItsSignature(seen) ==
    CASE left < 0 -> "unknown"
      [] left >= 0 /\ seen.signature = Incident.failure -> "target_failure"
      [] OTHER -> CASE ~Comparable(seen) -> "incomparable"
                    [] Comparable(seen) /\ seen.signature # None -> "different_failure"
                    [] OTHER -> IF Succeeded(seen) THEN "clean" ELSE "incomparable"
Shows(seen) ==
    CASE left < 0 -> "unknown"
      [] left >= 0 /\ ~Comparable(seen) -> "incomparable"
      [] OTHER -> CASE seen.signature = Incident.failure -> "target_failure"
                    [] seen.signature \notin {Incident.failure, None} -> "different_failure"
                    [] OTHER -> IF Succeeded(seen) THEN "clean" ELSE "incomparable"

Observed ==
    /\ rep.pc = "running" /\ worker # None /\ worker.scratch = "used"
    /\ worker.says # None
    /\ LET what == Shows(worker.says) IN
       Goes(CASE what = "target_failure" -> Found(Attempted(what), "reproduced")
              [] what \in {"unknown", "incomparable", "different_failure"} ->
                   Found(Attempted(what), "inconclusive")
              [] what = "clean" /\ rep.number < MaxAttempts ->
                   [Attempted(what) EXCEPT !.pc = "attempt", !.number = @ + 1]
              [] OTHER -> Found(Attempted(what), "not_reproduced"))
    /\ worker' = None
    /\ UNCHANGED <<job, checkout, left, ran>>

(* Time passes; the checkout the workers run from is edited, or put back.   *)
TimePasses ==
    /\ rep.pc \notin {"load", "done"} /\ left >= 0
    /\ left' = left - 1
    /\ UNCHANGED <<job, checkout, rep, worker, ran>>

Edit ==
    /\ rep.pc # "done"
    /\ checkout' = IF checkout = "pinned" THEN "other" ELSE "pinned"
    /\ UNCHANGED <<job, left, rep, worker, ran>>

ReplayNext ==
    \/ Load \/ Describe \/ StartAttempt \/ WorkerRuns \/ WorkerIsLost
    \/ Observed \/ TimePasses \/ Edit

----------------------------------------------------------------------------
(* entrypoint.main: the evidence of the finding.                            *)
OutcomeOf(finding) == CASE finding = "reproduced" -> "fail"
                        [] finding = "not_reproduced" -> "pass"
                        [] OTHER -> "inconclusive"

ReplayEvidence ==
    LET outcome == OutcomeOf(rep.finding) IN
    [mine |-> TRUE, fits |-> TRUE, outcome |-> outcome,
     checks |-> << [name |-> "target_failure_absent_in_bounded_replay",
                    status |-> IF outcome = "inconclusive" THEN "skip" ELSE outcome] >>,
     effects |-> "none"]
=============================================================================
