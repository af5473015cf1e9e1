----------------------------- MODULE Workflows ------------------------------
(***************************************************************************)
(* One run under Supervisor._execute: the policy as the worker finds it,   *)
(* the workflow's process with what it prints and the evidence it leaves,  *)
(* and the result.  The workflow is any program, or one of the two that    *)
(* the repository ships, DeployMonitor and TaskReplay.  The ledger, the    *)
(* process tree and the recovery are Execution's and Guardian's.           *)
(***************************************************************************)
EXTENDS Policy, DeployMonitor, TaskReplay

CONSTANTS
    Scenarios,      \* the workflow, what is asked of it and how things stand
    Leavings,       \* what any program may leave: sets of results, by name
    MaxChunk        \* bound of the model: characters of a chunk

(* Of any program: how much it prints, and what it may leave and exit with. *)
Program == [kind : {"any", "monitor", "replay"}, required : Seq(CheckNames),
            declares : BOOLEAN, prints : Nat, leaves : DOMAIN Leavings]

(* The check each shipped bundle's manifest requires.                       *)
Shipped(kind) == CASE kind = "monitor" -> <<"deployment_window">>
                   [] OTHER -> <<"target_failure_absent_in_bounded_replay">>

(* The errors a run may end with.                                           *)
RunErrors ==
    {HostChecks[i][2] : i \in DOMAIN HostChecks}
    \cup {"UNTRUSTED", "INPUT_TOO_LARGE", "INVALID_INPUT", "ENVIRONMENT_DENIED",
          "PRODUCTION_PROFILE_REQUIRED", "SECRET_INPUT", "OUTPUT_LIMIT", "CANCELLED",
          "MISSING_EVIDENCE", "STALE_EVIDENCE", "DUPLICATE_CHECK", "INVALID_OUTPUT",
          "UNPROVEN_PASS", "UNPROVEN_FAILURE", "PROCESS_FAILED"}

ASSUME WorkflowAssumption ==
    /\ MaxChunk \in Nat \ {0} /\ None \notin RunErrors
    /\ \A l \in DOMAIN Leavings :
          Leavings[l] \subseteq [evidence : EvidenceType, text : Seq(Characters), exit : Nat]
    /\ None \notin Standing
    /\ \A s \in Scenarios : s.program.kind # "any" => s.program.required = Shipped(s.program.kind)
    /\ \A s \in Scenarios : /\ s.program \in Program
                            /\ s.request \in Request
                            /\ s.standing \in Standing
                            /\ s.secrets \subseteq Seq(Characters) \ {<<>>}
                            /\ IsFiniteSet(s.secrets)

VARIABLES
    program, request, standing,
    stage,      \* submitted, running, exited, done
    unprinted,  \* how much the process may still print
    open,       \* the streams the process still has open
    raw,        \* raw-result.json and the exit code
    run,        \* the run record
    kept,       \* the text of the evidence as it is saved
    admission   \* history: how things stood when the worker asked

workVars == <<program, request, stage, unprinted, open, raw, run, kept, admission>>
workflowVars == <<workVars, standing, logVars, monitorVars, replayVars>>

WorkflowInit ==
    \E s \in Scenarios :
        /\ program = s.program /\ request = s.request /\ standing = s.standing
        /\ LogInit(s.secrets)
        /\ Requirable(program.required) \* BundleStore.load
        /\ Allowed(request, standing)   \* the submission's own check
        /\ MonitorInit /\ ReplayInit
        /\ program.kind # "monitor" =>
              /\ asked = CHOOSE d \in Deployments : TRUE
              /\ plan = CHOOSE f \in Faults : TRUE
              /\ store = None
        /\ program.kind # "replay" => job = CHOOSE j \in Jobs : TRUE
        /\ stage = "submitted" /\ unprinted = program.prints /\ open = Streams
        /\ run = Started(IF program.declares THEN "unknown" ELSE "none")
        /\ raw = None /\ kept = None /\ admission = None

Same == UNCHANGED <<program, request, standing>>
NoScenario == UNCHANGED <<monitorVars, replayVars>>

(* Trust is revoked, the profile narrowed, the host or the bundle changed   *)
(* before the worker asks; what changes later is not asked about again.     *)
Change ==
    /\ stage = "submitted" /\ standing = [standing EXCEPT !.facts = Facts]
    /\ \E s \in Standing :
          /\ s.granted => standing.granted
          /\ s.environments \subseteq standing.environments
          /\ Cardinality(s.facts) >= Cardinality(Facts) - 1
          /\ s # standing /\ standing' = s
    /\ UNCHANGED <<workVars, logVars>> /\ NoScenario

Ends(r) == stage' = "done" /\ run' = r /\ Close

(* The worker's own check, and the start of the process.                    *)
Starts ==
    /\ stage = "submitted"
    /\ IF Allowed(request, standing)
       THEN stage' = "running" /\ admission' = standing /\ UNCHANGED <<run, logVars>>
       ELSE Ends(Failed(run, Refusal(request, standing), FALSE)) /\ UNCHANGED admission
    /\ Same /\ NoScenario /\ UNCHANGED <<unprinted, open, raw, kept>>

(* RunObserver.output: a chunk of a stream, or its end.  A log over its     *)
(* bound ends the run.                                                      *)
Output(stream, data, final) ==
    /\ stage = "running" /\ stream \in open
    /\ IF Overflows(stream, data, final)
       THEN Ends(Failed(run, "OUTPUT_LIMIT", TRUE))
       ELSE Write(stream, data, final) /\ UNCHANGED <<stage, run>>
    /\ Same /\ NoScenario /\ UNCHANGED <<raw, kept, admission>>

Prints ==
    \E stream \in open, n \in 1..Min({MaxChunk, unprinted}) : \E data \in [1..n -> Characters] :
        /\ Output(stream, data, FALSE)
        /\ unprinted' = unprinted - n /\ UNCHANGED open

StreamEnds == \E stream \in open : Output(stream, <<>>, TRUE) /\ open' = open \ {stream} /\ UNCHANGED unprinted

Leaves(evidence, text, exit) ==
    /\ stage = "running" /\ stage' = "exited"
    /\ raw' = [evidence |-> evidence, text |-> text, exit |-> exit]
    /\ Same /\ UNCHANGED <<unprinted, open, run, kept, admission, logVars>>

Reports ==
    /\ program.kind = "any" /\ open = {}
    /\ \E r \in Leavings[program.leaves] : Leaves(r.evidence, r.text, r.exit)
    /\ NoScenario

Monitors ==
    /\ program.kind = "monitor" /\ stage = "running"
    /\ \/ MonitorNext /\ UNCHANGED workVars
       \/ mon.pc = "done" /\ Leaves(MonitorEvidence, <<>>, 0) /\ UNCHANGED monitorVars
    /\ UNCHANGED <<replayVars, standing, logVars>>

Replays ==
    /\ program.kind = "replay" /\ stage = "running"
    /\ \/ ReplayNext /\ UNCHANGED workVars
       \/ rep.pc = "done" /\ Leaves(ReplayEvidence, <<>>, 0) /\ UNCHANGED replayVars
    /\ UNCHANGED <<monitorVars, standing, logVars>>

(* The process is stopped (by the user, by its time limit), or ends without *)
(* leaving evidence.                                                        *)
Stops ==
    /\ stage = "running"
    /\ \E error \in {"CANCELLED", "MISSING_EVIDENCE"} : Ends(Failed(run, error, TRUE))
    /\ Same /\ NoScenario /\ UNCHANGED <<unprinted, open, raw, kept, admission>>

(* verify_evidence, clean_evidence, save_evidence and Run.finish.           *)
Judges ==
    /\ stage = "exited"
    /\ Ends(Finished(run, raw.evidence, program.required, raw.exit))
    /\ kept' = IF Verdict(raw.evidence, program.required, raw.exit) = "accepted"
               THEN Redacted(raw.text) ELSE kept
    /\ Same /\ NoScenario /\ UNCHANGED <<unprinted, open, raw, admission>>

WorkflowNext ==
    \/ Change \/ Starts \/ Prints \/ StreamEnds \/ Reports
    \/ Monitors \/ Replays \/ Stops \/ Judges

WorkflowSpec == WorkflowInit /\ [][WorkflowNext]_workflowVars

----------------------------------------------------------------------------
(* Type invariant: the run record is one that can be built, what the log    *)
(* keeps back is bounded by the secrets, whatever is printed, and the       *)
(* states of the two workflows are within their limits.                     *)
WorkflowTypes ==
    /\ stage \in {"submitted", "running", "exited", "done"}
    /\ Consistent(run) /\ run.effects \in Effects
    /\ (stage = "done") <=> (run.state # "running")
    /\ secrets \in Sorted(Range(secrets))
    /\ \A s \in Streams : Len(pending[s]) <= Keep * (1 + Len(secrets))
    /\ mon.pc = "read" => mon.until >= mon.epoch /\ mon.pages < MaxPages
    /\ Len(rep.attempts) <= MaxAttempts /\ rep.number <= MaxAttempts

(* No secret shows in what the log says a stream printed, nor in the        *)
(* evidence kept: whichever way the chunks fall, at the end of a stream and *)
(* when the run is interrupted; of a stream, as long as no secret in it     *)
(* runs over the end of another (logs.py:24-41, supervisor.py:19-42).       *)
SecretsStayHidden ==
    \A secret \in Range(secrets) :
        /\ \A s \in Streams : Separate(printed[s]) => ~Holds(shown[s], secret)
        /\ kept # None => ~Holds(kept, secret)

NamesWith(status) == {raw.evidence.checks[i].name : i \in WithStatus(raw.evidence.checks, status)}

(* A completed run is one that the policy admitted as its worker found      *)
(* things, on evidence of its own; its pass is earned and its failure       *)
(* identified, and accepted evidence always makes a record.  A run that was *)
(* not admitted reports no effects (verification.py:8-37, domain.py:184-209,*)
(* supervisor.py:86-163).                                                   *)
ResultIsEarned ==
    /\ run.error # "EXECUTION_ERROR"
    /\ stage = "done" /\ admission = None => run.effects = "none" /\ run.state = "error"
    /\ run.state = "completed" =>
          /\ request.validation \/ admission.granted
          /\ request.environment \in admission.environments /\ admission.facts = Facts
          /\ raw.evidence.mine
          /\ run.outcome = "pass" =>
                /\ raw.exit = 0 /\ run.effects \in {"none", "completed"}
                /\ Range(program.required) \subseteq NamesWith("pass")
                /\ NamesWith("fail") = {}
          /\ run.outcome = "fail" => NamesWith("fail") # {}

WindowEnd == mon.epoch + asked.window

(* What deploy-monitor says of a deployment is so.  A pass: it was          *)
(* acknowledged, is the version asked for, and the whole window from the    *)
(* first status with every replica ready has neither an error nor another   *)
(* version (but for what the services' clock is allowed to be wrong), nor a *)
(* log service that left something out (or changed between pages it did not *)
(* need).  A failure has its cause, and unacknowledged effects are unknown  *)
(* (service.py:17-145).                                                     *)
MonitorSaysWhatHappened ==
    /\ mon.outcome = "pass" =>
          /\ mon.acknowledged /\ store.version = asked.version
          /\ clock - mon.began >= asked.window
          /\ \/ plan.fault \in {"healthy", "late_error", "boundary_error", "drift"}
             \/ /\ plan.fault = "snapshot_changed"
                /\ Cardinality(Heartbeats(mon.epoch, WindowEnd)) <= PageSize
          /\ Erring => ErrorAt \notin mon.epoch..WindowEnd
          /\ plan.fault = "drift" =>
                store.accepted + plan.after > WindowEnd - (IF jumped = 0 THEN 0 ELSE MaxSkew)
    /\ mon.reason = "error_in_observation_window" =>
          Erring /\ ErrorAt \in mon.epoch..WindowEnd
    /\ mon.reason = "version_changed_in_log_history" => plan.fault = "event_version"
    /\ mon.reason = "version_or_readiness_regressed" => plan.fault = "drift" \/ jumped < 0
    /\ program.kind = "monitor" /\ run.state = "completed" =>
          run.outcome = mon.outcome /\ (run.effects = "unknown" <=> ~mon.acknowledged)
    /\ program.kind = "monitor" /\ raw # None /\ stage = "done" => run.state = "completed"

(* A finding of task-reproduce is backed by what its workers did: one       *)
(* reproduced by a failure that began as the incident began, under its      *)
(* code, after clean attempts only; one not reproduced by as many clean     *)
(* attempts as were asked for; and after an attempt that is anything else,  *)
(* or whose result is unknown, none runs again (reproduction/service.py).   *)
ReplayFindingIsBacked ==
    LET clean(n) == ran[n].behavior = "clean" /\ ran[n].code = "pinned" IN
    /\ \A n \in 1..Len(ran) - 1 : clean(n)
    /\ \A n \in DOMAIN ran : ran[n].number = n
    /\ rep.finding = "reproduced" =>
          ran # <<>> /\ ran[Len(ran)].behavior = "target_failure" /\ ran[Len(ran)].code = "pinned"
    /\ rep.finding = "not_reproduced" => Len(ran) = MaxAttempts /\ \A n \in DOMAIN ran : clean(n)
    /\ rep.finding = "blocked" => ran = <<>>
    /\ rep.finding \in {"reproduced", "not_reproduced"} => job.snapshot = "complete" /\ ~job.external
    /\ program.kind = "replay" /\ raw # None /\ stage = "done" =>
          run.state = "completed" /\ run.outcome = OutcomeOf(rep.finding)
=============================================================================
