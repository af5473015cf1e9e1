---------------------------- MODULE HostHistory ----------------------------
(***************************************************************************)
(* What a local agent history says of one task: Events, which decodes the  *)
(* lines of a Codex or Claude session one by one, and LocalHistory.read,   *)
(* which reads a selected range of lines into an observation.  The two     *)
(* token categories are one number, and what tools showed is left out but  *)
(* for the runs it names.  A line is a record:                             *)
(*   count      Codex: the session's cumulative usage                      *)
(*   started, finished   Codex: a task begins, is over                     *)
(*   prompt     a person asks (user_message, turn.started, Claude user)    *)
(*   turn       Codex exec: a turn is done, and what it used               *)
(*   failed     Codex exec: a turn failed                                  *)
(*   message    Claude: (a part of) an answer, and what it used so far     *)
(*   result     Claude: the session's summary                              *)
(*   output     a tool's answer, which may name a run                      *)
(*   opaque     something usage cannot be read from or assigned by: output *)
(*              that is not text, a partial stream, a subagent             *)
(*   broken     a line that does not decode                                *)
(***************************************************************************)
EXTENDS Integers, Sequences, FiniteSets, FiniteSetsExt

CONSTANT None

Kinds == {"count", "started", "finished", "prompt", "turn", "failed", "message",
          "result", "output", "opaque", "broken"}

(* id is the host's name of a message, turn or call; fine is an end_turn   *)
(* message or a result without error.                                      *)
Line(kind, id, use, run, model, fine) ==
    [kind |-> kind, id |-> id, use |-> use, run |-> run, model |-> model, fine |-> fine]

Unread == [uses |-> << >>, outputs |-> << >>, models |-> {}, complete |-> FALSE,
           prompts |-> 0, issues |-> {}, last |-> None, initial |-> None,
           started |-> FALSE]

Raise(s, issue) == [s EXCEPT !.issues = @ \cup {issue}]

Put(f, x, v) == [y \in DOMAIN f \cup {x} |-> IF y = x THEN v ELSE f[y]]

KeyOf(e, n) == IF e.id = None THEN n ELSE e.id

Total(uses) == IF DOMAIN uses = {} THEN None ELSE SumFunction(uses)

CheckUsage(s, previous, use) ==
    IF previous # None /\ use < previous THEN Raise(s, "usage_counter_regressed") ELSE s

(* A cumulative count is read before the range too, to subtract.           *)
\* Mutation: the count before the range is not remembered.
CountedInRange(s, e, included) ==
    IF included THEN [CheckUsage(s, s.last, e.use) EXCEPT !.last = e.use] ELSE s
Counted(s, e, included) ==
    LET t == CheckUsage(s, IF s.last # None THEN s.last ELSE s.initial, e.use)
    IN IF included THEN [t EXCEPT !.last = e.use] ELSE [t EXCEPT !.initial = e.use]

Message(s, e) ==
    IF e.id = None THEN Raise(s, "message_identity_missing")
    ELSE LET before == IF e.id \in DOMAIN s.uses THEN s.uses[e.id] ELSE None
         IN [CheckUsage(s, before, e.use) EXCEPT !.uses = Put(s.uses, e.id, e.use),
                                                 !.complete = e.fine]

Summary(s, e, sliced) ==
    [CheckUsage(s, Total(s.uses), e.use) EXCEPT
        !.last = e.use,
        !.complete = e.fine,
        !.issues = @ \cup (IF sliced THEN {"session_summary_cannot_be_sliced"} ELSE {})
                     \cup (IF e.fine THEN {} ELSE {"host_reported_error"})]

Decoded(s, e, n, sliced) ==
    CASE e.kind = "started"  -> [s EXCEPT !.started = TRUE, !.complete = FALSE]
      [] e.kind = "prompt"   -> [s EXCEPT !.started = TRUE, !.complete = FALSE, !.prompts = @ + 1]
      [] e.kind = "finished" -> [s EXCEPT !.complete = TRUE]
      [] e.kind = "turn"     -> [s EXCEPT !.complete = TRUE, !.uses = Put(@, KeyOf(e, n), e.use)]
      [] e.kind = "failed"   -> [s EXCEPT !.complete = FALSE]
      [] e.kind = "message"  -> Message(s, e)
      [] e.kind = "result"   -> Summary(s, e, sliced)
      [] e.kind = "output"   -> [s EXCEPT !.outputs = Put(@, KeyOf(e, n), e.run)]
      [] e.kind = "opaque"   -> Raise(s, "unattributed_or_unreadable")
      [] OTHER               -> s

(* Line n of a session, for a range that begins at line first.             *)
Feed(s, e, n, first) ==
    IF e.kind = "broken" THEN Raise(s, "invalid_or_partial_event")
    ELSE LET t == IF e.kind = "count" THEN Counted(s, e, n >= first) ELSE s
         IN IF n < first THEN t
            ELSE Decoded([t EXCEPT !.models = @ \cup ({e.model} \ {None})], e, n, first > 1)

(* The usage of the range; a counter that went back leaves none.           *)
\* Mutation: the difference is taken as it comes.
Difference(s) == IF s.last = None THEN Total(s.uses)
                 ELSE s.last - (IF s.initial = None THEN 0 ELSE s.initial)
Consumption(s) ==
    IF s.last = None THEN Total(s.uses)
    ELSE IF s.initial = None THEN s.last
    ELSE IF s.last >= s.initial THEN s.last - s.initial ELSE None

Least(a, b) == IF a = None \/ b < a THEN b ELSE a

(* Lines first to last, or to the end, of what is written.                 *)
Fed(lines, first, last) ==
    LET fed[n \in 0..Len(lines)] ==
            IF n = 0 THEN Unread ELSE Feed(fed[n - 1], lines[n], n, first)
    IN fed[Least(last, Len(lines))]

(* What stands in the way of taking a range for one whole task.            *)
IssuesOf(s, request) ==
    s.issues
        \cup (IF s.prompts > 1 THEN {"multiple_tasks_select_line_range"} ELSE {})
        \cup (IF request.first > 1 /\ ~s.started THEN {"task_boundary_unavailable"} ELSE {})
        \cup (IF Cardinality(s.models) > 1 THEN {"mixed_models"} ELSE {})
        \cup (IF request.model # None /\ s.models \notin {{}, {request.model}}
              THEN {"model_override_conflict"} ELSE {})

ModelOf(s, request) == IF Cardinality(s.models) = 1 THEN CHOOSE m \in s.models : TRUE
                       ELSE request.model

NamedRuns(s) == {s.outputs[k] : k \in DOMAIN s.outputs} \ {None}

(* The observation, before runs and workflow are looked up: digest is the  *)
(* text of the range, which the program keeps a hash of.                   *)
Read(request, host, lines, at) ==
    LET s == Fed(lines, request.first, request.last)
        model == ModelOf(s, request)
        use == Consumption(s)
    IN [task |-> request.task, host |-> host, file |-> request.file,
        purpose |-> request.purpose, workload |-> request.workload, model |-> model,
        ref |-> request.ref,
        runs |-> IF request.purpose = "reuse" /\ request.runs = {} THEN NamedRuns(s)
                 ELSE request.runs,
        verified |-> request.verified,
        use |-> use,
        complete |-> s.complete /\ use # None /\ model # None /\ IssuesOf(s, request) = {},
        digest |-> SubSeq(lines, request.first, Least(request.last, Len(lines))),
        first |-> request.first, last |-> request.last, at |-> at]

=============================================================================
