---------------------------- MODULE Measurement ----------------------------
(***************************************************************************)
(* The measurement ledger of a data directory: MeasurementService over     *)
(* SqliteMeasurements, fed by session files that hosts go on writing and   *)
(* by the run ledger.  Processes (the watcher, commands by hand) import,   *)
(* link, capture and declare; an import reads the file, then the runs,     *)
(* then stores in one transaction, and a baseline or a draft is checked in *)
(* one transaction and linked in another, so others come in between.  The  *)
(* watcher's round is its imports and then a Retain.  What is emitted, the *)
(* tool context and the exports that a change triggers are left out, and   *)
(* measurement is enabled throughout.                                      *)
(***************************************************************************)
EXTENDS HostHistory

CONSTANTS
    Procs, Tasks, Runs, Refs, Models, Workloads,
    RefOf,          \* the workflow of each run
    Files, HostOf,  \* session files and who writes them
    Sessions,       \* what a file may come to hold: sequences of lines
    Plans,          \* import requests, of the YAML file or by hand, and who is at work
    Declarations,   \* what may be declared of a workflow's other costs
    Retention,      \* ticks an observation is kept
    MaxTime         \* bound of the model: the last tick

Selection == [task: Tasks, file: Files, purpose: {"manual", "reuse", "creation", "maintenance"},
              workload: Workloads, ref: Refs \cup {None}, runs: SUBSET Runs,
              model: Models \cup {None},
              verified: BOOLEAN, first: Nat \ {0}, last: Nat \cup {None}]

ASSUME MeasurementAssumption ==
    /\ None \notin Tasks \cup Runs \cup Refs \cup Models \cup Nat
    /\ RefOf \in [Runs -> Refs]
    /\ HostOf \in [Files -> {"codex", "claude"}]
    /\ \A s \in Sessions : /\ s \in Seq({s[n] : n \in DOMAIN s})
                           /\ \A n \in DOMAIN s : s[n].use \in Nat /\ s[n].model \in Models \cup {None}
    /\ Plans \subseteq [imports: SUBSET Selection, by: SUBSET Procs]
    /\ \A s \in UNION {p.imports : p \in Plans} : s.last # None => s.first <= s.last
    /\ Declarations \subseteq [setup: BOOLEAN, upkeep: BOOLEAN]
    /\ Retention \in Nat /\ MaxTime \in Nat

Estimate == INSTANCE Estimation

VARIABLES
    plan,       \* what is imported, and by whom
    session,    \* what each file comes to hold
    written,    \* how many lines of it are written
    run,        \* the run ledger, as far as measurement reads it
    tasks,      \* measurement_tasks: the observation of each recorded task
    charged,    \* measurement_run_tasks
    links,      \* measurement_baselines
    drafts,     \* measurement_drafts: a draft of each workflow
    coverage,   \* measurement_coverage
    now,
    job         \* what each process is in the middle of

ledgerVars == <<tasks, charged, links, drafts, coverage>>
worldVars == <<plan, session, written, run, now>>
measurementVars == <<worldVars, ledgerVars, job>>

Row == [state: {"absent", "running", "ended"}, proven: BOOLEAN, kept: BOOLEAN]
NoRun == [state |-> "absent", proven |-> FALSE, kept |-> FALSE]
Undeclared == [setup |-> FALSE, upkeep |-> FALSE]
Idle == [pc |-> "idle"]

Longest == Max({Len(s) : s \in Sessions})

MeasurementInit ==
    /\ plan \in Plans
    /\ session \in [Files -> Sessions]
    /\ written \in [Files -> 0..Longest] /\ \A f \in Files : written[f] <= Len(session[f])
    /\ run \in [Runs -> {NoRun} \cup [state: {"ended"}, proven: BOOLEAN, kept: {TRUE}]]
    /\ tasks = << >>
    /\ charged = [r \in Runs |-> None]
    /\ links = {}
    /\ drafts = [ref \in Refs |-> None]
    /\ coverage = [ref \in Refs |-> Undeclared]
    /\ now \in 0..MaxTime
    /\ job = [p \in Procs |-> Idle]

Stored == DOMAIN tasks
Shown(f) == SubSeq(session[f], 1, written[f])
Goes(p, j) == job[p] # j /\ job' = [job EXCEPT ![p] = j]

-----------------------------------------------------------------------------
(* An import.  A selection is a file and the lines of one task in it.      *)
KeyOfRange(o) == <<o.host, o.file, o.first, o.last>>
SameIdentity(a, b) ==
    /\ KeyOfRange(a) = KeyOfRange(b)
    /\ a.purpose = b.purpose /\ a.workload = b.workload

Overlap(a, b) ==
    /\ b.last = None \/ a.first <= b.last
    /\ a.last = None \/ b.first <= a.last

Copied(a, b) == a.complete /\ b.complete /\ a.host = b.host /\ a.digest = b.digest

(* The same history under another task.                                    *)
\* Mutation: a copied history is taken for another.
DuplicatesInFile(o) ==
    \E t \in Stored \ {o.task} : tasks[t].file = o.file /\ Overlap(o, tasks[t])
Duplicates(o) ==
    \E t \in Stored \ {o.task} :
        \/ KeyOfRange(tasks[t]) = KeyOfRange(o)
        \/ tasks[t].host = o.host /\ tasks[t].file = o.file /\ Overlap(o, tasks[t])
        \/ Copied(o, tasks[t])

(* What the stored observation of the same task lets replace it.           *)
\* Mutation: a complete task may be read anew from a longer history.
ReplacesWithGrown(old, o) ==
    /\ SameIdentity(old, o)
    /\ old.complete => o.runs = old.runs /\ o.ref = old.ref
    /\ old.runs \subseteq o.runs
    /\ old.model # None => o.model = old.model
    /\ old.complete => o.complete
Replaces(old, o) ==
    /\ SameIdentity(old, o)
    /\ old.complete => o.runs = old.runs /\ o.ref = old.ref
    /\ old.runs \subseteq o.runs
    /\ old.model # None => o.model = old.model
    /\ old.complete => o.complete /\ o.digest = old.digest

Unchanged(old, o) == [old EXCEPT !.at = o.at] = o

(* put: the first statement that refuses rolls everything back.            *)
Accepts(o) ==
    /\ o.task \in Stored => Replaces(tasks[o.task], o)
    /\ ~Duplicates(o)
    /\ \A r \in o.runs : charged[r] \in {None, o.task}

BeginImport(p, s) ==
    /\ job[p] = Idle
    /\ Goes(p, [pc |-> "read", selection |-> s,
                seen |-> Read(s, HostOf[s.file], Shown(s.file), now)])
    /\ UNCHANGED <<worldVars, ledgerVars>>

(* ingest: runs.get of every run (it raises for one that is not there), and *)
(* what they prove; without runs a reuse cannot be attested.               *)
Proven(r) == run[r].state = "ended" /\ run[r].proven

RefsOf(rs) == {RefOf[r] : r \in rs}
Attributed(o) ==
    IF o.runs = {} THEN o
    ELSE [o EXCEPT !.ref = IF \E ref \in Refs : RefsOf(o.runs) = {ref}
                           THEN CHOOSE ref \in RefsOf(o.runs) : TRUE ELSE None,
                   !.verified = \A r \in o.runs : Proven(r)]

(* What is said by hand is believed where it may be.                       *)
\* Mutation: a reuse may be attested by hand.
MayBeAttributedByHand(s, o) == \A r \in o.runs : r \in Runs /\ run[r].kept
MayBeAttributed(s, o) ==
    /\ \A r \in o.runs : r \in Runs /\ run[r].kept
    /\ IF o.runs # {} THEN s.ref # None => RefsOf(o.runs) = {s.ref}
                      ELSE ~(s.purpose = "reuse" /\ s.verified)

Attribute(p) ==
    /\ job[p].pc = "read"
    /\ LET o == job[p].seen IN
       IF MayBeAttributed(job[p].selection, o)
       THEN Goes(p, [pc |-> "put", seen |-> Attributed(o)]) ELSE Goes(p, Idle)
    /\ UNCHANGED <<worldVars, ledgerVars>>

Store(p) ==
    /\ job[p].pc = "put"
    /\ Goes(p, Idle)
    /\ LET o == job[p].seen IN
       IF ~Accepts(o) \/ (o.task \in Stored /\ Unchanged(tasks[o.task], o))
       THEN UNCHANGED <<tasks, charged>>
       ELSE /\ tasks' = Put(tasks, o.task, o)
            /\ charged' = [r \in Runs |-> IF r \in o.runs THEN o.task ELSE charged[r]]
    /\ UNCHANGED <<worldVars, links, drafts, coverage>>

-----------------------------------------------------------------------------
(* Baselines, drafts captured from a task, and declared coverage.          *)
IsManual(t) == t \in Stored /\ tasks[t].purpose = "manual"
               /\ tasks[t].complete /\ tasks[t].verified

BeginCapture(p, ref, t) ==
    /\ job[p] = Idle /\ IsManual(t)
    /\ Goes(p, [pc |-> "capture", ref |-> ref, task |-> t])
    /\ UNCHANGED <<worldVars, ledgerVars>>

Capture(p) ==
    /\ job[p].pc = "capture"
    /\ drafts' = [drafts EXCEPT ![job[p].ref] = job[p].task]
    /\ Goes(p, Idle)
    /\ UNCHANGED <<worldVars, tasks, charged, links, coverage>>

(* baseline: by hand for any task, or for the task a validated draft was   *)
(* captured from (bind_draft).                                             *)
BeginLink(p, ref, t) ==
    /\ job[p] = Idle /\ IsManual(t) /\ tasks[t].model # None
    /\ Goes(p, [pc |-> "link", ref |-> ref, task |-> t])
    /\ UNCHANGED <<worldVars, ledgerVars>>

BindDraft(p, ref) == drafts[ref] # None /\ BeginLink(p, ref, drafts[ref])

Link(p) ==
    /\ job[p].pc = "link"
    /\ links' = links \cup {[ref |-> job[p].ref, task |-> job[p].task]}
    /\ Goes(p, Idle)
    /\ UNCHANGED <<worldVars, tasks, charged, drafts, coverage>>

Declare(ref, c) ==
    /\ coverage[ref] # c
    /\ coverage' = [coverage EXCEPT ![ref] = c]
    /\ UNCHANGED <<worldVars, tasks, charged, links, drafts, job>>

(* retain_since, which ends every round of the watcher.                    *)
Freed(old) == [r \in Runs |-> IF charged[r] \in old THEN None ELSE charged[r]]
\* Mutation: what is declared complete stays so when a record is gone.
CoveredStill(old) == coverage
Uncovered(old) ==
    [ref \in Refs |-> IF \E t \in old : tasks[t].ref = ref THEN Undeclared ELSE coverage[ref]]
Old == {t \in Stored : tasks[t].at < now - Retention}
Retain ==
    /\ Old # {}
    /\ tasks' = [t \in Stored \ Old |-> tasks[t]]
    /\ charged' = Freed(Old)
    /\ links' = {l \in links : l.task \notin Old}
    /\ drafts' = [ref \in Refs |-> IF drafts[ref] \in Old THEN None ELSE drafts[ref]]
    /\ coverage' = Uncovered(Old)
    /\ UNCHANGED <<worldVars, job>>

-----------------------------------------------------------------------------
(* The world: hosts write, runs begin, end and are removed, time passes.   *)
Write(f) ==
    /\ written[f] < Len(session[f])
    /\ written' = [written EXCEPT ![f] = @ + 1]
    /\ UNCHANGED <<plan, session, run, now, ledgerVars, job>>

RunChanges(r, row) ==
    /\ run' = [run EXCEPT ![r] = row]
    /\ UNCHANGED <<plan, session, written, now, ledgerVars, job>>

RunStarts(r) == run[r].state = "absent"
                /\ RunChanges(r, [state |-> "running", proven |-> FALSE, kept |-> TRUE])
RunEnds(r, proven) == run[r].state = "running"
                      /\ RunChanges(r, [run[r] EXCEPT !.state = "ended", !.proven = proven])
RunIsRemoved(r) == run[r].state = "ended" /\ run[r].kept
                   /\ RunChanges(r, [run[r] EXCEPT !.kept = FALSE])

Tick ==
    /\ now < MaxTime
    /\ now' = now + 1
    /\ UNCHANGED <<plan, session, written, run, ledgerVars, job>>

MeasurementNext ==
    \/ \E p \in plan.by, s \in plan.imports : BeginImport(p, s)
    \/ \E p \in plan.by : Attribute(p) \/ Store(p) \/ Capture(p) \/ Link(p)
    \/ \E p \in plan.by, ref \in Refs, t \in Tasks : BeginCapture(p, ref, t) \/ BeginLink(p, ref, t)
    \/ \E p \in plan.by, ref \in Refs : BindDraft(p, ref)
    \/ \E ref \in Refs, c \in Declarations : Declare(ref, c)
    \/ Retain
    \/ \E f \in Files : Write(f)
    \/ \E r \in Runs : RunStarts(r) \/ RunIsRemoved(r) \/ \E proven \in BOOLEAN : RunEnds(r, proven)
    \/ Tick

MeasurementSpec == MeasurementInit /\ [][MeasurementNext]_measurementVars

-----------------------------------------------------------------------------
Observation ==
    {o \in [task: Tasks, host: {"codex", "claude"}, file: Files,
            purpose: {"manual", "reuse", "creation", "maintenance"},
            workload: Workloads, model: Models \cup {None}, ref: Refs \cup {None},
            runs: SUBSET Runs, verified: BOOLEAN, use: Nat \cup {None}, complete: BOOLEAN,
            digest: UNION {Seq({s[n] : n \in DOMAIN s}) : s \in Sessions},
            first: Nat \ {0}, last: Nat \cup {None}, at: 0..MaxTime] :
        o.complete => o.use # None /\ o.model # None}

MeasurementTypes ==
    /\ run \in [Runs -> Row]
    /\ Stored \subseteq Tasks
    /\ \A t \in Stored : tasks[t] \in Observation /\ tasks[t].task = t
    /\ charged \in [Runs -> Tasks \cup {None}]
    /\ links \subseteq [ref: Refs, task: Tasks]
    /\ drafts \in [Refs -> Tasks \cup {None}]
    /\ coverage \in [Refs -> [setup: BOOLEAN, upkeep: BOOLEAN]]
    /\ now \in 0..MaxTime

(* What is recorded is recorded once: two tasks share no line of a session, *)
(* no copy of a whole task and no run, and a run is charged to the task     *)
(* that names it, whatever was imported, refused, completed and forgotten.  *)
NothingIsCountedTwice ==
    /\ \A t, u \in Stored : t # u =>
          /\ ~(tasks[t].host = tasks[u].host /\ tasks[t].file = tasks[u].file
               /\ Overlap(tasks[t], tasks[u]))
          /\ ~Copied(tasks[t], tasks[u])
    /\ \A r \in Runs, t \in Tasks : charged[r] = t <=> t \in Stored /\ r \in tasks[t].runs

LinesOf(lines, kinds) == {n \in DOMAIN lines : lines[n].kind \in kinds}

(* What a session has spent: its highest count or summary, or what its     *)
(* answers and turns add up to, each answer once.                          *)
Spent(lines) ==
    LET answers == {lines[n].id : n \in LinesOf(lines, {"message"})}
        uses(id) == {lines[n].use : n \in {m \in LinesOf(lines, {"message"}) : lines[m].id = id}}
    IN Max({lines[n].use : n \in LinesOf(lines, {"count", "result"})}
           \cup {SumFunction([id \in answers |-> Max(uses(id))])
                   + SumFunction([n \in LinesOf(lines, {"turn"}) |-> lines[n].use])})

Finished(f) == {t \in Stored : tasks[t].file = f /\ tasks[t].complete}

(* A session accounts for itself in one way, by counts, by turns or by     *)
(* answers and then a summary of them, and no task is selected from within *)
(* an answer on.                                                           *)
Accountable(f) ==
    LET at(kinds) == LinesOf(Shown(f), kinds)
    IN /\ at({"count"}) = {} \/ at({"turn", "message", "result"}) = {}
       /\ at({"turn"}) = {} \/ at({"message", "result"}) = {}
       /\ \A m \in at({"message"}) :
             /\ \A n \in at({"result"}) : m < n
             /\ \A n \in at({"message"}), t \in Finished(f) :
                   m < tasks[t].first /\ tasks[t].first <= n => Shown(f)[m].id # Shown(f)[n].id

(* The complete tasks of such a session together used no more than it      *)
(* spent, though each is read at its own time and from its own lines, from *)
(* counts that include what came before or answers that are written        *)
(* repeatedly.                                                             *)
UseIsCountedOnce ==
    \A f \in Files : Accountable(f) =>
        SumFunction([t \in Finished(f) |-> tasks[t].use]) <= Spent(Shown(f))

(* A reuse is credited only for runs that are its own and that each ended   *)
(* with a definite outcome and known effects, whoever attests what.         *)
CreditIsEarned ==
    \A t \in Stored : tasks[t].purpose = "reuse" /\ tasks[t].verified =>
        /\ tasks[t].runs # {}
        /\ \A r \in tasks[t].runs : run[r].state = "ended" /\ run[r].proven /\ charged[r] = t

(* A complete task never changes what it used, by which runs and for which  *)
(* workflow, and stays complete as long as it is kept: not by a reading of  *)
(* the same lines that comes late, nor because its session goes on.         *)
AttributionIsKept ==
    [][\A t \in Stored : tasks[t].complete /\ t \in Stored' =>
        /\ tasks'[t].complete
        /\ <<tasks'[t].use, tasks'[t].runs, tasks'[t].ref, tasks'[t].digest>>
             = <<tasks[t].use, tasks[t].runs, tasks[t].ref, tasks[t].digest>>]_tasks

Recorded == {tasks[t] : t \in Stored}
Baselines(ref) == {tasks[l.task] : l \in {k \in links : k.ref = ref /\ k.task \in Stored}}
NetSaving(ref) == Estimate!Net(ref, Recorded, Baselines(ref), coverage[ref])
Credited == {t \in Stored : tasks[t].purpose = "reuse" /\ tasks[t].verified}
Compared(ref) == {b.task : b \in {c \in Baselines(ref) : c.purpose = "manual" /\ c.verified}}

(* A known net saving grows only because a reuse was verified or a baseline *)
(* is gone: no cost recorded, no baseline linked, no record forgotten and   *)
(* nothing declared makes it grow.                                          *)
EstimatesRiseForCause ==
    [][\A ref \in Refs :
        NetSaving(ref) # None /\ NetSaving(ref)' # None /\ NetSaving(ref)' > NetSaving(ref)
            => ~(Credited' \subseteq Credited) \/ ~(Compared(ref) \subseteq Compared(ref)')
      ]_ledgerVars
=============================================================================
