------------------------- MODULE MeasurementProofs -------------------------
(***************************************************************************)
(* Theorems about the measurement ledger: nothing recorded is counted      *)
(* twice, a credited reuse is earned, a complete task is never told anew,  *)
(* the tasks of a session used no more than it spent, and a known net      *)
(* saving grows for a cause, for all sessions, requests and processes.     *)
(* The first invariant needs nothing of what a range of lines says; the    *)
(* second rests on the recursion that decodes a session line by line, and  *)
(* use and estimates on sums over finite sets.                             *)
(***************************************************************************)
EXTENDS Measurement, FiniteSetTheorems, NaturalsInduction, WellFoundedInduction,
        SequenceTheorems, TLAPS

-----------------------------------------------------------------------------
(* The inductive invariant.                                                *)

\* what every observation tells
Fields == {"task", "purpose", "verified", "runs", "ref", "host", "file", "first", "last",
           "complete", "digest"}

\* what an import has read goes with what it was asked to read
ReadSound(s, o) ==
    /\ Fields \subseteq DOMAIN o
    /\ o.task = s.task /\ o.task \in Tasks
    /\ o.purpose = s.purpose /\ o.verified = s.verified

\* a reuse is attested by what its runs prove only
Earned(o) == o.purpose = "reuse" /\ o.verified => o.runs # {} /\ \A r \in o.runs : Proven(r)

\* what is about to be stored, and what is stored, has been earned
PutSound(o) == o.task \in Tasks /\ o.runs \subseteq Runs /\ Earned(o)

\* what a process holds between two transactions
JobSound(j) ==
    /\ j.pc = "read" => ReadSound(j.selection, j.seen)
    /\ j.pc = "put" => PutSound(j.seen)

\* the types that the first invariant needs
Base ==
    /\ plan \in Plans
    /\ run \in [Runs -> Row]
    /\ charged \in [Runs -> Tasks \cup {None}]
    /\ Stored \subseteq Tasks
    /\ DOMAIN job = Procs

\* the first invariant: what is recorded, and about to be, is earned and recorded once
MeasurementInv ==
    /\ Base
    /\ \A p \in Procs : JobSound(job[p])
    /\ \A t \in Stored : PutSound(tasks[t])
    /\ NothingIsCountedTwice

-----------------------------------------------------------------------------
(* Neither overlap nor copy has a direction (measurement/repository.py,    *)
(* put's queries), so a new task is compared with every recorded one once. *)
LEMMA Symmetric ==
    ASSUME NEW a, NEW b
    PROVE  (Overlap(a, b) <=> Overlap(b, a)) /\ (Copied(a, b) <=> Copied(b, a))
BY DEF Overlap, Copied

(* What a run has proved stays proved, whatever happens to its record      *)
(* (domain.py, Run: a decided run does not change).                        *)
LEMMA ProvenStays ==
    ASSUME run \in [Runs -> Row], NEW r \in Runs, Proven(r),
           [\E q \in Runs : RunStarts(q) \/ RunIsRemoved(q) \/ \E b \in BOOLEAN : RunEnds(q, b)]_run
    PROVE  Proven(r)'
<1>1. CASE UNCHANGED run
  BY <1>1 DEF Proven
<1>2. ASSUME NEW q \in Runs, RunStarts(q) PROVE Proven(r)'
  BY <1>2 DEF RunStarts, RunChanges, Proven, Row
<1>3. ASSUME NEW q \in Runs, RunIsRemoved(q) PROVE Proven(r)'
  <2> DEFINE row == [run[q] EXCEPT !.kept = FALSE]
  <2>1. row.state = run[q].state /\ row.proven = run[q].proven
    BY DEF Row
  <2>2. run' = [run EXCEPT ![q] = row]
    BY <1>3 DEF RunIsRemoved, RunChanges
  <2> HIDE DEF row
  <2> QED BY <2>1, <2>2 DEF Proven
<1>4. ASSUME NEW q \in Runs, NEW b \in BOOLEAN, RunEnds(q, b) PROVE Proven(r)'
  <2>1. q # r
    BY <1>4 DEF RunEnds, Proven
  <2> QED BY <1>4, <2>1 DEF RunEnds, RunChanges, Proven
<1> QED BY <1>1, <1>2, <1>3, <1>4

(* A request names a task, and what is read for it bears that name         *)
(* (history.py, LocalHistory.read).                                        *)
LEMMA ReadIsSound ==
    ASSUME NEW s \in Selection, NEW host, NEW lines, NEW at
    PROVE  ReadSound(s, Read(s, host, lines, at))
<1> DEFINE o == Read(s, host, lines, at)
<1>1. o.task = s.task /\ o.purpose = s.purpose /\ o.verified = s.verified
  BY DEF Read
<1>2. Fields \subseteq DOMAIN o
  BY DEF Read, Fields
<1>3. s.task \in Tasks
  BY DEF Selection
<1> QED BY <1>1, <1>2, <1>3 DEF ReadSound

(* What passes the checks of ingest is earned: by its runs, or not claimed *)
(* (measurement/service.py, ingest).                                       *)
LEMMA AttributedIsSound ==
    ASSUME NEW s, NEW o, ReadSound(s, o), MayBeAttributed(s, o)
    PROVE  PutSound(Attributed(o))
<1>1. o.runs \subseteq Runs
  BY DEF MayBeAttributed
<1>2. CASE o.runs = {}
  BY <1>1, <1>2 DEF MayBeAttributed, ReadSound, Attributed, PutSound, Earned
<1>3. CASE o.runs # {}
  <2> DEFINE ref == IF \E q \in Refs : RefsOf(o.runs) = {q}
                    THEN CHOOSE q \in RefsOf(o.runs) : TRUE ELSE None
             proven == \A r \in o.runs : Proven(r)
             a == [o EXCEPT !.ref = ref, !.verified = proven]
  <2>1. Attributed(o) = a
    BY <1>3 DEF Attributed
  <2> HIDE DEF ref, proven
  <2>2. a.task = o.task /\ a.runs = o.runs /\ a.purpose = o.purpose /\ a.verified = proven
    BY DEF ReadSound, Fields
  <2> HIDE DEF a
  <2> QED BY <1>1, <1>3, <2>1, <2>2 DEF PutSound, Earned, ReadSound, proven
<1> QED BY <1>2, <1>3

-----------------------------------------------------------------------------
(* Nothing is recorded, nobody is at work at first.                        *)
LEMMA MeasurementInitInv == MeasurementInit => MeasurementInv
<1> SUFFICES ASSUME MeasurementInit PROVE MeasurementInv
  OBVIOUS
<1>1. Stored = {}
  BY DEF MeasurementInit, Stored
<1>2. Base
  <2>1. run \in [Runs -> Row]
    <3>1. NoRun \in Row
      BY DEF NoRun, Row
    <3>2. [state: {"ended"}, proven: BOOLEAN, kept: {TRUE}] \subseteq Row
      BY DEF Row
    <3> QED BY <3>1, <3>2 DEF MeasurementInit
  <2> QED BY <1>1, <2>1 DEF MeasurementInit, Base
<1>3. \A p \in Procs : JobSound(job[p])
  BY DEF MeasurementInit, Idle, JobSound
<1>4. NothingIsCountedTwice
  BY <1>1, MeasurementAssumption DEF NothingIsCountedTwice, MeasurementInit
<1> QED BY <1>1, <1>2, <1>3, <1>4 DEF MeasurementInv

(* Storing an observation that put accepts (measurement/repository.py).    *)
LEMMA StoreKeepsInv ==
    ASSUME MeasurementInv, NEW p \in Procs, Store(p)
    PROVE  Stored' \subseteq Tasks /\ charged' \in [Runs -> Tasks \cup {None}]
           /\ (\A t \in Stored' : PutSound(tasks'[t])) /\ NothingIsCountedTwice'
<1> DEFINE o == job[p].seen
<1>1. PutSound(o)
  BY DEF Store, MeasurementInv, JobSound
<1>2. CASE UNCHANGED <<tasks, charged>>
  <2>1. Stored' = Stored
    BY <1>2 DEF Stored
  <2> QED BY <1>2, <2>1 DEF MeasurementInv, Base, NothingIsCountedTwice
<1>3. CASE /\ Accepts(o)
           /\ tasks' = Put(tasks, o.task, o)
           /\ charged' = [r \in Runs |-> IF r \in o.runs THEN o.task ELSE charged[r]]
  <2> HIDE DEF o
  <2>1. o.task \in Tasks /\ o.runs \subseteq Runs /\ Earned(o)
    BY <1>1 DEF PutSound
  <2>2. Stored' = Stored \cup {o.task}
    BY <1>3 DEF Put, Stored
  <2>3. tasks'[o.task] = o /\ \A t \in Stored' \ {o.task} : t \in Stored /\ tasks'[t] = tasks[t]
    BY <1>3, <2>2 DEF Put, Stored
  <2>4. \A t \in Stored \ {o.task} :
          /\ ~(tasks[t].host = o.host /\ tasks[t].file = o.file /\ Overlap(o, tasks[t]))
          /\ ~Copied(o, tasks[t])
    BY <1>3 DEF Accepts, Duplicates
  <2>5. \A t, u \in Stored' : t # u =>
          /\ ~(tasks'[t].host = tasks'[u].host /\ tasks'[t].file = tasks'[u].file
               /\ Overlap(tasks'[t], tasks'[u]))
          /\ ~Copied(tasks'[t], tasks'[u])
    <3> SUFFICES ASSUME NEW t \in Stored', NEW u \in Stored', t # u
                 PROVE  /\ ~(tasks'[t].host = tasks'[u].host /\ tasks'[t].file = tasks'[u].file
                             /\ Overlap(tasks'[t], tasks'[u]))
                        /\ ~Copied(tasks'[t], tasks'[u])
      OBVIOUS
    <3>1. CASE t # o.task /\ u # o.task
      BY <3>1, <2>3 DEF MeasurementInv, NothingIsCountedTwice
    <3>2. CASE t = o.task
      BY <3>2, <2>3, <2>4
    <3>3. CASE u = o.task
      BY <3>3, <2>3, <2>4, Symmetric
    <3> QED BY <3>1, <3>2, <3>3
  <2>6. ASSUME NEW r \in Runs, NEW t \in Tasks
        PROVE  charged'[r] = t <=> t \in Stored' /\ r \in tasks'[t].runs
    <3>1. charged[r] = t <=> t \in Stored /\ r \in tasks[t].runs
      BY DEF MeasurementInv, NothingIsCountedTwice
    <3>2. charged'[r] = IF r \in o.runs THEN o.task ELSE charged[r]
      BY <1>3
    <3>3. o.task \in Stored => tasks[o.task].runs \subseteq o.runs
      BY <1>3 DEF Accepts, Replaces
    <3>4. r \in o.runs => charged[r] \in {None, o.task}
      BY <1>3 DEF Accepts
    <3>5. CASE t = o.task
      BY <3>1, <3>2, <3>3, <3>5, <2>2, <2>3
    <3>6. CASE t # o.task
      BY <3>1, <3>2, <3>4, <3>6, <2>2, <2>3, MeasurementAssumption
    <3> QED BY <3>5, <3>6
  <2>7. charged' \in [Runs -> Tasks \cup {None}]
    BY <1>3, <2>1 DEF MeasurementInv, Base
  <2>8. \A t \in Stored' : PutSound(tasks'[t])
    BY <1>1, <2>2, <2>3 DEF MeasurementInv
  <2> QED BY <2>1, <2>2, <2>5, <2>6, <2>7, <2>8 DEF MeasurementInv, Base, NothingIsCountedTwice
<1> QED BY <1>2, <1>3 DEF Store

(* Forgetting what is old (measurement/repository.py, retain_since).       *)
LEMMA RetainKeepsInv ==
    ASSUME MeasurementInv, Retain
    PROVE  Stored' \subseteq Tasks /\ charged' \in [Runs -> Tasks \cup {None}]
           /\ (\A t \in Stored' : PutSound(tasks'[t])) /\ NothingIsCountedTwice'
<1>1. Stored' = Stored \ Old /\ \A t \in Stored' : tasks'[t] = tasks[t]
  BY DEF Retain, Stored
<1>2. charged' = [r \in Runs |-> IF charged[r] \in Old THEN None ELSE charged[r]]
  BY DEF Retain, Freed
<1>3. ASSUME NEW r \in Runs, NEW t \in Tasks
      PROVE  charged'[r] = t <=> t \in Stored' /\ r \in tasks'[t].runs
  <2>1. charged[r] = t <=> t \in Stored /\ r \in tasks[t].runs
    BY DEF MeasurementInv, NothingIsCountedTwice
  <2> QED BY <1>1, <1>2, <2>1, MeasurementAssumption
<1>4. \A t, u \in Stored' : t # u =>
        /\ ~(tasks'[t].host = tasks'[u].host /\ tasks'[t].file = tasks'[u].file
             /\ Overlap(tasks'[t], tasks'[u]))
        /\ ~Copied(tasks'[t], tasks'[u])
  BY <1>1 DEF MeasurementInv, NothingIsCountedTwice
<1> QED BY <1>1, <1>2, <1>3, <1>4 DEF MeasurementInv, Base, NothingIsCountedTwice

\* the steps that change neither the recorded tasks nor the runs charged
Elsewhere(p) ==
    \/ \E s \in plan.imports : BeginImport(p, s)
    \/ Attribute(p) \/ Capture(p) \/ Link(p)
    \/ \E ref \in Refs, t \in Tasks : BeginCapture(p, ref, t) \/ BeginLink(p, ref, t)
    \/ \E ref \in Refs : BindDraft(p, ref)

\* where a step of a process leaves the process
Moves(p, j) == job' = [job EXCEPT ![p] = j] /\ JobSound(j)

(* A process that has nothing under way has nothing unsound (job = Idle).  *)
LEMMA IdleIsSound == JobSound(Idle)
BY DEF JobSound, Idle

(* What a process is in the middle of stays sound over its own steps       *)
(* (measurement/service.py: each step works with what the last one read).  *)
LEMMA ProcessMovesSoundly ==
    ASSUME MeasurementInv, NEW p \in Procs, Elsewhere(p) \/ Store(p)
    PROVE  \E j : Moves(p, j)
<1>1. ASSUME NEW s \in plan.imports, BeginImport(p, s) PROVE \E j : Moves(p, j)
  <2> DEFINE o == Read(s, HostOf[s.file], Shown(s.file), now)
             j == [pc |-> "read", selection |-> s, seen |-> o]
  <2>1. s \in Selection
    BY MeasurementAssumption DEF MeasurementInv, Base
  <2>2. ReadSound(s, o)
    BY <2>1, ReadIsSound
  <2>3. job' = [job EXCEPT ![p] = j]
    BY <1>1 DEF BeginImport, Goes
  <2> HIDE DEF o
  <2>4. JobSound(j)
    BY <2>2 DEF JobSound
  <2>5. Moves(p, j)
    BY <2>3, <2>4 DEF Moves
  <2> QED BY <2>5
<1>2. ASSUME Attribute(p) PROVE \E j : Moves(p, j)
  <2> DEFINE o == job[p].seen
             s == job[p].selection
             j == [pc |-> "put", seen |-> Attributed(o)]
  <2>1. ReadSound(s, o)
    BY <1>2 DEF Attribute, MeasurementInv, JobSound
  <2>2. CASE MayBeAttributed(s, o)
    <3>1. job' = [job EXCEPT ![p] = j]
      BY <1>2, <2>2 DEF Attribute, Goes
    <3>2. PutSound(Attributed(o))
      BY <2>1, <2>2, AttributedIsSound
    <3>3. JobSound(j)
      BY <3>2 DEF JobSound
    <3>4. Moves(p, j)
      BY <3>1, <3>3 DEF Moves
    <3> QED BY <3>4
  <2>3. CASE ~MayBeAttributed(s, o)
    <3>1. job' = [job EXCEPT ![p] = Idle]
      BY <1>2, <2>3 DEF Attribute, Goes
    <3> QED BY <3>1, IdleIsSound DEF Moves
  <2> QED BY <2>2, <2>3
<1>3. ASSUME Store(p) \/ Capture(p) \/ Link(p) PROVE \E j : Moves(p, j)
  <2>1. job' = [job EXCEPT ![p] = Idle]
    BY <1>3 DEF Store, Capture, Link, Goes
  <2> QED BY <2>1, IdleIsSound DEF Moves
<1>4. ASSUME NEW ref, NEW t, BeginCapture(p, ref, t) PROVE \E j : Moves(p, j)
  <2>1. job' = [job EXCEPT ![p] = [pc |-> "capture", ref |-> ref, task |-> t]]
    BY <1>4 DEF BeginCapture, Goes
  <2>2. JobSound([pc |-> "capture", ref |-> ref, task |-> t])
    BY DEF JobSound
  <2> QED BY <2>1, <2>2 DEF Moves
<1>5. ASSUME NEW ref, NEW t, BeginLink(p, ref, t) PROVE \E j : Moves(p, j)
  <2>1. job' = [job EXCEPT ![p] = [pc |-> "link", ref |-> ref, task |-> t]]
    BY <1>5 DEF BeginLink, Goes
  <2>2. JobSound([pc |-> "link", ref |-> ref, task |-> t])
    BY DEF JobSound
  <2> QED BY <2>1, <2>2 DEF Moves
<1> QED BY <1>1, <1>2, <1>3, <1>4, <1>5 DEF Elsewhere, BindDraft

(* Storing and forgetting aside, no step of a process changes what is      *)
(* recorded (measurement/service.py).                                      *)
LEMMA ElsewhereKeepsRecords ==
    ASSUME NEW p, Elsewhere(p)
    PROVE  UNCHANGED <<tasks, charged, run, plan>>
BY DEF Elsewhere, BeginImport, Attribute, Capture, Link, BeginCapture, BeginLink, BindDraft,
       worldVars, ledgerVars

\* no step of a process, and none that changes what is recorded
Outside ==
    \/ \E ref \in Refs, c \in Declarations : Declare(ref, c)
    \/ \E f \in Files : Write(f)
    \/ Tick \/ UNCHANGED measurementVars

\* the steps of the run ledger
RunMoves == \E r \in Runs : RunStarts(r) \/ RunIsRemoved(r) \/ \E b \in BOOLEAN : RunEnds(r, b)

(* Every step is one of these (the composition of the ledger's handlers).  *)
LEMMA Steps ==
    ASSUME MeasurementInv, [MeasurementNext]_measurementVars
    PROVE  (\E p \in Procs : Elsewhere(p) \/ Store(p)) \/ Retain \/ RunMoves \/ Outside
<1>1. plan.by \subseteq Procs
  BY MeasurementAssumption DEF MeasurementInv, Base
<1> QED BY <1>1 DEF MeasurementNext, Elsewhere, Outside, RunMoves

(* The invariant is inductive.                                             *)
LEMMA MeasurementNextInv ==
    MeasurementInv /\ [MeasurementNext]_measurementVars => MeasurementInv'
<1> SUFFICES ASSUME MeasurementInv, [MeasurementNext]_measurementVars PROVE MeasurementInv'
  OBVIOUS
<1>0. Base
  BY DEF MeasurementInv
<1>1. CASE \E p \in Procs : Elsewhere(p) \/ Store(p)
  <2>1. PICK p \in Procs : Elsewhere(p) \/ Store(p)
    BY <1>1
  <2>2. PICK j : Moves(p, j)
    BY <2>1, ProcessMovesSoundly
  <2>3. UNCHANGED <<plan, run>>
    BY <2>1, ElsewhereKeepsRecords DEF Store, worldVars
  <2>4. \A o : PutSound(o) => PutSound(o)'
    BY <2>3 DEF PutSound, Earned, Proven
  <2>5. ASSUME NEW q \in Procs PROVE JobSound(job[q])'
    <3>1. job'[q] = IF q = p THEN j ELSE job[q]
      BY <1>0, <2>2 DEF Moves, Base
    <3>2. JobSound(job'[q])
      BY <2>2, <3>1 DEF Moves, MeasurementInv
    <3> QED BY <2>3, <3>2 DEF JobSound, ReadSound, PutSound, Earned, Proven
  <2>6. /\ Stored' \subseteq Tasks /\ charged' \in [Runs -> Tasks \cup {None}]
        /\ \A t \in Stored' : PutSound(tasks'[t])
        /\ NothingIsCountedTwice'
    <3>1. CASE Store(p)
      BY <3>1, StoreKeepsInv
    <3>2. CASE Elsewhere(p)
      <4>1. UNCHANGED <<tasks, charged>>
        BY <3>2, ElsewhereKeepsRecords
      <4> QED BY <4>1 DEF MeasurementInv, Base, NothingIsCountedTwice, Stored
    <3> QED BY <2>1, <3>1, <3>2
  <2>7. (\A t \in Stored : PutSound(tasks[t]))'
    BY <2>3, <2>6 DEF PutSound, Earned, Proven
  <2>8. DOMAIN job' = Procs
    BY <1>0, <2>2 DEF Moves, Base
  <2> QED BY <1>0, <2>3, <2>5, <2>6, <2>7, <2>8 DEF MeasurementInv, Base
<1>2. CASE Retain
  <2>1. UNCHANGED <<plan, run, job>>
    BY <1>2 DEF Retain, worldVars
  <2>2. /\ Stored' \subseteq Tasks /\ charged' \in [Runs -> Tasks \cup {None}]
        /\ \A t \in Stored' : PutSound(tasks'[t])
        /\ NothingIsCountedTwice'
    BY <1>2, RetainKeepsInv
  <2>3. (\A t \in Stored : PutSound(tasks[t]))'
    BY <2>1, <2>2 DEF PutSound, Earned, Proven
  <2>4. (\A p \in Procs : JobSound(job[p]))'
    BY <2>1 DEF MeasurementInv, JobSound, ReadSound, PutSound, Earned, Proven
  <2> QED BY <1>0, <2>1, <2>2, <2>3, <2>4 DEF MeasurementInv, Base
<1>3. CASE RunMoves
  <2>1. UNCHANGED <<plan, tasks, charged, job>>
    BY <1>3 DEF RunMoves, RunStarts, RunIsRemoved, RunEnds, RunChanges, ledgerVars
  <2>2. run' \in [Runs -> Row]
    <3>1. PICK r \in Runs : RunStarts(r) \/ RunIsRemoved(r) \/ \E b \in BOOLEAN : RunEnds(r, b)
      BY <1>3 DEF RunMoves
    <3>2. run[r] \in Row
      BY <1>0 DEF Base
    <3>3. \A b \in BOOLEAN : [run[r] EXCEPT !.state = "ended", !.proven = b] \in Row
      BY <3>2 DEF Row
    <3>4. [run[r] EXCEPT !.kept = FALSE] \in Row
      BY <3>2 DEF Row
    <3>5. [state |-> "running", proven |-> FALSE, kept |-> TRUE] \in Row
      BY DEF Row
    <3>6. \E row \in Row : run' = [run EXCEPT ![r] = row]
      BY <3>1, <3>3, <3>4, <3>5 DEF RunStarts, RunIsRemoved, RunEnds, RunChanges
    <3> QED BY <1>0, <3>6 DEF Base
  <2>3. \A r \in Runs : Proven(r) => Proven(r)'
    BY <1>0, <1>3, ProvenStays DEF RunMoves, Base
  <2>4. Stored' = Stored
    BY <2>1 DEF Stored
  <2>5. NothingIsCountedTwice'
    BY <2>1, <2>4 DEF MeasurementInv, NothingIsCountedTwice
  <2>6. ASSUME NEW t \in Stored PROVE PutSound(tasks[t])'
    BY <2>1, <2>3 DEF MeasurementInv, PutSound, Earned
  <2>7. ASSUME NEW p \in Procs PROVE JobSound(job[p])'
    BY <2>1, <2>3 DEF MeasurementInv, JobSound, ReadSound, PutSound, Earned
  <2> QED BY <1>0, <2>1, <2>2, <2>4, <2>5, <2>6, <2>7 DEF MeasurementInv, Base
<1>4. CASE Outside
  <2>1. UNCHANGED <<plan, run, tasks, charged, job>>
    BY <1>4 DEF Outside, Declare, Write, Tick, worldVars, ledgerVars, measurementVars
  <2> QED BY <2>1 DEF MeasurementInv, Base, Stored, JobSound, ReadSound, PutSound, Earned,
                      Proven, NothingIsCountedTwice
<1> QED BY <1>1, <1>2, <1>3, <1>4, Steps

(* In every reachable state the invariant holds (the whole ledger).        *)
THEOREM MeasurementInvariant == MeasurementSpec => []MeasurementInv
<1>1. MeasurementInit => MeasurementInv
  BY MeasurementInitInv
<1>2. MeasurementInv /\ [MeasurementNext]_measurementVars => MeasurementInv'
  BY MeasurementNextInv
<1> QED BY <1>1, <1>2, PTL DEF MeasurementSpec

(* Two tasks share no line of a session, no copy of a whole task and no    *)
(* run, and a run is charged to the task that names it, for all sessions   *)
(* and imports (measurement/repository.py, put and retain_since).          *)
THEOREM NothingCountedTwice == MeasurementSpec => []NothingIsCountedTwice
<1>1. MeasurementInv => NothingIsCountedTwice
  BY DEF MeasurementInv
<1> QED BY <1>1, MeasurementInvariant, PTL

(* A reuse counts as verified only by runs that are its own and that ended *)
(* with what they prove (measurement/service.py, ingest; put).             *)
THEOREM CreditEarned == MeasurementSpec => []CreditIsEarned
<1>1. MeasurementInv => CreditIsEarned
  <2> SUFFICES ASSUME MeasurementInv, NEW t \in Stored,
                      tasks[t].purpose = "reuse", tasks[t].verified
               PROVE  /\ tasks[t].runs # {}
                      /\ \A r \in tasks[t].runs :
                            run[r].state = "ended" /\ run[r].proven /\ charged[r] = t
    BY DEF CreditIsEarned
  <2>1. tasks[t].runs # {} /\ \A r \in tasks[t].runs : Proven(r)
    BY DEF MeasurementInv, PutSound, Earned
  <2>2. tasks[t].runs \subseteq Runs
    BY DEF MeasurementInv, PutSound
  <2>3. t \in Tasks
    BY DEF MeasurementInv, Base
  <2> QED BY <2>1, <2>2, <2>3 DEF MeasurementInv, NothingIsCountedTwice, Proven
<1> QED BY <1>1, MeasurementInvariant, PTL

-----------------------------------------------------------------------------
(* Sums over finite sets.                                                  *)

(* A non-empty set of numbers has a least one.                             *)
LEMMA LeastIsIn ==
    ASSUME NEW I \in SUBSET Nat, I # {}
    PROVE  Min(I) \in I /\ \A y \in I : Min(I) =< y
<1>1. IsWellFoundedOn(OpToRel(<, Nat), Nat)
  BY NatLessThanWellFounded
<1>2. \E x \in I : \A y \in I : ~(<<y, x>> \in OpToRel(<, Nat))
  BY <1>1, WFMin
<1>3. \A x, y \in Nat : y < x => <<y, x>> \in OpToRel(<, Nat)
  BY DEF OpToRel
<1>4. PICK x \in I : \A y \in I : ~(<<y, x>> \in OpToRel(<, Nat))
  BY <1>2
<1>5. ASSUME NEW y \in I PROVE x =< y
  <2>1. ~(y < x)
    BY <1>3, <1>4
  <2> QED BY <2>1
<1> QED BY <1>5 DEF Min

(* What holds at 0 and of the next of each number it holds of.             *)
LEMMA UpTo ==
    ASSUME NEW n \in Nat, NEW S, 0 \in S, \A k \in 1..n : k - 1 \in S => k \in S
    PROVE  \A k \in 0..n : k \in S
<1> DEFINE bad == {k \in 0..n : k \notin S}
<1> SUFFICES ASSUME bad # {} PROVE FALSE
  OBVIOUS
<1>1. bad \in SUBSET Nat
  OBVIOUS
<1>2. Min(bad) \in bad /\ \A y \in bad : Min(bad) =< y
  BY <1>1, LeastIsIn
<1> DEFINE m == Min(bad)
<1> HIDE DEF m
<1>3. m \in 0..n /\ m \notin S /\ \A y \in 0..n : y \notin S => m =< y
  BY <1>2 DEF m
<1>4. m \in 1..n /\ m - 1 \in 0..n /\ ~(m =< m - 1)
  BY <1>3
<1> QED BY <1>3, <1>4

(* What holds of a set whenever it does of the set without any element.    *)
LEMMA BySubsets ==
    ASSUME NEW D, IsFiniteSet(D), NEW P,
           \A T \in SUBSET D : (\A x \in T : T \ {x} \in P) => T \in P
    PROVE  \A T \in SUBSET D : T \in P
<1> DEFINE sizes == {Cardinality(T) : T \in {U \in SUBSET D : U \notin P}}
<1> SUFFICES ASSUME sizes # {} PROVE FALSE
  OBVIOUS
<1>1. \A T \in SUBSET D : IsFiniteSet(T) /\ Cardinality(T) \in Nat
  BY FS_Subset, FS_CardinalityType
<1>2. sizes \in SUBSET Nat
  BY <1>1
<1>3. Min(sizes) \in sizes /\ \A y \in sizes : Min(sizes) =< y
  BY <1>2, LeastIsIn
<1>4. PICK T \in SUBSET D : T \notin P /\ Cardinality(T) = Min(sizes)
  BY <1>3
<1>5. PICK x \in T : T \ {x} \notin P
  BY <1>4
<1>6. T \ {x} \in SUBSET D
  OBVIOUS
<1>7. Cardinality(T \ {x}) \in sizes
  BY <1>5, <1>6
<1>8. Cardinality(T) =< Cardinality(T \ {x})
  <2> HIDE DEF sizes
  <2> QED BY <1>3, <1>4, <1>7
<1>9. Cardinality(T \ {x}) = Cardinality(T) - 1
  BY <1>1, FS_RemoveElement
<1> QED BY <1>1, <1>8, <1>9

\* the recursion that SumFunctionOnSet(h, T) is of
Sums(it, T, h) ==
    it = [s \in SUBSET T |-> IF s = {} THEN 0
                             ELSE h[CHOOSE x \in s : TRUE] + it[s \ {CHOOSE x \in s : TRUE}]]

(* The sum is the recursion's value.                                       *)
LEMMA SumIs ==
    ASSUME NEW T, NEW h
    PROVE  SumFunctionOnSet(h, T) = (CHOOSE it : Sums(it, T, h))[T]
BY Zenon DEF SumFunctionOnSet, FoldFunctionOnSet, MapThenFoldSet, Sums

(* The recursion over a set is one over each of its subsets, and one only. *)
LEMMA SumsRestrict ==
    ASSUME NEW T, NEW h, NEW it, Sums(it, T, h), NEW U \in SUBSET T
    PROVE  Sums([s \in SUBSET U |-> it[s]], U, h)
<1> DEFINE g == [s \in SUBSET U |-> it[s]]
<1>1. ASSUME NEW s \in SUBSET U
      PROVE  g[s] = IF s = {} THEN 0
                    ELSE h[CHOOSE x \in s : TRUE] + g[s \ {CHOOSE x \in s : TRUE}]
  <2>1. s \in SUBSET T /\ s \ {CHOOSE x \in s : TRUE} \in SUBSET U
    OBVIOUS
  <2>2. it[s] = IF s = {} THEN 0
                ELSE h[CHOOSE x \in s : TRUE] + it[s \ {CHOOSE x \in s : TRUE}]
    BY <2>1 DEF Sums
  <2> QED BY <2>1, <2>2
<1> QED BY <1>1 DEF Sums

(* Two recursions over one finite set have the same values: the order in   *)
(* which elements are chosen is fixed (a Python sum of a list).            *)
LEMMA SumsUnique ==
    ASSUME NEW T, IsFiniteSet(T), NEW h, NEW f, NEW g, Sums(f, T, h), Sums(g, T, h)
    PROVE  \A s \in SUBSET T : f[s] = g[s]
<1> DEFINE P == {s \in SUBSET T : f[s] = g[s]}
<1>1. ASSUME NEW s \in SUBSET T, \A x \in s : s \ {x} \in P PROVE s \in P
  <2>1. /\ f[s] = IF s = {} THEN 0
                  ELSE h[CHOOSE x \in s : TRUE] + f[s \ {CHOOSE x \in s : TRUE}]
        /\ g[s] = IF s = {} THEN 0
                  ELSE h[CHOOSE x \in s : TRUE] + g[s \ {CHOOSE x \in s : TRUE}]
    BY DEF Sums
  <2>2. s # {} => (CHOOSE x \in s : TRUE) \in s
    OBVIOUS
  <2> QED BY <1>1, <2>1, <2>2
<1> HIDE DEF P
<1>2. \A s \in SUBSET T : s \in P
  BY <1>1, BySubsets
<1> QED BY <1>2 DEF P

\* what the sum over T is, from the sums over fewer
SumsUp(T, h) ==
    SumFunctionOnSet(h, T) =
        IF T = {} THEN 0
        ELSE h[CHOOSE x \in T : TRUE] + SumFunctionOnSet(h, T \ {CHOOSE x \in T : TRUE})

(* The value of the recursion, where there is one, is one element and the  *)
(* value for the rest.                                                     *)
LEMMA SumsUpIf ==
    ASSUME NEW T, IsFiniteSet(T), NEW h, \E it : Sums(it, T, h)
    PROVE  SumsUp(T, h)
<1> DEFINE it == CHOOSE f : Sums(f, T, h)
           c == CHOOSE x \in T : TRUE
           U == T \ {c}
           at == CHOOSE f : Sums(f, U, h)
           part == [s \in SUBSET U |-> it[s]]
<1>1. Sums(it, T, h)
  OBVIOUS
<1> HIDE DEF it
<1>2. Sums(part, U, h)
  BY <1>1, SumsRestrict
<1>3. Sums(at, U, h)
  BY <1>2
<1> HIDE DEF at
<1>4. IsFiniteSet(U)
  BY FS_Subset
<1>5. at[U] = part[U]
  BY <1>2, <1>3, <1>4, SumsUnique
<1>6. at[U] = it[U]
  BY <1>5
<1>7. it[T] = IF T = {} THEN 0 ELSE h[c] + it[U]
  BY <1>1 DEF Sums
<1>8. SumFunctionOnSet(h, T) = it[T] /\ SumFunctionOnSet(h, U) = at[U]
  BY SumIs DEF it, at
<1> QED BY <1>6, <1>7, <1>8 DEF SumsUp

(* Every sum over a finite set is one element's number and the sum of the rest. *)
LEMMA SumsUpTo ==
    ASSUME NEW D, IsFiniteSet(D), NEW h
    PROVE  \A T \in SUBSET D : SumsUp(T, h)
<1> DEFINE P == {T \in SUBSET D : \E it : Sums(it, T, h)}
<1>1. ASSUME NEW T \in SUBSET D, \A x \in T : T \ {x} \in P PROVE T \in P
  <2> DEFINE c(s) == CHOOSE x \in s : TRUE
             at == [s \in SUBSET T |-> IF s = {} THEN 0
                                       ELSE h[c(s)] + SumFunctionOnSet(h, s \ {c(s)})]
  <2>1. ASSUME NEW s \in SUBSET T, s # T PROVE SumsUp(s, h)
    <3>1. PICK x \in T : x \notin s
      BY <2>1
    <3>2. PICK it : Sums(it, T \ {x}, h)
      BY <1>1, <3>1
    <3>3. Sums([u \in SUBSET s |-> it[u]], s, h)
      BY <3>1, <3>2, SumsRestrict
    <3>4. IsFiniteSet(s)
      BY FS_Subset
    <3> QED BY <3>3, <3>4, SumsUpIf
  <2>2. ASSUME NEW s \in SUBSET T, s # {}
        PROVE  at[s \ {c(s)}] = SumFunctionOnSet(h, s \ {c(s)})
    <3> DEFINE u == s \ {c(s)}
    <3>1. c(s) \in s /\ u \in SUBSET T /\ u # T
      BY <2>2
    <3>2. SumsUp(u, h)
      BY <2>1, <3>1
    <3>3. at[u] = IF u = {} THEN 0 ELSE h[c(u)] + SumFunctionOnSet(h, u \ {c(u)})
      BY <3>1
    <3> QED BY <3>2, <3>3 DEF SumsUp
  <2>3. at = [s \in SUBSET T |-> IF s = {} THEN 0 ELSE h[c(s)] + at[s \ {c(s)}]]
    <3> DEFINE bt == [s \in SUBSET T |-> IF s = {} THEN 0 ELSE h[c(s)] + at[s \ {c(s)}]]
    <3>1. ASSUME NEW s \in SUBSET T PROVE at[s] = bt[s]
      <4>1. bt[s] = IF s = {} THEN 0 ELSE h[c(s)] + at[s \ {c(s)}]
        OBVIOUS
      <4>2. at[s] = IF s = {} THEN 0 ELSE h[c(s)] + SumFunctionOnSet(h, s \ {c(s)})
        OBVIOUS
      <4> HIDE DEF at, bt, c
      <4> QED BY <2>2, <4>1, <4>2
    <3> QED BY <3>1
  <2>4. Sums(at, T, h)
    BY <2>3 DEF Sums
  <2> QED BY <2>4
<1> HIDE DEF P
<1>2. \A T \in SUBSET D : T \in P
  BY <1>1, BySubsets
<1>3. \A T \in SUBSET D : IsFiniteSet(T)
  BY FS_Subset
<1> QED BY <1>2, <1>3, SumsUpIf DEF P

(* A sum is a number; it is the number of any of its elements and the sum  *)
(* of the rest; and it is of the numbers of its elements only.             *)
LEMMA SumIsInt ==
    ASSUME NEW D, IsFiniteSet(D), NEW h, \A x \in D : h[x] \in Int
    PROVE  \A T \in SUBSET D : SumFunctionOnSet(h, T) \in Int
<1> DEFINE P == {T \in SUBSET D : SumFunctionOnSet(h, T) \in Int}
<1>1. ASSUME NEW T \in SUBSET D, \A x \in T : T \ {x} \in P PROVE T \in P
  <2>1. SumsUp(T, h)
    BY SumsUpTo
  <2>2. CASE T = {}
    BY <2>1, <2>2 DEF SumsUp
  <2>3. CASE T # {}
    <3> DEFINE c == CHOOSE x \in T : TRUE
    <3>1. c \in T /\ SumFunctionOnSet(h, T) = h[c] + SumFunctionOnSet(h, T \ {c})
      BY <2>1, <2>3 DEF SumsUp
    <3> HIDE DEF c
    <3>2. SumFunctionOnSet(h, T \ {c}) \in Int /\ h[c] \in Int
      BY <1>1, <3>1
    <3> QED BY <3>1, <3>2
  <2> QED BY <2>2, <2>3
<1> HIDE DEF P
<1>2. \A T \in SUBSET D : T \in P
  BY <1>1, BySubsets
<1> QED BY <1>2 DEF P

(* A sum of nothing is 0 (estimation.py, sum of an empty list).            *)
LEMMA SumOfEmpty ==
    ASSUME NEW h
    PROVE  SumFunctionOnSet(h, {}) = 0
<1>1. SumsUp({}, h)
  BY FS_EmptySet, SumsUpTo
<1> QED BY <1>1 DEF SumsUp

(* Whichever element is taken first, the sum is the same.                  *)
LEMMA SumTakes ==
    ASSUME NEW D, IsFiniteSet(D), NEW h, \A x \in D : h[x] \in Int
    PROVE  \A T \in SUBSET D : \A x \in T :
              SumFunctionOnSet(h, T) = h[x] + SumFunctionOnSet(h, T \ {x})
<1> DEFINE S(T) == SumFunctionOnSet(h, T)
           P == {T \in SUBSET D : \A x \in T : S(T) = h[x] + S(T \ {x})}
<1>0. \A T \in SUBSET D : S(T) \in Int
  BY SumIsInt
<1>1. ASSUME NEW T \in SUBSET D, \A x \in T : T \ {x} \in P, NEW x \in T
      PROVE  S(T) = h[x] + S(T \ {x})
  <2> DEFINE c == CHOOSE y \in T : TRUE
  <2>1. c \in T /\ S(T) = h[c] + S(T \ {c})
    <3>1. SumsUp(T, h)
      BY SumsUpTo
    <3> QED BY <3>1 DEF SumsUp
  <2> HIDE DEF c
  <2>2. CASE x = c
    BY <2>1, <2>2
  <2>3. CASE x # c
    <3> DEFINE U == (T \ {c}) \ {x}
    <3>1. x \in T \ {c} /\ c \in T \ {x} /\ U = (T \ {x}) \ {c} /\ U \in SUBSET D
      BY <2>1, <2>3
    <3>2. S(T \ {c}) = h[x] + S(U) /\ S(T \ {x}) = h[c] + S(U)
      BY <1>1, <2>1, <3>1
    <3>3. h[x] \in Int /\ h[c] \in Int /\ S(U) \in Int
      BY <1>0, <2>1, <3>1
    <3> HIDE DEF S, U
    <3> QED BY <2>1, <3>2, <3>3
  <2> QED BY <2>2, <2>3
<1>2. \A T \in SUBSET D : (\A x \in T : T \ {x} \in P) => T \in P
  BY <1>1
<1> HIDE DEF P
<1>3. \A T \in SUBSET D : T \in P
  BY <1>2, BySubsets
<1> QED BY <1>3 DEF P

(* Numbers no greater, each, have a sum no greater.                        *)
LEMMA SumOfLess ==
    ASSUME NEW D, IsFiniteSet(D), NEW g, NEW h,
           \A x \in D : g[x] \in Int /\ h[x] \in Int /\ g[x] <= h[x]
    PROVE  SumFunctionOnSet(g, D) <= SumFunctionOnSet(h, D)
<1> DEFINE G(T) == SumFunctionOnSet(g, T)
           H(T) == SumFunctionOnSet(h, T)
           P == {T \in SUBSET D : G(T) <= H(T)}
<1>0. \A T \in SUBSET D : G(T) \in Int /\ H(T) \in Int
  BY SumIsInt
<1>1. ASSUME NEW T \in SUBSET D, \A x \in T : T \ {x} \in P PROVE G(T) <= H(T)
  <2>1. CASE T = {}
    BY <2>1, SumOfEmpty
  <2>2. CASE T # {}
    <3>1. PICK x \in T : TRUE
      BY <2>2
    <3> DEFINE U == T \ {x}
    <3>2. G(T) = g[x] + G(U) /\ H(T) = h[x] + H(U)
      BY SumTakes
    <3>3. G(U) <= H(U) /\ G(U) \in Int /\ H(U) \in Int
      BY <1>0, <1>1
    <3>4. g[x] \in Int /\ h[x] \in Int /\ g[x] <= h[x]
      OBVIOUS
    <3> HIDE DEF G, H, U
    <3> QED BY <3>2, <3>3, <3>4
  <2> QED BY <2>1, <2>2
<1>2. \A T \in SUBSET D : (\A x \in T : T \ {x} \in P) => T \in P
  BY <1>1
<1> HIDE DEF P
<1>3. \A T \in SUBSET D : T \in P
  BY <1>2, BySubsets
<1> QED BY <1>3 DEF P

(* Elements whose number is 0 do not count.                                *)
LEMMA SumOfPart ==
    ASSUME NEW D, IsFiniteSet(D), NEW h, \A x \in D : h[x] \in Int,
           NEW K \in SUBSET D, \A x \in D \ K : h[x] = 0
    PROVE  SumFunctionOnSet(h, D) = SumFunctionOnSet(h, K)
<1> DEFINE H(T) == SumFunctionOnSet(h, T)
           P == {T \in SUBSET D : H(T) = H(T \cap K)}
<1>0. \A T \in SUBSET D : H(T) \in Int
  BY SumIsInt
<1>1. ASSUME NEW T \in SUBSET D, \A x \in T : T \ {x} \in P PROVE H(T) = H(T \cap K)
  <2>1. CASE T \subseteq K
    <3>1. T \cap K = T
      BY <2>1
    <3> QED BY <3>1
  <2>2. ASSUME NEW x \in T, x \notin K PROVE H(T) = H(T \cap K)
    <3> DEFINE U == T \ {x}
    <3>1. H(T) = h[x] + H(U) /\ h[x] = 0 /\ H(U) \in Int /\ U \in SUBSET D
      BY <1>0, <2>2, SumTakes
    <3>2. H(U) = H(U \cap K) /\ U \cap K = T \cap K
      BY <1>1, <2>2
    <3> HIDE DEF H, U
    <3>3. H(T) = H(U)
      BY <3>1
    <3> QED BY <3>2, <3>3
  <2> QED BY <2>1, <2>2
<1>2. \A T \in SUBSET D : (\A x \in T : T \ {x} \in P) => T \in P
  BY <1>1
<1> HIDE DEF P
<1>3. D \in P
  <2>1. \A T \in SUBSET D : T \in P
    BY <1>2, BySubsets
  <2> QED BY <2>1
<1>4. D \cap K = K
  OBVIOUS
<1> QED BY <1>3, <1>4 DEF P

(* A sum over the images of elements that have one each.                   *)
LEMMA SumOfImages ==
    ASSUME NEW D, IsFiniteSet(D), NEW g, NEW h, NEW m,
           \A x, y \in D : m[x] = m[y] => x = y,
           \A x \in D : g[m[x]] \in Int /\ h[x] = g[m[x]]
    PROVE  /\ IsFiniteSet({m[x] : x \in D})
           /\ SumFunctionOnSet(g, {m[x] : x \in D}) = SumFunctionOnSet(h, D)
<1> DEFINE E == {m[x] : x \in D}
           I(T) == {m[x] : x \in T}
           G(T) == SumFunctionOnSet(g, T)
           H(T) == SumFunctionOnSet(h, T)
           P == {T \in SUBSET D : G(I(T)) = H(T)}
<1>0. IsFiniteSet(E)
  <2> DEFINE f == [x \in D |-> m[x]]
  <2>1. f \in Surjection(D, E)
    BY DEF Surjection
  <2> QED BY <2>1, FS_Surjection
<1>1. ASSUME NEW T \in SUBSET D, \A x \in T : T \ {x} \in P PROVE G(I(T)) = H(T)
  <2>1. CASE T = {}
    <3>1. I(T) = {}
      BY <2>1
    <3> QED BY <2>1, <3>1, SumOfEmpty
  <2>2. CASE T # {}
    <3>1. PICK x \in T : TRUE
      BY <2>2
    <3> DEFINE U == T \ {x}
    <3>2. H(T) = h[x] + H(U)
      BY SumTakes
    <3>3. m[x] \in I(T) /\ I(T) \in SUBSET E
      OBVIOUS
    <3>4. \A y \in E : g[y] \in Int
      OBVIOUS
    <3>5. G(I(T)) = g[m[x]] + G(I(T) \ {m[x]})
      <4> HIDE DEF E, I
      <4> QED BY <1>0, <3>3, <3>4, SumTakes
    <3>6. I(T) \ {m[x]} = I(U)
      OBVIOUS
    <3>7. G(I(U)) = H(U)
      BY <1>1
    <3>8. h[x] = g[m[x]]
      OBVIOUS
    <3> HIDE DEF G, H, I, U
    <3> QED BY <3>2, <3>5, <3>6, <3>7, <3>8
  <2> QED BY <2>1, <2>2
<1>2. \A T \in SUBSET D : (\A x \in T : T \ {x} \in P) => T \in P
  BY <1>1
<1> HIDE DEF P
<1>3. D \in P
  <2>1. \A T \in SUBSET D : T \in P
    BY <1>2, BySubsets
  <2> QED BY <2>1
<1> QED BY <1>0, <1>3 DEF P

(* The highest of numbers that have a bound is one of them.                *)
LEMMA MostIsIn ==
    ASSUME NEW S \in SUBSET Nat, S # {}, NEW b \in Nat, \A y \in S : y <= b
    PROVE  Max(S) \in S /\ \A y \in S : y <= Max(S)
<1> DEFINE I == {c \in Nat : \A y \in S : y <= c}
           m == Min(I)
<1>1. I \in SUBSET Nat /\ I # {}
  OBVIOUS
<1>2. m \in I /\ \A c \in I : m <= c
  BY <1>1, LeastIsIn
<1> HIDE DEF m
<1>3. m \in S
  <2> SUFFICES ASSUME m \notin S PROVE FALSE
    OBVIOUS
  <2>1. PICK y \in S : TRUE
    OBVIOUS
  <2>2. m \in Nat /\ y <= m /\ y # m /\ y \in Nat
    BY <1>2, <2>1
  <2>3. m - 1 \in Nat /\ \A x \in S : x <= m - 1
    BY <1>2, <2>2
  <2>4. m - 1 \in I
    BY <2>3
  <2> QED BY <1>2, <2>2, <2>4
<1>4. \A y \in S : m >= y
  BY <1>2
<1>5. \E x \in S : \A y \in S : x >= y
  BY <1>3, <1>4
<1>6. Max(S) \in S /\ \A y \in S : Max(S) >= y
  BY <1>5 DEF Max
<1> QED BY <1>6

(* Finitely many numbers have a bound.                                     *)
LEMMA FiniteHasBound ==
    ASSUME NEW D, IsFiniteSet(D), NEW h, \A x \in D : h[x] \in Nat
    PROVE  \E b \in Nat : \A x \in D : h[x] <= b
<1> DEFINE P == {T \in SUBSET D : \E b \in Nat : \A x \in T : h[x] <= b}
<1>1. ASSUME NEW T \in SUBSET D, \A x \in T : T \ {x} \in P PROVE T \in P
  <2>1. CASE T = {}
    <3>1. \A x \in T : h[x] <= 0
      BY <2>1
    <3> QED BY <3>1
  <2>2. CASE T # {}
    <3>1. PICK x \in T : TRUE
      BY <2>2
    <3>2. PICK b \in Nat : \A y \in T \ {x} : h[y] <= b
      BY <1>1
    <3>3. b + h[x] \in Nat /\ \A y \in T : h[y] <= b + h[x]
      BY <3>2
    <3> QED BY <3>3
  <2> QED BY <2>1, <2>2
<1> HIDE DEF P
<1>2. \A T \in SUBSET D : T \in P
  BY <1>1, BySubsets
<1> QED BY <1>2 DEF P

(* The sum over a set is that over a part and that over the others.        *)
LEMMA SumSplits ==
    ASSUME NEW D, IsFiniteSet(D), NEW h, \A x \in D : h[x] \in Int, NEW A \in SUBSET D
    PROVE  SumFunctionOnSet(h, D) = SumFunctionOnSet(h, A) + SumFunctionOnSet(h, D \ A)
<1> DEFINE H(T) == SumFunctionOnSet(h, T)
           P == {T \in SUBSET D : H(T) = H(T \cap A) + H(T \ A)}
<1>0. \A T \in SUBSET D : H(T) \in Int
  BY SumIsInt
<1>1. ASSUME NEW T \in SUBSET D, \A x \in T : T \ {x} \in P PROVE H(T) = H(T \cap A) + H(T \ A)
  <2>1. CASE T = {}
    <3>1. T \cap A = {} /\ T \ A = {}
      BY <2>1
    <3>2. H({}) = 0
      BY SumOfEmpty
    <3> HIDE DEF H
    <3> QED BY <2>1, <3>1, <3>2
  <2>2. CASE T # {}
    <3>1. PICK x \in T : TRUE
      BY <2>2
    <3> DEFINE U == T \ {x}
    <3>2. H(T) = h[x] + H(U) /\ H(U) = H(U \cap A) + H(U \ A)
      BY <1>1, SumTakes
    <3>3. H(U \cap A) \in Int /\ H(U \ A) \in Int /\ h[x] \in Int
      BY <1>0
    <3>4. CASE x \in A
      <4>1. U \ A = T \ A /\ U \cap A = (T \cap A) \ {x} /\ x \in T \cap A
        BY <3>4
      <4>2. H(T \cap A) = h[x] + H(U \cap A)
        BY <4>1, SumTakes
      <4>3. H(U \ A) = H(T \ A)
        BY <4>1
      <4> HIDE DEF H, U
      <4> QED BY <3>2, <3>3, <4>2, <4>3
    <3>5. CASE x \notin A
      <4>1. U \cap A = T \cap A /\ U \ A = (T \ A) \ {x} /\ x \in T \ A
        BY <3>5
      <4>2. H(T \ A) = h[x] + H(U \ A)
        BY <4>1, SumTakes
      <4>3. H(U \cap A) = H(T \cap A)
        BY <4>1
      <4> HIDE DEF H, U
      <4> QED BY <3>2, <3>3, <4>2, <4>3
    <3> QED BY <3>4, <3>5
  <2> QED BY <2>1, <2>2
<1>2. \A T \in SUBSET D : (\A x \in T : T \ {x} \in P) => T \in P
  BY <1>1
<1> HIDE DEF P
<1>3. D \in P
  <2>1. \A T \in SUBSET D : T \in P
    BY <1>2, BySubsets
  <2> QED BY <2>1
<1>4. D \cap A = A
  OBVIOUS
<1> QED BY <1>3, <1>4 DEF P

(* A sum of numbers from 0 on is one.                                      *)
LEMMA SumIsNat ==
    ASSUME NEW D, IsFiniteSet(D), NEW h, \A x \in D : h[x] \in Nat
    PROVE  SumFunctionOnSet(h, D) \in Nat
<1> DEFINE z == [x \in D |-> 0]
<1>1. \A x \in D : z[x] \in Int /\ h[x] \in Int /\ z[x] <= h[x] /\ z[x] = 0
  OBVIOUS
<1> HIDE DEF z
<1>2. SumFunctionOnSet(z, D) <= SumFunctionOnSet(h, D)
  BY <1>1, SumOfLess
<1>3. SumFunctionOnSet(z, D) = SumFunctionOnSet(z, {})
  BY <1>1, SumOfPart
<1>4. SumFunctionOnSet(z, {}) = 0 /\ SumFunctionOnSet(h, D) \in Int
  BY SumOfEmpty, SumIsInt
<1> QED BY <1>2, <1>3, <1>4

(* Ranges that share no line and each hold no more than a measure grew by  *)
(* over their lines hold together no more than the measure has reached.    *)
LEMMA RangesAddUp ==
    ASSUME NEW N \in Nat, NEW G, \A n \in 0..N : G[n] \in Nat,
           \A n \in 1..N : G[n - 1] <= G[n],
           NEW T, IsFiniteSet(T), NEW a, NEW k, NEW u,
           \A t \in T : /\ a[t] \in Nat /\ k[t] \in Nat /\ 1 <= a[t] /\ a[t] <= k[t] /\ k[t] <= N
                        /\ u[t] \in Nat /\ u[t] + G[a[t] - 1] <= G[k[t]],
           \A s, t \in T : s # t => k[s] < a[t] \/ k[t] < a[s]
    PROVE  SumFunctionOnSet(u, T) <= G[N]
<1> DEFINE S(U) == SumFunctionOnSet(u, U)
           Within(n) == \A U \in SUBSET T : (\A t \in U : k[t] <= n) => S(U) <= G[n]
           bad == {n \in 0..N : ~Within(n)}
<1>0. \A U \in SUBSET T : S(U) \in Int
  BY SumIsInt
<1>1. S({}) = 0
  BY SumOfEmpty
<1>2. bad = {}
  <2> SUFFICES ASSUME bad # {} PROVE FALSE
    OBVIOUS
  <2> DEFINE m == Min(bad)
  <2>1. m \in bad /\ \A n \in bad : m <= n
    <3>1. bad \in SUBSET Nat
      OBVIOUS
    <3> HIDE DEF bad
    <3> QED BY <3>1, LeastIsIn
  <2> HIDE DEF m
  <2>2. m \in 0..N /\ ~Within(m) /\ \A n \in 0..N : n < m => Within(n)
    <3>1. \A n \in 0..N : n < m => n \notin bad
      BY <2>1
    <3> QED BY <2>1, <3>1
  <2>3. PICK U \in SUBSET T : (\A t \in U : k[t] <= m) /\ ~(S(U) <= G[m])
    BY <2>2
  <2>4. CASE \A t \in U : k[t] < m
    <3>1. CASE m = 0
      <4>1. U = {}
        BY <2>4, <3>1
      <4> QED BY <1>1, <2>2, <2>3, <3>1, <4>1
    <3>2. CASE m # 0
      <4>1. m - 1 \in 0..N /\ m \in 1..N /\ m - 1 < m
        BY <2>2, <3>2
      <4>2. Within(m - 1) /\ G[m - 1] <= G[m] /\ G[m - 1] \in Nat /\ G[m] \in Nat
        BY <2>2, <4>1
      <4>3. \A t \in U : k[t] <= m - 1
        BY <2>2, <2>4
      <4>4. S(U) <= G[m - 1] /\ S(U) \in Int
        BY <1>0, <4>2, <4>3
      <4> HIDE DEF S, Within
      <4> QED BY <2>3, <4>2, <4>4
    <3> QED BY <3>1, <3>2
  <2>5. ASSUME NEW t \in U, ~(k[t] < m) PROVE FALSE
    <3> DEFINE V == U \ {t}
    <3>1. k[t] = m /\ a[t] - 1 \in 0..N /\ a[t] - 1 < m /\ a[t] \in Nat
      BY <2>2, <2>3, <2>5
    <3>2. \A s \in V : k[s] <= a[t] - 1
      <4> SUFFICES ASSUME NEW s \in V PROVE k[s] <= a[t] - 1
        OBVIOUS
      <4>1. s \in T /\ t \in T /\ s # t /\ k[s] <= m /\ a[s] <= k[s] /\ k[s] \in Nat /\ a[s] \in Nat
        BY <2>3
      <4>2. k[s] < a[t]
        BY <2>2, <3>1, <4>1
      <4> QED BY <3>1, <4>1, <4>2
    <3>3. V \in SUBSET T /\ Within(a[t] - 1)
      BY <2>2, <3>1
    <3>4. S(V) <= G[a[t] - 1] /\ S(V) \in Int
      <4> HIDE DEF V
      <4> QED BY <1>0, <3>2, <3>3
    <3>5. S(U) = u[t] + S(V)
      BY SumTakes
    <3>6. u[t] \in Nat /\ u[t] + G[a[t] - 1] <= G[m] /\ G[a[t] - 1] \in Nat /\ G[m] \in Nat
      BY <3>1, <2>2
    <3> HIDE DEF S, V
    <3> QED BY <2>3, <3>4, <3>5, <3>6
  <2> QED BY <2>4, <2>5
<1>3. Within(N)
  BY <1>2
<1>4. \A t \in T : k[t] <= N
  OBVIOUS
<1> QED BY <1>3, <1>4

-----------------------------------------------------------------------------
(* The history: what the lines of a session add up to, line by line.       *)

\* what is read of each line of a session
Feeding(F, lines, first) ==
    F = [n \in 0..Len(lines) |-> IF n = 0 THEN Unread ELSE Feed(F[n - 1], lines[n], n, first)]

\* what is read of the first k lines
FedUpTo(lines, first, k) == (CHOOSE F : Feeding(F, lines, first))[k]

(* Reading comes to an end: every line is read after the one before        *)
(* (history.py, LocalHistory.read's loop).                                 *)
LEMMA FeedingExists ==
    ASSUME NEW lines, Len(lines) \in Nat, NEW first
    PROVE  Feeding(CHOOSE F : Feeding(F, lines, first), lines, first)
<1> DEFINE n == Len(lines)
           Is(g, k) == g = [i \in 0..k |-> IF i = 0 THEN Unread
                                           ELSE Feed(g[i - 1], lines[i], i, first)]
           S == {k \in 0..n : \E g : Is(g, k)}
<1>1. 0 \in S
  <2> DEFINE g == [i \in 0..0 |-> Unread]
  <2>1. \A i \in 0..0 : i = 0
    OBVIOUS
  <2>2. Is(g, 0)
    BY <2>1
  <2>3. 0 \in 0..n
    OBVIOUS
  <2> HIDE DEF Is
  <2> QED BY <2>2, <2>3
<1>2. ASSUME NEW k \in 1..n, k - 1 \in S PROVE k \in S
  <2>1. PICK g : Is(g, k - 1)
    BY <1>2
  <2> DEFINE at == [i \in 0..k |-> IF i = k THEN Feed(g[k - 1], lines[k], k, first) ELSE g[i]]
  <2>2. ASSUME NEW i \in 0..k
        PROVE  at[i] = IF i = 0 THEN Unread ELSE Feed(at[i - 1], lines[i], i, first)
    <3>1. CASE i = k
      <4>1. k - 1 \in 0..k /\ k - 1 # k /\ i # 0
        BY <3>1
      <4>2. at[k - 1] = g[k - 1]
        BY <4>1
      <4> QED BY <3>1, <4>1, <4>2
    <3>2. CASE i # k
      <4>1. i \in 0..k-1 /\ (i # 0 => i - 1 \in 0..k /\ i - 1 # k)
        BY <3>2
      <4>2. g[i] = IF i = 0 THEN Unread ELSE Feed(g[i - 1], lines[i], i, first)
        BY <2>1, <4>1
      <4>3. at[i] = g[i] /\ (i # 0 => at[i - 1] = g[i - 1])
        BY <3>2, <4>1
      <4> QED BY <4>2, <4>3
    <3> QED BY <3>1, <3>2
  <2>3. Is(at, k)
    <3> DEFINE bt == [i \in 0..k |-> IF i = 0 THEN Unread ELSE Feed(at[i - 1], lines[i], i, first)]
    <3>1. \A i \in 0..k : at[i] = bt[i]
      BY <2>2
    <3>2. at = bt
      BY <3>1
    <3> QED BY <3>2
  <2>4. k \in 0..n
    OBVIOUS
  <2> HIDE DEF Is
  <2> QED BY <2>3, <2>4
<1> HIDE DEF S, n
<1>3. \A k \in 0..n : k \in S
  BY <1>1, <1>2, UpTo DEF n
<1> USE DEF n
<1>4. \E F : Feeding(F, lines, first)
  BY <1>3 DEF S, Feeding
<1> QED BY <1>4

(* What is read of a range is what is read of the lines up to its last.    *)
LEMMA FedIs ==
    ASSUME NEW lines, NEW first, NEW last
    PROVE  Fed(lines, first, last) = FedUpTo(lines, first, Least(last, Len(lines)))
BY Zenon DEF Fed, FedUpTo, Feeding

(* Nothing is read at first, and then one line after the other.            *)
LEMMA FedStep ==
    ASSUME NEW lines, Len(lines) \in Nat, NEW first
    PROVE  /\ FedUpTo(lines, first, 0) = Unread
           /\ \A k \in 1..Len(lines) :
                 FedUpTo(lines, first, k) = Feed(FedUpTo(lines, first, k - 1), lines[k], k, first)
<1> DEFINE F == CHOOSE G : Feeding(G, lines, first)
<1>1. Feeding(F, lines, first)
  BY FeedingExists
<1>2. F = [n \in 0..Len(lines) |-> IF n = 0 THEN Unread ELSE Feed(F[n - 1], lines[n], n, first)]
  BY <1>1 DEF Feeding
<1> HIDE DEF F
<1>3. F[0] = Unread /\ \A k \in 1..Len(lines) : F[k] = Feed(F[k - 1], lines[k], k, first)
  BY <1>2
<1> QED BY <1>3 DEF FedUpTo, F

(* What is read of the first lines does not depend on those that follow: a *)
(* session that goes on says the same of what it said before.              *)
LEMMA FedOfPrefix ==
    ASSUME NEW a, NEW b, Len(a) \in Nat, Len(b) \in Nat, NEW first, NEW k \in 0..Len(a),
           k <= Len(b), \A i \in 1..k : a[i] = b[i]
    PROVE  FedUpTo(a, first, k) = FedUpTo(b, first, k)
<1> DEFINE S == {i \in 0..k : FedUpTo(a, first, i) = FedUpTo(b, first, i)}
<1>1. 0 \in S
  BY FedStep
<1>2. ASSUME NEW i \in 1..k, i - 1 \in S PROVE i \in S
  <2>1. i \in 1..Len(a) /\ i \in 1..Len(b) /\ i \in 0..k
    OBVIOUS
  <2>2. /\ FedUpTo(a, first, i) = Feed(FedUpTo(a, first, i - 1), a[i], i, first)
        /\ FedUpTo(b, first, i) = Feed(FedUpTo(b, first, i - 1), b[i], i, first)
    BY <2>1, FedStep
  <2> QED BY <1>2, <2>1, <2>2
<1> HIDE DEF S
<1>3. \A i \in 0..k : i \in S
  BY <1>1, <1>2, UpTo
<1> QED BY <1>3 DEF S

\* the count that is current: the last of the range, or before it
Current(s) == IF s.last # None THEN s.last ELSE s.initial

\* what line n adds to what is read, for a range that begins at line first:
\* to the uses, a turn or an answer of the range; to the counts, a count or a
\* summary; and issues, which are never taken back
Adds(s, r, e, n, first) ==
    LET inside == n >= first /\ e.kind # "broken"
    IN /\ DOMAIN r = DOMAIN Unread
       /\ s.issues \subseteq r.issues
       /\ ~(inside /\ e.kind \in {"turn", "message"}) => r.uses = s.uses
       /\ inside /\ e.kind = "turn" => r.uses = Put(s.uses, KeyOf(e, n), e.use)
       /\ inside /\ e.kind = "message" =>
             r.uses = s.uses \/ (e.id # None /\ r.uses = Put(s.uses, e.id, e.use))
       /\ ~(inside /\ e.kind \in {"count", "result"}) => r.last = s.last
       /\ inside /\ e.kind \in {"count", "result"} => r.last = e.use
       /\ inside /\ e.kind = "result" /\ first > 1 =>
             "session_summary_cannot_be_sliced" \in r.issues
       /\ r.initial = IF e.kind = "count" /\ ~(n >= first) THEN e.use ELSE s.initial
       /\ e.kind = "count" /\ Current(s) # None /\ e.use < Current(s) =>
             "usage_counter_regressed" \in r.issues

(* What a line adds to what is read (host_events.py, feed).                *)
LEMMA FeedAdds ==
    ASSUME NEW s, DOMAIN s = DOMAIN Unread, NEW e, NEW n \in Nat, NEW first \in Nat
    PROVE  Adds(s, Feed(s, e, n, first), e, n, first)
<1> USE DEF Adds
<1> DEFINE D == DOMAIN Unread
           Same(q, r) == /\ DOMAIN r = D /\ q.issues \subseteq r.issues
                         /\ r.uses = q.uses /\ r.last = q.last /\ r.initial = q.initial
<1>0. {"issues", "uses", "last", "initial", "complete", "models", "started", "prompts", "outputs"} = D
  BY DEF Unread
<1>1. ASSUME NEW q, DOMAIN q = D, NEW issue
      PROVE  Same(q, Raise(q, issue)) /\ issue \in Raise(q, issue).issues
  BY <1>0, <1>1 DEF Raise
<1>2. ASSUME NEW q, DOMAIN q = D, NEW previous, NEW use
      PROVE  /\ Same(q, CheckUsage(q, previous, use))
             /\ previous # None /\ use < previous =>
                   "usage_counter_regressed" \in CheckUsage(q, previous, use).issues
  BY <1>1, <1>2 DEF CheckUsage
<1> DEFINE t == CheckUsage(s, Current(s), e.use)
           c == IF n >= first THEN [t EXCEPT !.last = e.use] ELSE [t EXCEPT !.initial = e.use]
           b == IF e.kind = "count" THEN c ELSE s
           m == [b EXCEPT !.models = @ \cup ({e.model} \ {None})]
           d == Decoded(m, e, n, first > 1)
<1>3. Feed(s, e, n, first) = IF e.kind = "broken" THEN Raise(s, "invalid_or_partial_event")
                             ELSE IF n < first THEN b ELSE d
  BY Zenon DEF Feed, Counted, Current
<1>4. /\ Same(s, t)
      /\ Current(s) # None /\ e.use < Current(s) => "usage_counter_regressed" \in t.issues
  BY <1>2
<1> HIDE DEF t
<1>5. CASE e.kind = "broken"
  BY <1>1, <1>3, <1>5
<1>6. e.kind # "broken" =>
        /\ DOMAIN b = D /\ s.issues \subseteq b.issues /\ b.uses = s.uses
        /\ b.last = IF e.kind = "count" /\ n >= first THEN e.use ELSE s.last
        /\ b.initial = IF e.kind = "count" /\ ~(n >= first) THEN e.use ELSE s.initial
        /\ e.kind = "count" /\ Current(s) # None /\ e.use < Current(s) =>
              "usage_counter_regressed" \in b.issues
  BY <1>0, <1>4
<1> HIDE DEF b
<1>7. CASE e.kind # "broken" /\ n < first
  <2>1. Feed(s, e, n, first) = b /\ ~(n >= first)
    BY <1>3, <1>7
  <2> QED BY <1>6, <1>7, <2>1
<1>8. CASE e.kind # "broken" /\ n >= first
  <2>1. Feed(s, e, n, first) = d
    BY <1>3, <1>8
  <2>2. DOMAIN m = D /\ m.issues = b.issues /\ m.uses = b.uses /\ m.last = b.last /\ m.initial = b.initial
    BY <1>0, <1>6, <1>8
  <2> HIDE DEF m
  <2>3. CASE e.kind = "turn"
    <3>1. d = [m EXCEPT !.complete = TRUE, !.uses = Put(@, KeyOf(e, n), e.use)]
      BY <2>3 DEF Decoded
    <3> HIDE DEF d
    <3> QED BY <1>0, <1>6, <1>8, <2>1, <2>2, <2>3, <3>1
  <2>4. CASE e.kind = "message"
    <3> DEFINE before == IF e.id \in DOMAIN m.uses THEN m.uses[e.id] ELSE None
               q == CheckUsage(m, before, e.use)
    <3>1. d = IF e.id = None THEN Raise(m, "message_identity_missing")
              ELSE [q EXCEPT !.uses = Put(m.uses, e.id, e.use), !.complete = e.fine]
      BY <2>4 DEF Decoded, Message
    <3>2. Same(m, Raise(m, "message_identity_missing")) /\ Same(m, q)
      BY <1>1, <1>2, <2>2
    <3> HIDE DEF d, q
    <3> QED BY <1>0, <1>6, <1>8, <2>1, <2>2, <2>4, <3>1, <3>2
  <2>5. CASE e.kind = "result"
    <3> DEFINE q == CheckUsage(m, Total(m.uses), e.use)
               more == (IF first > 1 THEN {"session_summary_cannot_be_sliced"} ELSE {})
               worse == (IF e.fine THEN {} ELSE {"host_reported_error"})
    <3>1. d = [q EXCEPT !.last = e.use, !.complete = e.fine, !.issues = @ \cup more \cup worse]
      BY <2>5 DEF Decoded, Summary
    <3>2. Same(m, q)
      BY <1>2, <2>2
    <3> HIDE DEF d, q, worse
    <3> QED BY <1>0, <1>6, <1>8, <2>1, <2>2, <2>5, <3>1, <3>2
  <2>6. CASE e.kind \notin {"turn", "message", "result"}
    <3>1. d \in {[m EXCEPT !.started = TRUE, !.complete = FALSE],
                 [m EXCEPT !.started = TRUE, !.complete = FALSE, !.prompts = @ + 1],
                 [m EXCEPT !.complete = TRUE], [m EXCEPT !.complete = FALSE],
                 [m EXCEPT !.outputs = Put(@, KeyOf(e, n), e.run)],
                 Raise(m, "unattributed_or_unreadable"), m}
      BY <2>6 DEF Decoded
    <3>2. Same(m, Raise(m, "unattributed_or_unreadable"))
      BY <1>1, <2>2
    <3> HIDE DEF d
    <3>3. Same(m, d)
      BY <1>0, <2>2, <3>1, <3>2
    <3> QED BY <1>6, <1>8, <2>1, <2>2, <2>6, <3>3
  <2> QED BY <2>3, <2>4, <2>5, <2>6
<1> QED BY <1>5, <1>7, <1>8

(* Every line adds to what the lines before it said (history.py, the loop  *)
(* of LocalHistory.read).                                                  *)
LEMMA FedAdds ==
    ASSUME NEW L, Len(L) \in Nat, NEW a \in Nat
    PROVE  /\ FedUpTo(L, a, 0) = Unread
           /\ \A n \in 1..Len(L) : Adds(FedUpTo(L, a, n - 1), FedUpTo(L, a, n), L[n], n, a)
<1> DEFINE s(n) == FedUpTo(L, a, n)
           S == {n \in 0..Len(L) : DOMAIN s(n) = DOMAIN Unread}
<1>1. s(0) = Unread /\ \A n \in 1..Len(L) : s(n) = Feed(s(n - 1), L[n], n, a)
  BY FedStep
<1> HIDE DEF s
<1>2. \A n \in 1..Len(L) : n - 1 \in S => Adds(s(n - 1), s(n), L[n], n, a)
  BY <1>1, FeedAdds
<1>3. 0 \in S /\ \A n \in 1..Len(L) : n - 1 \in S => n \in S
  BY <1>1, <1>2 DEF Adds
<1> HIDE DEF S
<1>4. \A n \in 0..Len(L) : n \in S
  BY <1>3, UpTo
<1> QED BY <1>1, <1>2, <1>4 DEF s

(* No issue is taken back by a later line (host_events.py, feed).          *)
LEMMA IssuesStay ==
    ASSUME NEW L, Len(L) \in Nat, NEW a \in Nat, NEW k \in 0..Len(L)
    PROVE  \A n \in 0..k : FedUpTo(L, a, n).issues \subseteq FedUpTo(L, a, k).issues
<1> DEFINE s(n) == FedUpTo(L, a, n)
           S == {i \in 0..k : s(k - i).issues \subseteq s(k).issues}
<1>1. 0 \in S
  OBVIOUS
<1>2. ASSUME NEW i \in 1..k, i - 1 \in S PROVE i \in S
  <2>1. k - (i - 1) \in 1..Len(L) /\ (k - (i - 1)) - 1 = k - i
    OBVIOUS
  <2>2. s(k - i).issues \subseteq s(k - (i - 1)).issues
    BY <2>1, FedAdds DEF Adds
  <2> QED BY <1>2, <2>2
<1> HIDE DEF S
<1>3. \A i \in 0..k : i \in S
  BY <1>1, <1>2, UpTo
<1> SUFFICES ASSUME NEW n \in 0..k PROVE s(n).issues \subseteq s(k).issues
  OBVIOUS
<1>4. k - n \in 0..k /\ k - (k - n) = n
  OBVIOUS
<1> QED BY <1>3, <1>4 DEF S

\* line j is where the use of x comes from
Tells(L, a, n, x, v, j) ==
    /\ j \in 1..n /\ a <= j
    /\ L[j].kind \in {"turn", "message"} /\ (L[j].kind = "message" => L[j].id # None)
    /\ KeyOf(L[j], j) = x /\ v = L[j].use

(* Every use that is added up is told by a line of the range: a turn's, or *)
(* an answer's that has an id (host_events.py, feed: self.usages).         *)
LEMMA UsesAreTold ==
    ASSUME NEW L, Len(L) \in Nat, NEW a \in Nat
    PROVE  \A n \in 0..Len(L) : LET uses == FedUpTo(L, a, n).uses
                                IN \A x \in DOMAIN uses : \E j : Tells(L, a, n, x, uses[x], j)
<1> DEFINE U(n) == FedUpTo(L, a, n).uses
           Told(n) == \A x \in DOMAIN U(n) : \E j : Tells(L, a, n, x, U(n)[x], j)
           S == {n \in 0..Len(L) : Told(n)}
<1>1. 0 \in S
  BY FedAdds DEF Unread
<1>2. ASSUME NEW n \in 1..Len(L), n - 1 \in S PROVE n \in S
  <2> DEFINE e == L[n]
  <2>0. Told(n - 1)
    BY <1>2
  <2>1. Adds(FedUpTo(L, a, n - 1), FedUpTo(L, a, n), e, n, a)
    BY FedAdds
  <2>2. \/ U(n) = U(n - 1)
        \/ /\ a <= n /\ e.kind \in {"turn", "message"} /\ (e.kind = "message" => e.id # None)
           /\ U(n) = Put(U(n - 1), KeyOf(e, n), e.use)
    BY <2>1 DEF Adds, KeyOf
  <2> HIDE DEF U
  <2>3. ASSUME NEW x \in DOMAIN U(n) PROVE \E j : Tells(L, a, n, x, U(n)[x], j)
    <3>1. CASE x \in DOMAIN U(n - 1) /\ U(n)[x] = U(n - 1)[x]
      <4>1. PICK j : Tells(L, a, n - 1, x, U(n - 1)[x], j)
        BY <2>0, <3>1
      <4>2. Tells(L, a, n, x, U(n)[x], j)
        BY <3>1, <4>1 DEF Tells
      <4> QED BY <4>2
    <3>2. CASE ~(x \in DOMAIN U(n - 1) /\ U(n)[x] = U(n - 1)[x])
      <4>1. /\ a <= n /\ e.kind \in {"turn", "message"} /\ (e.kind = "message" => e.id # None)
            /\ x = KeyOf(e, n) /\ U(n)[x] = e.use
        BY <2>2, <3>2 DEF Put
      <4>2. Tells(L, a, n, x, U(n)[x], n)
        BY <4>1 DEF Tells
      <4> QED BY <4>2
    <3> QED BY <3>1, <3>2
  <2> QED BY <2>3
<1> HIDE DEF S
<1>3. \A n \in 0..Len(L) : n \in S
  BY <1>1, <1>2, UpTo
<1> QED BY <1>3 DEF S

\* line j is a summary that the range ends up with, and may have
SummedUp(L, a, n, v, j) == j \in 1..n /\ a <= j /\ L[j].kind = "result" /\ v = L[j].use /\ ~(a > 1)

(* Where nothing is counted and no issue raised, what is read last is a    *)
(* summary, of a range that begins with the session (host_events.py, feed: *)
(* self.cumulative).                                                       *)
LEMMA SummaryIs ==
    ASSUME NEW L, Len(L) \in Nat, NEW a \in Nat, \A n \in 1..Len(L) : L[n].kind # "count",
           NEW k \in 0..Len(L), FedUpTo(L, a, k).issues = {}
    PROVE  \A n \in 0..k : LET s == FedUpTo(L, a, n)
                           IN /\ s.initial = None
                              /\ s.last = None \/ \E j : SummedUp(L, a, n, s.last, j)
<1> DEFINE s(n) == FedUpTo(L, a, n)
           Is(n) == s(n).initial = None /\ (s(n).last = None \/ \E j : SummedUp(L, a, n, s(n).last, j))
           S == {n \in 0..k : Is(n)}
<1>0. \A n \in 0..k : s(n).issues = {}
  BY IssuesStay
<1>1. 0 \in S
  BY FedAdds DEF Unread
<1>2. ASSUME NEW n \in 1..k, n - 1 \in S PROVE n \in S
  <2> DEFINE e == L[n]
  <2>0. Is(n - 1) /\ n \in 1..Len(L) /\ s(n).issues = {}
    BY <1>0, <1>2
  <2>1. Adds(s(n - 1), s(n), e, n, a)
    BY <2>0, FedAdds
  <2>2. s(n).initial = None
    BY <2>0, <2>1 DEF Adds
  <2>3. \/ s(n).last = s(n - 1).last
        \/ e.kind = "result" /\ a <= n /\ s(n).last = e.use /\ ~(a > 1)
    BY <2>0, <2>1 DEF Adds
  <2> HIDE DEF s
  <2>4. s(n).last = None \/ \E j : SummedUp(L, a, n, s(n).last, j)
    <3>1. CASE s(n).last = s(n - 1).last
      <4>1. ASSUME NEW j, SummedUp(L, a, n - 1, s(n - 1).last, j) PROVE SummedUp(L, a, n, s(n).last, j)
        BY <3>1, <4>1 DEF SummedUp
      <4> QED BY <2>0, <3>1, <4>1
    <3>2. CASE e.kind = "result" /\ a <= n /\ s(n).last = e.use /\ ~(a > 1)
      <4>1. SummedUp(L, a, n, s(n).last, n)
        BY <3>2 DEF SummedUp
      <4> QED BY <4>1
    <3> QED BY <2>3, <3>1, <3>2
  <2> QED BY <2>2, <2>4
<1> HIDE DEF S
<1>3. \A n \in 0..k : n \in S
  <2>1. k \in Nat
    OBVIOUS
  <2> QED BY <1>1, <1>2, <2>1, UpTo
<1> QED BY <1>3 DEF S

\* the count that is current after n lines: the last one before a range beyond the end
CountAt(L, n) == FedUpTo(L, Len(L) + 1, n).initial

(* Where no summary is written, the current count is that of the lines so  *)
(* far, wherever the range begins, and that before the range stays         *)
(* (host_events.py, feed: self.cumulative or self.initial).                *)
LEMMA CurrentIs ==
    ASSUME NEW L, Len(L) \in Nat, \A n \in 1..Len(L) : L[n].kind # "result" /\ L[n].use # None,
           NEW a \in Nat, a # 0
    PROVE  \A n \in 0..Len(L) : LET s == FedUpTo(L, a, n)
                                IN /\ Current(s) = CountAt(L, n)
                                   /\ n < a => s.last = None
                                   /\ n >= a => s.initial = CountAt(L, a - 1)
<1> DEFINE N == Len(L)
           Goes1(b, n) == Current(FedUpTo(L, b, n)) = IF L[n].kind = "count" THEN L[n].use
                                                      ELSE Current(FedUpTo(L, b, n - 1))
<1>1. ASSUME NEW b \in Nat, b # 0
      PROVE  \A n \in 0..N : /\ n < b => FedUpTo(L, b, n).last = None
                             /\ n # 0 => Goes1(b, n)
                             /\ n # 0 /\ n >= b => FedUpTo(L, b, n).initial = FedUpTo(L, b, n - 1).initial
  <2> DEFINE s(n) == FedUpTo(L, b, n)
             Is(n) == /\ n < b => s(n).last = None
                      /\ n # 0 => Goes1(b, n)
                      /\ n # 0 /\ n >= b => s(n).initial = s(n - 1).initial
             S == {n \in 0..N : Is(n)}
  <2>1. 0 \in S
    BY FedAdds DEF Unread
  <2>2. ASSUME NEW n \in 1..N, n - 1 \in S PROVE n \in S
    <3> DEFINE e == L[n]
    <3>0. (n - 1 < b => s(n - 1).last = None) /\ e.kind # "result" /\ e.use # None
      BY <2>2
    <3>1. Adds(s(n - 1), s(n), e, n, b)
      BY FedAdds
    <3> HIDE DEF s, e
    <3>2. n < b => s(n).last = None
      BY <3>0, <3>1 DEF Adds
    <3>3. n >= b => s(n).initial = s(n - 1).initial
      BY <3>1 DEF Adds
    <3>4. Current(s(n)) = IF e.kind = "count" THEN e.use ELSE Current(s(n - 1))
      <4>1. CASE e.kind # "count"
        BY <3>0, <3>1, <4>1 DEF Adds, Current
      <4>2. CASE e.kind = "count" /\ n >= b
        BY <3>0, <3>1, <4>2 DEF Adds, Current
      <4>3. CASE e.kind = "count" /\ ~(n >= b)
        BY <3>0, <3>1, <3>2, <4>3 DEF Adds, Current
      <4> QED BY <4>1, <4>2, <4>3
    <3> QED BY <3>2, <3>3, <3>4 DEF s, e
  <2> HIDE DEF S
  <2>3. \A n \in 0..N : n \in S
    BY <2>1, <2>2, UpTo
  <2> QED BY <2>3 DEF S
<1> DEFINE z(n) == FedUpTo(L, N + 1, n)
           s(n) == FedUpTo(L, a, n)
<1>2. \A n \in 0..N : z(n).last = None
  <2>1. N + 1 \in Nat /\ N + 1 # 0
    OBVIOUS
  <2> QED BY <1>1, <2>1
<1>3. \A n \in 0..N : Current(z(n)) = CountAt(L, n)
  BY <1>2 DEF Current, CountAt
<1>4. \A n \in 0..N : Current(s(n)) = CountAt(L, n)
  <2> DEFINE S == {n \in 0..N : Current(s(n)) = Current(z(n))}
  <2>1. 0 \in S
    <3>1. N + 1 \in Nat
      OBVIOUS
    <3>2. s(0) = Unread /\ z(0) = Unread
      BY <3>1, FedAdds
    <3> QED BY <3>2
  <2>2. ASSUME NEW n \in 1..N, n - 1 \in S PROVE n \in S
    <3>1. N + 1 \in Nat /\ N + 1 # 0 /\ n \in 0..N /\ n # 0
      OBVIOUS
    <3>2. Goes1(a, n) /\ Goes1(N + 1, n)
      BY <1>1, <3>1
    <3> QED BY <2>2, <3>2
  <2> HIDE DEF S
  <2>3. \A n \in 0..N : n \in S
    BY <2>1, <2>2, UpTo
  <2> QED BY <1>3, <2>3 DEF S
<1>5. \A n \in 0..N : n >= a => s(n).initial = CountAt(L, a - 1)
  <2> DEFINE S == {n \in 0..N : n >= a => s(n).initial = CountAt(L, a - 1)}
  <2>1. 0 \in S
    OBVIOUS
  <2>2. ASSUME NEW n \in 1..N, n - 1 \in S PROVE n \in S
    <3> SUFFICES ASSUME n >= a PROVE s(n).initial = CountAt(L, a - 1)
      OBVIOUS
    <3>1. s(n).initial = s(n - 1).initial
      BY <1>1
    <3>2. CASE n - 1 >= a
      BY <2>2, <3>1, <3>2
    <3>3. CASE ~(n - 1 >= a)
      <4>1. n - 1 = a - 1 /\ a - 1 \in 0..N /\ a - 1 < a
        BY <3>3
      <4>2. s(a - 1).last = None
        BY <1>1, <4>1
      <4>3. s(a - 1).initial = CountAt(L, a - 1)
        BY <1>4, <4>1, <4>2 DEF Current
      <4> QED BY <3>1, <4>1, <4>3
    <3> QED BY <3>2, <3>3
  <2> HIDE DEF S
  <2>3. \A n \in 0..N : n \in S
    BY <2>1, <2>2, UpTo
  <2> QED BY <2>3 DEF S
<1> QED BY <1>1, <1>4, <1>5

\* the runs a session may name, and its lines
Nameable == Runs \cup UNION {{s[n].run : n \in DOMAIN s} : s \in Sessions}
\* a line whose numbers and names are such (decoding.py, usage)
Readable(e) == e.use \in Nat /\ e.model \in Models \cup {None} /\ e.run \in Nameable

\* what the decoder keeps of a session
Decoding(s) ==
    /\ DOMAIN s = DOMAIN Unread
    /\ s.models \subseteq Models
    /\ IsFiniteSet(DOMAIN s.uses) /\ \A k \in DOMAIN s.uses : s.uses[k] \in Nat
    /\ \A k \in DOMAIN s.outputs : s.outputs[k] \in Nameable
    /\ s.last \in Nat \cup {None} /\ s.initial \in Nat \cup {None}

(* A total of what is known is one (decoding.py, total).                   *)
LEMMA TotalIs ==
    ASSUME NEW uses, IsFiniteSet(DOMAIN uses), \A k \in DOMAIN uses : uses[k] \in Nat
    PROVE  Total(uses) \in Nat \cup {None}
<1> DEFINE D == DOMAIN uses
           zero == [k \in D |-> 0]
<1>1. SumFunctionOnSet(uses, D) \in Int
  BY SumIsInt
<1>2. SumFunctionOnSet(zero, D) = SumFunctionOnSet(zero, {})
  <2>1. \A k \in D : zero[k] = 0
    OBVIOUS
  <2> HIDE DEF zero, D
  <2>2. IsFiniteSet(D)
    BY DEF D
  <2> QED BY <2>1, <2>2, SumOfPart
<1>3. SumFunctionOnSet(zero, D) <= SumFunctionOnSet(uses, D)
  <2>1. \A k \in D : zero[k] \in Int /\ uses[k] \in Int /\ zero[k] <= uses[k]
    OBVIOUS
  <2>2. IsFiniteSet(D)
    OBVIOUS
  <2> HIDE DEF zero, D
  <2> QED BY <2>1, <2>2, SumOfLess
<1>4. SumFunctionOnSet(zero, {}) = 0
  BY SumOfEmpty
<1> HIDE DEF zero
<1>5. SumFunction(uses) \in Nat
  BY <1>1, <1>2, <1>3, <1>4 DEF SumFunction
<1> QED BY <1>5 DEF Total

(* What is kept of a session stays what it is, whatever line follows; and  *)
(* of lines before the range, none completes the task (host_events.py).    *)
LEMMA FeedKeeps ==
    ASSUME NEW s, Decoding(s), NEW e, Readable(e), NEW n, NEW first
    PROVE  Decoding(Feed(s, e, n, first))
<1>1. ASSUME NEW q, Decoding(q), NEW issue PROVE Decoding(Raise(q, issue))
  BY <1>1 DEF Decoding, Raise, Unread
<1>2. ASSUME NEW q, Decoding(q), NEW previous, NEW use PROVE Decoding(CheckUsage(q, previous, use))
  BY <1>1, <1>2 DEF CheckUsage
<1>3. e.use \in Nat /\ e.model \in Models \cup {None} /\ e.run \in Nameable
  BY DEF Readable
<1>4. ASSUME NEW included PROVE Decoding(Counted(s, e, included))
  <2> DEFINE t == CheckUsage(s, IF s.last # None THEN s.last ELSE s.initial, e.use)
  <2>1. Decoding(t)
    BY <1>2
  <2>2. Counted(s, e, included) =
           IF included THEN [t EXCEPT !.last = e.use] ELSE [t EXCEPT !.initial = e.use]
    BY DEF Counted
  <2> HIDE DEF t
  <2> QED BY <1>3, <2>1, <2>2 DEF Decoding, Unread
<1>5. ASSUME NEW f, IsFiniteSet(DOMAIN f), NEW x, NEW v
      PROVE  /\ IsFiniteSet(DOMAIN Put(f, x, v))
             /\ \A y \in DOMAIN Put(f, x, v) :
                   Put(f, x, v)[y] = v \/ (y \in DOMAIN f /\ Put(f, x, v)[y] = f[y])
  <2>1. DOMAIN Put(f, x, v) = DOMAIN f \cup {x}
    BY DEF Put
  <2>2. IsFiniteSet(DOMAIN f \cup {x})
    BY <1>5, FS_AddElement
  <2> QED BY <2>1, <2>2 DEF Put
<1>5a. ASSUME NEW f, NEW x, NEW v
       PROVE  \A y \in DOMAIN Put(f, x, v) :
                 Put(f, x, v)[y] = v \/ (y \in DOMAIN f /\ Put(f, x, v)[y] = f[y])
  BY DEF Put
<1>6. ASSUME NEW q, Decoding(q), NEW x
      PROVE  /\ IsFiniteSet(DOMAIN Put(q.uses, x, e.use))
             /\ \A y \in DOMAIN Put(q.uses, x, e.use) : Put(q.uses, x, e.use)[y] \in Nat
             /\ \A y \in DOMAIN Put(q.outputs, x, e.run) : Put(q.outputs, x, e.run)[y] \in Nameable
  <2>1. IsFiniteSet(DOMAIN q.uses) /\ \A k \in DOMAIN q.uses : q.uses[k] \in Nat
    BY <1>6 DEF Decoding
  <2>2. \A k \in DOMAIN q.outputs : q.outputs[k] \in Nameable
    BY <1>6 DEF Decoding
  <2> QED BY <1>3, <1>5, <1>5a, <2>1, <2>2
<1>7. ASSUME NEW q, Decoding(q), NEW sliced PROVE Decoding(Decoded(q, e, n, sliced))
  <2> DEFINE uses(x) == Put(q.uses, x, e.use)
             outputs(x) == Put(q.outputs, x, e.run)
  <2>1. \A x : /\ IsFiniteSet(DOMAIN uses(x)) /\ \A y \in DOMAIN uses(x) : uses(x)[y] \in Nat
               /\ \A y \in DOMAIN outputs(x) : outputs(x)[y] \in Nameable
    BY <1>6, <1>7
  <2> HIDE DEF uses, outputs
  <2>2. Decoding([q EXCEPT !.started = TRUE, !.complete = FALSE])
    BY <1>7 DEF Decoding, Unread
  <2>3. Decoding([q EXCEPT !.started = TRUE, !.complete = FALSE, !.prompts = @ + 1])
    BY <1>7 DEF Decoding, Unread
  <2>4. Decoding([q EXCEPT !.complete = TRUE]) /\ Decoding([q EXCEPT !.complete = FALSE])
    BY <1>7 DEF Decoding, Unread
  <2>5. ASSUME NEW x PROVE Decoding([q EXCEPT !.complete = TRUE, !.uses = uses(x)])
    BY <1>7, <2>1 DEF Decoding, Unread
  <2>6. ASSUME NEW x PROVE Decoding([q EXCEPT !.outputs = outputs(x)])
    BY <1>7, <2>1 DEF Decoding, Unread
  <2>7. Decoding(Message(q, e))
    <3> DEFINE before == IF e.id \in DOMAIN q.uses THEN q.uses[e.id] ELSE None
               t == CheckUsage(q, before, e.use)
               fine == e.fine
               x == e.id
    <3>1. Decoding(t)
      BY <1>2, <1>7
    <3>2. Message(q, e) = IF e.id = None THEN Raise(q, "message_identity_missing")
                          ELSE [t EXCEPT !.uses = uses(x), !.complete = fine]
      BY DEF Message, uses
    <3> HIDE DEF t, fine, x
    <3>3. Decoding([t EXCEPT !.uses = uses(x), !.complete = fine])
      BY <2>1, <3>1 DEF Decoding, Unread
    <3> QED BY <1>1, <1>7, <3>2, <3>3
  <2>8. Decoding(Summary(q, e, sliced))
    <3> DEFINE t == CheckUsage(q, Total(q.uses), e.use)
               fine == e.fine
               more == (IF sliced THEN {"session_summary_cannot_be_sliced"} ELSE {})
               worse == (IF e.fine THEN {} ELSE {"host_reported_error"})
               use == e.use
    <3>1. Decoding(t)
      BY <1>2, <1>7
    <3>2. Summary(q, e, sliced) = [t EXCEPT !.last = use, !.complete = fine,
                                            !.issues = @ \cup more \cup worse]
      BY DEF Summary
    <3>3. use \in Nat
      BY <1>3
    <3> HIDE DEF t, fine, more, worse, use
    <3> QED BY <3>1, <3>2, <3>3 DEF Decoding, Unread
  <2>9. Decoding(Raise(q, "unattributed_or_unreadable"))
    BY <1>1, <1>7
  <2>10. Decoded(q, e, n, sliced) \in
            {[q EXCEPT !.started = TRUE, !.complete = FALSE],
             [q EXCEPT !.started = TRUE, !.complete = FALSE, !.prompts = @ + 1],
             [q EXCEPT !.complete = TRUE], [q EXCEPT !.complete = FALSE],
             [q EXCEPT !.complete = TRUE, !.uses = uses(KeyOf(e, n))],
             [q EXCEPT !.outputs = outputs(KeyOf(e, n))],
             Message(q, e), Summary(q, e, sliced), Raise(q, "unattributed_or_unreadable"), q}
    BY DEF Decoded, uses, outputs
  <2> QED BY <1>7, <2>2, <2>3, <2>4, <2>5, <2>6, <2>7, <2>8, <2>9, <2>10
<1>8. ASSUME NEW q, Decoding(q) PROVE Decoding([q EXCEPT !.models = @ \cup ({e.model} \ {None})])
  BY <1>3, <1>8 DEF Decoding, Unread
<1> DEFINE t == IF e.kind = "count" THEN Counted(s, e, n >= first) ELSE s
<1>9. Decoding(t)
  BY <1>4
<1>10. Feed(s, e, n, first) =
          IF e.kind = "broken" THEN Raise(s, "invalid_or_partial_event")
          ELSE IF n < first THEN t
               ELSE Decoded([t EXCEPT !.models = @ \cup ({e.model} \ {None})], e, n, first > 1)
  BY DEF Feed
<1> HIDE DEF t
<1> QED BY <1>1, <1>7, <1>8, <1>9, <1>10

(* Lines before the range complete nothing (host_events.py, feed: only what *)
(* is included).                                                           *)
LEMMA FeedBefore ==
    ASSUME NEW s, Decoding(s), NEW e, NEW n, NEW first, n < first
    PROVE  Feed(s, e, n, first).complete = s.complete
<1>1. "complete" \in DOMAIN s /\ "issues" \in DOMAIN s /\ "last" \in DOMAIN s /\ "initial" \in DOMAIN s
  BY DEF Decoding, Unread
<1>2. ASSUME NEW q, DOMAIN q = DOMAIN s, NEW issue
      PROVE  Raise(q, issue).complete = q.complete /\ DOMAIN Raise(q, issue) = DOMAIN q
  BY <1>1, <1>2 DEF Raise
<1>3. ASSUME NEW q, DOMAIN q = DOMAIN s, NEW previous, NEW use
      PROVE  /\ CheckUsage(q, previous, use).complete = q.complete
             /\ DOMAIN CheckUsage(q, previous, use) = DOMAIN q
  BY <1>2, <1>3 DEF CheckUsage
<1>4. ASSUME NEW included PROVE Counted(s, e, included).complete = s.complete
  <2> DEFINE t == CheckUsage(s, IF s.last # None THEN s.last ELSE s.initial, e.use)
  <2>1. t.complete = s.complete /\ DOMAIN t = DOMAIN s
    BY <1>3
  <2>2. Counted(s, e, included) =
           IF included THEN [t EXCEPT !.last = e.use] ELSE [t EXCEPT !.initial = e.use]
    BY DEF Counted
  <2> HIDE DEF t
  <2> QED BY <1>1, <2>1, <2>2
<1> QED BY <1>2, <1>4 DEF Feed

(* Every session that may come is decoded as it should, however much of it *)
(* is read, and is not taken for complete before the range begins.         *)
LEMMA FedIsDecoding ==
    ASSUME NEW lines \in Sessions, NEW first \in Nat
    PROVE  /\ Len(lines) \in Nat
           /\ \A k \in 0..Len(lines) :
                 /\ Decoding(FedUpTo(lines, first, k))
                 /\ k < first => FedUpTo(lines, first, k).complete = FALSE
<1>1. Len(lines) \in Nat /\ DOMAIN lines = 1..Len(lines)
  BY MeasurementAssumption
<1>2. \A n \in 1..Len(lines) : Readable(lines[n])
  <2> SUFFICES ASSUME NEW n \in DOMAIN lines PROVE Readable(lines[n])
    BY <1>1
  <2>1. lines[n].use \in Nat /\ lines[n].model \in Models \cup {None}
    BY MeasurementAssumption
  <2>2. lines[n].run \in {lines[m].run : m \in DOMAIN lines}
    OBVIOUS
  <2>3. lines[n].run \in Nameable
    BY <2>2 DEF Nameable
  <2> QED BY <2>1, <2>3 DEF Readable
<1> DEFINE fed(k) == FedUpTo(lines, first, k)
           S == {k \in 0..Len(lines) : Decoding(fed(k)) /\ (k < first => fed(k).complete = FALSE)}
<1>3. 0 \in S
  <2>1. fed(0) = Unread
    BY <1>1, FedStep
  <2>2. Decoding(Unread)
    BY FS_EmptySet DEF Decoding, Unread
  <2>3. Unread.complete = FALSE
    BY DEF Unread
  <2> QED BY <1>1, <2>1, <2>2, <2>3
<1>4. ASSUME NEW k \in 1..Len(lines), k - 1 \in S PROVE k \in S
  <2>1. fed(k) = Feed(fed(k - 1), lines[k], k, first)
    BY <1>1, FedStep
  <2>2. Decoding(fed(k - 1)) /\ (k - 1 < first => fed(k - 1).complete = FALSE)
    BY <1>4
  <2>3. Readable(lines[k])
    BY <1>2
  <2> HIDE DEF fed
  <2>4. Decoding(fed(k))
    BY <2>1, <2>2, <2>3, FeedKeeps
  <2>5. k < first => fed(k).complete = fed(k - 1).complete
    BY <2>1, <2>2, FeedBefore
  <2>6. k < first => k - 1 < first
    BY <1>1
  <2> QED BY <1>1, <2>2, <2>4, <2>5, <2>6
<1> HIDE DEF S
<1>5. \A k \in 0..Len(lines) : k \in S
  BY <1>1, <1>3, <1>4, UpTo
<1> QED BY <1>1, <1>5 DEF S

(* What a range used is a number, or is not known (decoding.py,            *)
(* consumption).                                                           *)
LEMMA ConsumptionIs ==
    ASSUME NEW s, Decoding(s)
    PROVE  Consumption(s) \in Nat \cup {None}
<1>1. Total(s.uses) \in Nat \cup {None}
  BY TotalIs DEF Decoding
<1>2. s.last \in Nat \cup {None} /\ s.initial \in Nat \cup {None}
  BY DEF Decoding
<1> QED BY <1>1, <1>2, MeasurementAssumption DEF Consumption

(* The model is the one the session names, or the one that is asked for    *)
(* (history.py, LocalHistory.read).                                        *)
LEMMA ModelIs ==
    ASSUME NEW s, Decoding(s), NEW request \in Selection
    PROVE  ModelOf(s, request) \in Models \cup {None}
<1>1. s.models \subseteq Models /\ request.model \in Models \cup {None}
  BY DEF Decoding, Selection
<1>2. Cardinality(s.models) = 1 => s.models # {}
  BY FS_EmptySet
<1> QED BY <1>1, <1>2 DEF ModelOf


-----------------------------------------------------------------------------
(* What is read, and what is recorded, is of the session it is of.         *)

\* the texts of a session, which the program keeps a hash of
Texts == UNION {Seq({s[n] : n \in DOMAIN s}) : s \in Sessions}

\* an observation as it is read, before its runs are looked up
Seen == [task: Tasks, host: {"codex", "claude"}, file: Files,
         purpose: {"manual", "reuse", "creation", "maintenance"},
         workload: Workloads, model: Models \cup {None}, ref: Refs \cup {None},
         runs: SUBSET Nameable, verified: BOOLEAN, use: Nat \cup {None}, complete: BOOLEAN,
         digest: Texts, first: Nat \ {0}, last: Nat \cup {None}, at: 0..MaxTime]

\* what is complete has a use and a model
Whole(o) == o.complete => o.use # None /\ o.model # None

\* its use and its text are those of some of the first lines of its session,
\* and of the range itself, in whose way nothing stands, when it is complete
OfLines(o, lines, w) ==
    \E k \in 0..Len(lines) : /\ o.use = Consumption(FedUpTo(lines, o.first, k))
                             /\ o.digest = SubSeq(lines, o.first, k)
                             /\ k <= w
                             /\ o.complete => /\ o.first <= k /\ (o.last # None => k <= o.last)
                                              /\ FedUpTo(lines, o.first, k).issues = {}

\* an observation that was read off what is written of its session
IsRead(o) ==
    /\ o \in Seen /\ Whole(o) /\ o.host = HostOf[o.file]
    /\ OfLines(o, session[o.file], written[o.file])

\* what is known of the sessions
Written ==
    /\ session \in [Files -> Sessions]
    /\ \A f \in Files : written[f] \in 0..Len(session[f])
    /\ now \in 0..MaxTime

(* What is read of the lines written so far is a fact about the session,   *)
(* whatever is written later (history.py, LocalHistory.read).              *)
LEMMA ReadIs ==
    ASSUME Written, NEW s \in Selection
    PROVE  IsRead(Read(s, HostOf[s.file], Shown(s.file), now))
<1> DEFINE f == s.file
           S == session[f]
           w == written[f]
           lines == Shown(f)
           k == Least(s.last, Len(lines))
           o == Read(s, HostOf[f], lines, now)
           fed == FedUpTo(S, s.first, k)
<1>1. f \in Files /\ s.first \in Nat /\ s.first # 0 /\ s.last \in Nat \cup {None}
  BY DEF Selection
<1>2. S \in Sessions /\ w \in 0..Len(S)
  BY <1>1 DEF Written
<1>3. Len(S) \in Nat /\ S \in Seq({S[n] : n \in DOMAIN S}) /\ DOMAIN S = 1..Len(S)
  BY <1>2, MeasurementAssumption
<1>4. /\ Len(lines) = w
      /\ \A i \in 1..w : lines[i] = S[i]
  <2>1. lines = SubSeq(S, 1, w)
    BY DEF Shown
  <2>2. \A i \in 1..w : S[i] \in {S[n] : n \in DOMAIN S}
    BY <1>2, <1>3
  <2> HIDE DEF S, w, lines
  <2> QED BY <1>2, <1>3, <2>1, <2>2, SubSeqProperties
<1> HIDE DEF lines
<1>5. k \in 0..w
  BY <1>1, <1>2, <1>3, <1>4 DEF Least
<1>6. Fed(lines, s.first, s.last) = fed
  <2>1. Fed(lines, s.first, s.last) = FedUpTo(lines, s.first, k)
    BY FedIs
  <2>2. Len(lines) \in Nat /\ k \in 0..Len(lines) /\ k <= Len(S) /\ \A i \in 1..k : lines[i] = S[i]
    BY <1>2, <1>3, <1>4, <1>5
  <2> HIDE DEF S, k
  <2>3. FedUpTo(lines, s.first, k) = FedUpTo(S, s.first, k)
    BY <1>3, <2>2, FedOfPrefix
  <2> QED BY <2>1, <2>3
<1>7. Decoding(fed) /\ (k < s.first => fed.complete = FALSE)
  <2>1. k \in 0..Len(S)
    BY <1>2, <1>3, <1>5
  <2> HIDE DEF S, k
  <2> QED BY <1>1, <1>2, <2>1, FedIsDecoding
<1>8. SubSeq(lines, s.first, k) = SubSeq(S, s.first, k) /\ SubSeq(S, s.first, k) \in Texts
  <2> DEFINE V == {S[n] : n \in DOMAIN S}
  <2>1. \A i \in s.first..k : S[i] \in V /\ lines[i] = S[i]
    <3> SUFFICES ASSUME NEW i \in s.first..k PROVE S[i] \in V /\ lines[i] = S[i]
      OBVIOUS
    <3> HIDE DEF k, S, w
    <3>1. i \in 1..w /\ i \in DOMAIN S
      BY <1>1, <1>2, <1>3, <1>5
    <3> QED BY <1>4, <3>1
  <2> HIDE DEF S, k, w, V
  <2>3. s.first \in Int /\ k \in Int
    BY <1>1, <1>2, <1>3, <1>5
  <2>4. /\ SubSeq(S, s.first, k) \in Seq(V)
        /\ SubSeq(lines, s.first, k) = SubSeq(S, s.first, k)
    BY <2>1, <2>3, SubSeqProperties
  <2>5. Seq(V) \in {Seq({t[n] : n \in DOMAIN t}) : t \in Sessions}
    BY <1>2 DEF V
  <2> QED BY <2>4, <2>5 DEF Texts
<1> DEFINE use == Consumption(fed)
           model == ModelOf(fed, s)
           whole == fed.complete /\ use # None /\ model # None /\ IssuesOf(fed, s) = {}
           runs == IF s.purpose = "reuse" /\ s.runs = {} THEN NamedRuns(fed) ELSE s.runs
           text == SubSeq(S, s.first, k)
<1>9. use \in Nat \cup {None} /\ model \in Models \cup {None}
  BY <1>7, ConsumptionIs, ModelIs
<1>10. runs \in SUBSET Nameable
  <2>1. NamedRuns(fed) \subseteq Nameable
    BY <1>7 DEF NamedRuns, Decoding
  <2>2. s.runs \subseteq Nameable
    BY DEF Selection, Nameable
  <2> QED BY <2>1, <2>2
<1>11. o = [task |-> s.task, host |-> HostOf[f], file |-> f, purpose |-> s.purpose,
            workload |-> s.workload, model |-> model, ref |-> s.ref, runs |-> runs,
            verified |-> s.verified, use |-> use, complete |-> whole, digest |-> text,
            first |-> s.first, last |-> s.last, at |-> now]
  <2> HIDE DEF fed, k, S
  <2> QED BY <1>6, <1>8 DEF Read, k
<1>12. whole \in BOOLEAN /\ (whole => use # None /\ model # None) /\ (whole => s.first <= k)
  <2>1. whole => ~(k < s.first)
    BY <1>7
  <2> HIDE DEF k, fed
  <2> QED BY <1>1, <1>2, <1>3, <1>5, <2>1
<1>12a. whole => fed.issues = {}
  <2> HIDE DEF fed
  <2> QED BY Zenon DEF IssuesOf
<1>12b. s.last # None => k <= s.last
  BY <1>1, <1>2, <1>3, <1>4 DEF Least
<1>13. now \in 0..MaxTime /\ HostOf[f] \in {"codex", "claude"}
  BY <1>1, MeasurementAssumption DEF Written
<1> HIDE DEF o, use, model, whole, runs, text
<1>14. o \in Seen
  BY <1>1, <1>8, <1>9, <1>10, <1>11, <1>12, <1>13 DEF Seen, Selection, text
<1>15. Whole(o)
  BY <1>11, <1>12 DEF Whole
<1>16. OfLines(o, session[o.file], written[o.file])
  <2>1. /\ o.file = f /\ o.first = s.first /\ o.last = s.last
        /\ o.use = use /\ o.digest = text /\ o.complete = whole
    BY <1>11
  <2>2. k \in 0..Len(S) /\ k <= w
    BY <1>2, <1>3, <1>5
  <2> HIDE DEF k
  <2> QED BY <1>12, <1>12a, <1>12b, <2>1, <2>2 DEF OfLines, use, text
<1>17. o.host = HostOf[o.file]
  BY <1>11
<1> QED BY <1>14, <1>15, <1>16, <1>17 DEF IsRead, o, lines

\* the workflow recorded with runs is the one that all of them are of
OwnRef(o) == o.runs # {} => \A ref \in Refs : RefsOf(o.runs) = {ref} <=> o.ref = ref

\* what a process is in the middle of, beyond JobSound
JobTyped(j) ==
    /\ j.pc \in {"read", "put"} => IsRead(j.seen)
    /\ j.pc = "put" => OwnRef(j.seen)
    /\ j.pc \in {"capture", "link"} => j.ref \in Refs /\ j.task \in Tasks

\* the types of the baselines, drafts and declarations
Linked ==
    /\ links \subseteq [ref: Refs, task: Tasks]
    /\ drafts \in [Refs -> Tasks \cup {None}]
    /\ coverage \in [Refs -> [setup: BOOLEAN, upkeep: BOOLEAN]]

\* what is known of a recorded task
Kept(t, o) == IsRead(o) /\ OwnRef(o) /\ o.task = t

\* the second invariant, with the first: everything recorded was read off a session
LedgerInv ==
    /\ MeasurementInv
    /\ Written
    /\ \A p \in Procs : JobTyped(job[p])
    /\ IsFiniteSet(Stored) /\ \A t \in Stored : Kept(t, tasks[t])
    /\ Linked

(* Looking up the runs changes whose they are said to be, and whether that *)
(* is attested; a reuse's workflow is that of its runs from then on        *)
(* (measurement/service.py, ingest).                                       *)
LEMMA AttributedIs ==
    ASSUME NEW s, NEW o, IsRead(o), MayBeAttributed(s, o)
    PROVE  /\ IsRead(Attributed(o)) /\ OwnRef(Attributed(o))
           /\ Attributed(o).task = o.task
<1>1. o \in Seen /\ o.runs \subseteq Runs
  BY DEF IsRead, MayBeAttributed
<1>2. CASE o.runs = {}
  BY <1>2 DEF Attributed, OwnRef
<1>3. CASE o.runs # {}
  <2> DEFINE ref == IF \E q \in Refs : RefsOf(o.runs) = {q}
                    THEN CHOOSE q \in RefsOf(o.runs) : TRUE ELSE None
             proven == \A r \in o.runs : Proven(r)
             a == [o EXCEPT !.ref = ref, !.verified = proven]
  <2>1. Attributed(o) = a
    BY <1>3 DEF Attributed
  <2>2. ref \in Refs \cup {None} /\ \A q \in Refs : RefsOf(o.runs) = {q} <=> ref = q
    <3>1. CASE \E q \in Refs : RefsOf(o.runs) = {q}
      <4>1. PICK q \in Refs : RefsOf(o.runs) = {q}
        BY <3>1
      <4>2. ref = q
        BY <3>1, <4>1
      <4> QED BY <4>1, <4>2
    <3>2. CASE ~(\E q \in Refs : RefsOf(o.runs) = {q})
      <4>1. ref = None
        BY <3>2
      <4> HIDE DEF ref
      <4> QED BY <3>2, <4>1, MeasurementAssumption
    <3> QED BY <3>1, <3>2
  <2>3. proven \in BOOLEAN
    OBVIOUS
  <2> HIDE DEF ref, proven
  <2>4. a \in Seen
    BY <1>1, <2>2, <2>3 DEF Seen
  <2>5. /\ a.task = o.task /\ a.runs = o.runs /\ a.ref = ref /\ a.file = o.file
        /\ a.complete = o.complete /\ a.use = o.use /\ a.model = o.model
        /\ a.digest = o.digest /\ a.first = o.first /\ a.last = o.last /\ a.host = o.host
    BY <1>1 DEF Seen
  <2> HIDE DEF a
  <2>6. Whole(a) /\ a.host = HostOf[a.file] /\ OfLines(a, session[a.file], written[a.file])
    BY <2>5 DEF IsRead, Whole, OfLines
  <2> QED BY <2>1, <2>2, <2>4, <2>5, <2>6 DEF IsRead, OwnRef
<1> QED BY <1>2, <1>3

(* At first the files hold what they may and nothing is recorded.          *)
LEMMA LedgerInitInv == MeasurementInit => LedgerInv
<1> SUFFICES ASSUME MeasurementInit PROVE LedgerInv
  OBVIOUS
<1>1. Stored = {}
  BY DEF MeasurementInit, Stored
<1>2. Written
  <2> SUFFICES ASSUME NEW f \in Files PROVE written[f] \in 0..Len(session[f])
    BY DEF MeasurementInit, Written
  <2>1. Len(session[f]) \in Nat
    BY MeasurementAssumption DEF MeasurementInit
  <2>2. written[f] \in 0..Longest /\ written[f] <= Len(session[f])
    BY DEF MeasurementInit
  <2>3. written[f] \in Int /\ 0 <= written[f]
    BY <2>2
  <2> QED BY <2>1, <2>2, <2>3
<1>3. \A p \in Procs : JobTyped(job[p])
  BY DEF MeasurementInit, Idle, JobTyped
<1>4. Linked
  BY DEF MeasurementInit, Linked, Undeclared
<1> QED BY <1>1, <1>2, <1>3, <1>4, MeasurementInitInv, FS_EmptySet DEF LedgerInv

(* A step of a process leaves it with what was read, or with a workflow    *)
(* and a task to link (measurement/service.py).                            *)
LEMMA ProcessStaysTyped ==
    ASSUME LedgerInv, NEW p \in Procs, Elsewhere(p) \/ Store(p)
    PROVE  \E j : job' = [job EXCEPT ![p] = j] /\ JobTyped(j)
<1>0. JobTyped(Idle)
  BY DEF JobTyped, Idle
<1>1. ASSUME NEW s \in plan.imports, BeginImport(p, s)
      PROVE  \E j : job' = [job EXCEPT ![p] = j] /\ JobTyped(j)
  <2> DEFINE o == Read(s, HostOf[s.file], Shown(s.file), now)
             j == [pc |-> "read", selection |-> s, seen |-> o]
  <2>1. s \in Selection
    BY MeasurementAssumption DEF LedgerInv, MeasurementInv, Base
  <2>2. IsRead(o)
    BY <2>1, ReadIs DEF LedgerInv
  <2>3. job' = [job EXCEPT ![p] = j]
    BY <1>1 DEF BeginImport, Goes
  <2> HIDE DEF o
  <2>4. JobTyped(j)
    BY <2>2 DEF JobTyped
  <2> HIDE DEF j
  <2> QED BY <2>3, <2>4
<1>2. ASSUME Attribute(p) PROVE \E j : job' = [job EXCEPT ![p] = j] /\ JobTyped(j)
  <2> DEFINE o == job[p].seen
             s == job[p].selection
             a == Attributed(o)
             j == [pc |-> "put", seen |-> a]
  <2>1. IsRead(o)
    BY <1>2 DEF Attribute, LedgerInv, JobTyped
  <2>2. CASE MayBeAttributed(s, o)
    <3>1. job' = [job EXCEPT ![p] = j]
      BY <1>2, <2>2 DEF Attribute, Goes
    <3>2. IsRead(a) /\ OwnRef(a)
      BY <2>1, <2>2, AttributedIs
    <3> HIDE DEF a
    <3>3. JobTyped(j)
      BY <3>2 DEF JobTyped
    <3> HIDE DEF j
    <3> QED BY <3>1, <3>3
  <2>3. CASE ~MayBeAttributed(s, o)
    <3>1. job' = [job EXCEPT ![p] = Idle]
      BY <1>2, <2>3 DEF Attribute, Goes
    <3> QED BY <3>1, <1>0
  <2> QED BY <2>2, <2>3
<1>3. ASSUME Store(p) \/ Capture(p) \/ Link(p)
      PROVE  \E j : job' = [job EXCEPT ![p] = j] /\ JobTyped(j)
  <2>1. job' = [job EXCEPT ![p] = Idle]
    BY <1>3 DEF Store, Capture, Link, Goes
  <2> QED BY <2>1, <1>0
<1>4. ASSUME NEW ref \in Refs, NEW t, BeginCapture(p, ref, t) \/ BeginLink(p, ref, t)
      PROVE  \E j : job' = [job EXCEPT ![p] = j] /\ JobTyped(j)
  <2>1. PICK pc \in {"capture", "link"} : job' = [job EXCEPT ![p] = [pc |-> pc, ref |-> ref, task |-> t]]
    BY <1>4 DEF BeginCapture, BeginLink, Goes
  <2>2. t \in Tasks
    BY <1>4 DEF BeginCapture, BeginLink, IsManual, LedgerInv, MeasurementInv, Base
  <2>3. JobTyped([pc |-> pc, ref |-> ref, task |-> t])
    BY <2>1, <2>2 DEF JobTyped
  <2> QED BY <2>1, <2>3
<1> QED BY <1>1, <1>2, <1>3, <1>4 DEF Elsewhere, BindDraft

(* What is linked, drafted and declared is of known workflows and tasks    *)
(* (measurement/repository.py).                                            *)
LEMMA LinkedStays ==
    ASSUME LedgerInv, [MeasurementNext]_measurementVars
    PROVE  Linked'
<1>0. Linked
  BY DEF LedgerInv
<1>1. ASSUME NEW p \in Procs, Capture(p) PROVE Linked'
  <2>1. job[p].ref \in Refs /\ job[p].task \in Tasks
    BY <1>1 DEF Capture, LedgerInv, JobTyped
  <2> QED BY <1>0, <1>1, <2>1 DEF Capture, Linked
<1>2. ASSUME NEW p \in Procs, Link(p) PROVE Linked'
  <2>1. job[p].ref \in Refs /\ job[p].task \in Tasks
    BY <1>2 DEF Link, LedgerInv, JobTyped
  <2> QED BY <1>0, <1>2, <2>1 DEF Link, Linked
<1>3. ASSUME NEW ref \in Refs, NEW c \in Declarations, Declare(ref, c) PROVE Linked'
  <2>1. c \in [setup: BOOLEAN, upkeep: BOOLEAN]
    BY MeasurementAssumption
  <2> QED BY <1>0, <1>3, <2>1 DEF Declare, Linked
<1>4. CASE Retain
  <2>1. Undeclared \in [setup: BOOLEAN, upkeep: BOOLEAN]
    BY DEF Undeclared
  <2>2. coverage' \in [Refs -> [setup: BOOLEAN, upkeep: BOOLEAN]]
    BY <1>0, <1>4, <2>1 DEF Retain, Uncovered, Linked
  <2>3. drafts' \in [Refs -> Tasks \cup {None}]
    BY <1>0, <1>4 DEF Retain, Linked
  <2>4. links' \subseteq [ref: Refs, task: Tasks]
    BY <1>0, <1>4 DEF Retain, Linked
  <2> QED BY <2>2, <2>3, <2>4 DEF Linked
<1>5. CASE UNCHANGED <<links, drafts, coverage>>
  BY <1>0, <1>5 DEF Linked
<1>6. plan.by \subseteq Procs
  BY MeasurementAssumption DEF LedgerInv, MeasurementInv, Base
<1>7. \/ UNCHANGED <<links, drafts, coverage>> \/ Retain
      \/ \E p \in Procs : Capture(p) \/ Link(p)
      \/ \E ref \in Refs, c \in Declarations : Declare(ref, c)
  BY <1>6 DEF MeasurementNext, BeginImport, Attribute, Store, BeginCapture, BeginLink, BindDraft,
              Write, RunStarts, RunEnds, RunIsRemoved, RunChanges, Tick, ledgerVars, measurementVars
<1> QED BY <1>1, <1>2, <1>3, <1>4, <1>5, <1>7

(* A session only grows (hosts append to their history).                   *)
LEMMA LinesAreAdded ==
    ASSUME LedgerInv, [MeasurementNext]_measurementVars
    PROVE  \A f \in Files : written[f] \in Int /\ written'[f] \in Int /\ written[f] <= written'[f]
<1>1. \A f \in Files : written[f] \in Int
  BY MeasurementAssumption DEF LedgerInv, Written
<1>2. CASE UNCHANGED written
  BY <1>1, <1>2
<1>3. ASSUME NEW g \in Files, Write(g) PROVE \A f \in Files : written'[f] \in Int /\ written[f] <= written'[f]
  <2>1. written' = [written EXCEPT ![g] = @ + 1]
    BY <1>3 DEF Write
  <2> QED BY <1>1, <2>1
<1>4. UNCHANGED written \/ \E f \in Files : Write(f)
  BY DEF MeasurementNext, BeginImport, Attribute, Store, Capture, Link, BeginCapture, BeginLink,
         BindDraft, Declare, Retain, RunStarts, RunEnds, RunIsRemoved, RunChanges, Tick,
         worldVars, measurementVars
<1> QED BY <1>1, <1>2, <1>3, <1>4

(* The second invariant is inductive as well.                              *)
LEMMA LedgerNextInv ==
    LedgerInv /\ [MeasurementNext]_measurementVars => LedgerInv'
<1> SUFFICES ASSUME LedgerInv, [MeasurementNext]_measurementVars PROVE LedgerInv'
  OBVIOUS
<1>0. MeasurementInv /\ Base
  BY DEF LedgerInv, MeasurementInv
<1>1. MeasurementInv'
  BY <1>0, MeasurementNextInv
<1>2. session' = session
  BY DEF MeasurementNext, BeginImport, Attribute, Store, Capture, Link, BeginCapture, BeginLink,
         BindDraft, Declare, Retain, Write, RunStarts, RunEnds, RunIsRemoved, RunChanges, Tick,
         worldVars, measurementVars
<1>3. \A o : IsRead(o) => IsRead(o)'
  <2>1. \A f \in Files : written[f] \in Int /\ written'[f] \in Int /\ written[f] <= written'[f]
    BY LinesAreAdded
  <2> SUFFICES ASSUME NEW o, IsRead(o) PROVE IsRead(o)'
    OBVIOUS
  <2> DEFINE S == session[o.file]
  <2>2. o.file \in Files
    BY DEF IsRead, Seen
  <2>3. PICK k \in 0..Len(S) :
          /\ o.use = Consumption(FedUpTo(S, o.first, k))
          /\ o.digest = SubSeq(S, o.first, k)
          /\ k <= written[o.file]
          /\ o.complete => /\ o.first <= k /\ (o.last # None => k <= o.last)
                           /\ FedUpTo(S, o.first, k).issues = {}
    BY DEF IsRead, OfLines
  <2>4. Len(S) \in Nat
    BY <2>2, MeasurementAssumption DEF LedgerInv, Written
  <2>5. k <= written'[o.file]
    BY <2>1, <2>2, <2>3, <2>4
  <2>6. OfLines(o, S, written'[o.file])
    BY <2>3, <2>5 DEF OfLines
  <2> QED BY <1>2, <2>6 DEF IsRead
<1>4. \A o : OwnRef(o) => OwnRef(o)'
  BY DEF OwnRef
<1>5. Written'
  <2>1. CASE UNCHANGED <<session, written, now>>
    BY <2>1 DEF LedgerInv, Written
  <2>2. ASSUME NEW f \in Files, Write(f) PROVE Written'
    <3>1. \A g \in Files : Len(session[g]) \in Nat
      BY MeasurementAssumption DEF LedgerInv, Written
    <3> QED BY <1>2, <2>2, <3>1 DEF Write, LedgerInv, Written
  <2>3. CASE Tick
    BY <2>3, MeasurementAssumption DEF Tick, LedgerInv, Written
  <2>4. UNCHANGED <<session, written, now>> \/ (\E f \in Files : Write(f)) \/ Tick
    BY DEF MeasurementNext, BeginImport, Attribute, Store, Capture, Link, BeginCapture, BeginLink,
           BindDraft, Declare, Retain, RunStarts, RunEnds, RunIsRemoved, RunChanges,
           worldVars, measurementVars
  <2> QED BY <2>1, <2>2, <2>3, <2>4
<1>6. (\E p \in Procs : Elsewhere(p) \/ Store(p)) \/ Retain \/ RunMoves \/ Outside
  BY <1>0, Steps
<1>7. (\A p \in Procs : JobTyped(job[p]))'
  <2>1. CASE UNCHANGED job
    BY <1>3, <1>4, <2>1 DEF LedgerInv, JobTyped
  <2>2. ASSUME NEW p \in Procs, Elsewhere(p) \/ Store(p) PROVE (\A q \in Procs : JobTyped(job[q]))'
    <3>1. PICK j : job' = [job EXCEPT ![p] = j] /\ JobTyped(j)
      BY <2>2, ProcessStaysTyped
    <3>2. ASSUME NEW q \in Procs PROVE JobTyped(job'[q])
      BY <1>0, <3>1 DEF Base, LedgerInv
    <3> QED BY <1>3, <1>4, <3>2 DEF JobTyped
  <2>3. UNCHANGED job \/ \E p \in Procs : Elsewhere(p) \/ Store(p)
    BY <1>6 DEF Retain, RunMoves, RunStarts, RunIsRemoved, RunEnds, RunChanges, Outside, Declare,
                Write, Tick, worldVars, measurementVars
  <2> QED BY <2>1, <2>2, <2>3
<1>8. (IsFiniteSet(Stored) /\ \A t \in Stored : Kept(t, tasks[t]))'
  <2>1. CASE UNCHANGED tasks
    BY <1>3, <1>4, <2>1 DEF LedgerInv, Stored, Kept
  <2>2. CASE Retain
    <3>1. Stored' = Stored \ Old /\ \A t \in Stored' : tasks'[t] = tasks[t]
      BY <2>2 DEF Retain, Stored
    <3>2. IsFiniteSet(Stored \ Old)
      BY FS_Subset DEF LedgerInv
    <3> QED BY <1>3, <1>4, <3>1, <3>2 DEF LedgerInv, Kept
  <2>3. ASSUME NEW p \in Procs, Store(p), ~UNCHANGED tasks
        PROVE  (IsFiniteSet(Stored) /\ \A t \in Stored : Kept(t, tasks[t]))'
    <3> DEFINE o == job[p].seen
    <3>1. IsRead(o) /\ OwnRef(o)
      BY <2>3 DEF Store, LedgerInv, JobTyped
    <3>2. tasks' = Put(tasks, o.task, o)
      BY <2>3 DEF Store
    <3> HIDE DEF o
    <3>3. Stored' = Stored \cup {o.task}
      BY <3>2 DEF Put, Stored
    <3>4. tasks'[o.task] = o /\ \A t \in Stored' \ {o.task} : t \in Stored /\ tasks'[t] = tasks[t]
      BY <3>2, <3>3 DEF Put, Stored
    <3>5. IsFiniteSet(Stored \cup {o.task})
      BY FS_AddElement DEF LedgerInv
    <3> QED BY <1>3, <1>4, <3>1, <3>3, <3>4, <3>5 DEF LedgerInv, Kept
  <2>4. UNCHANGED tasks \/ Retain \/ \E p \in Procs : Store(p)
    BY <1>6, ElsewhereKeepsRecords
       DEF RunMoves, RunStarts, RunIsRemoved, RunEnds, RunChanges, Outside, Declare, Write, Tick,
           ledgerVars, measurementVars
  <2> QED BY <2>1, <2>2, <2>3, <2>4
<1>9. Linked'
  BY LinkedStays
<1> QED BY <1>1, <1>5, <1>7, <1>8, <1>9 DEF LedgerInv

(* It holds in every reachable state.                                      *)
THEOREM LedgerInvariant == MeasurementSpec => []LedgerInv
<1>1. MeasurementInit => LedgerInv
  BY LedgerInitInv
<1>2. LedgerInv /\ [MeasurementNext]_measurementVars => LedgerInv'
  BY LedgerNextInv
<1> QED BY <1>1, <1>2, PTL DEF MeasurementSpec

(* Every row of the ledger is of its type, the uses read off the sessions  *)
(* included (measurement/models.py, repository.py).                        *)
THEOREM MeasurementTypesHold == MeasurementSpec => []MeasurementTypes
<1>1. LedgerInv => MeasurementTypes
  <2> SUFFICES ASSUME LedgerInv PROVE MeasurementTypes
    OBVIOUS
  <2>1. ASSUME NEW t \in Stored PROVE tasks[t] \in Observation /\ tasks[t].task = t
    <3>1. tasks[t] \in Seen /\ Whole(tasks[t]) /\ tasks[t].task = t
      BY DEF LedgerInv, Kept, IsRead
    <3>2. tasks[t].runs \subseteq Runs
      BY DEF LedgerInv, MeasurementInv, PutSound
    <3> DEFINE o == tasks[t]
    <3> HIDE DEF o
    <3>3. o \in Observation
      BY <3>1, <3>2 DEF o, Seen, Whole, Observation, Texts
    <3> QED BY <3>1, <3>3 DEF o
  <2> QED BY <2>1 DEF LedgerInv, MeasurementInv, Base, Linked, Written, MeasurementTypes
<1> QED BY <1>1, LedgerInvariant, PTL

-----------------------------------------------------------------------------
(* A complete task is never told anew.                                     *)

(* Texts of a session from the same line on are equal only when they end   *)
(* at the same line.                                                       *)
LEMMA SameTextSameEnd ==
    ASSUME NEW lines \in Sessions, NEW first \in Nat \ {0},
           NEW j \in 0..Len(lines), NEW k \in 0..Len(lines), first <= j, first <= k,
           SubSeq(lines, first, j) = SubSeq(lines, first, k)
    PROVE  j = k
<1>1. Len(lines) \in Nat /\ DOMAIN lines = 1..Len(lines)
  BY MeasurementAssumption
<1> DEFINE V == {lines[n] : n \in DOMAIN lines}
<1>2. \A i \in 1..Len(lines) : lines[i] \in V
  BY <1>1
<1> HIDE DEF V
<1>3. first \in Int /\ j \in Int /\ k \in Int
  BY <1>1
<1>4. (\A i \in first..j : lines[i] \in V) /\ (\A i \in first..k : lines[i] \in V)
  BY <1>1, <1>2
<1>5. Len(SubSeq(lines, first, j)) = j - first + 1
  BY <1>3, <1>4, SubSeqProperties
<1>6. Len(SubSeq(lines, first, k)) = k - first + 1
  BY <1>3, <1>4, SubSeqProperties
<1> QED BY <1>3, <1>5, <1>6

\* what is kept of a complete task, what is compared of a baseline included
StaysTold(old, o) ==
    /\ o.complete
    /\ o.use = old.use /\ o.runs = old.runs /\ o.ref = old.ref /\ o.digest = old.digest
    /\ o.host = old.host /\ o.purpose = old.purpose /\ o.workload = old.workload
    /\ o.model = old.model

(* What put lets replace a complete task used what that one did: it is the *)
(* same text of the same session (measurement/repository.py, put).         *)
LEMMA ReplacedIsTold ==
    ASSUME NEW old, NEW o, IsRead(old), IsRead(o), session \in [Files -> Sessions],
           Replaces(old, o), old.complete
    PROVE  StaysTold(old, o)
<1>1. old \in Seen /\ o \in Seen
  BY DEF IsRead
<1>2. /\ o.host = old.host /\ o.file = old.file /\ o.first = old.first
      /\ o.purpose = old.purpose /\ o.workload = old.workload
  BY DEF Replaces, SameIdentity, KeyOfRange
<1>3. o.complete /\ o.digest = old.digest /\ o.runs = old.runs /\ o.ref = old.ref
  BY DEF Replaces
<1>4. o.model = old.model
  BY DEF Replaces, IsRead, Whole
<1> DEFINE lines == session[old.file]
<1>5. old.file \in Files /\ old.first \in Nat \ {0} /\ lines \in Sessions
  BY <1>1 DEF Seen
<1>6. PICK j \in 0..Len(lines) : /\ old.use = Consumption(FedUpTo(lines, old.first, j))
                                 /\ old.digest = SubSeq(lines, old.first, j)
                                 /\ old.first <= j
  BY DEF IsRead, OfLines
<1>7. PICK k \in 0..Len(lines) : /\ o.use = Consumption(FedUpTo(lines, old.first, k))
                                 /\ o.digest = SubSeq(lines, old.first, k)
                                 /\ old.first <= k
  BY <1>2, <1>3 DEF IsRead, OfLines
<1> HIDE DEF lines
<1>8. j = k
  BY <1>3, <1>5, <1>6, <1>7, SameTextSameEnd
<1> QED BY <1>2, <1>3, <1>4, <1>6, <1>7, <1>8 DEF StaysTold

(* Every task that is complete, and still there after a step, is told as   *)
(* before (put, and retain_since, which only removes).                     *)
LEMMA ToldStays ==
    ASSUME LedgerInv, [MeasurementNext]_measurementVars,
           NEW t \in Stored, tasks[t].complete, t \in Stored'
    PROVE  StaysTold(tasks[t], tasks'[t])
<1>1. CASE tasks'[t] = tasks[t]
  BY <1>1 DEF StaysTold
<1>2. ASSUME NEW p \in Procs, Store(p), tasks'[t] # tasks[t]
      PROVE  StaysTold(tasks[t], tasks'[t])
  <2> DEFINE o == job[p].seen
  <2>1. IsRead(o)
    BY <1>2 DEF Store, LedgerInv, JobTyped
  <2>2. Accepts(o) /\ tasks' = Put(tasks, o.task, o)
    BY <1>2 DEF Store
  <2> HIDE DEF o
  <2>3. t = o.task /\ tasks'[t] = o
    BY <1>2, <2>2 DEF Put, Stored
  <2>4. Replaces(tasks[t], o)
    BY <2>2, <2>3 DEF Accepts
  <2>5. IsRead(tasks[t]) /\ session \in [Files -> Sessions]
    BY DEF LedgerInv, Kept, Written
  <2> QED BY <2>1, <2>3, <2>4, <2>5, ReplacedIsTold
<1>3. CASE Retain
  <2>1. tasks'[t] = tasks[t]
    BY <1>3 DEF Retain, Stored
  <2> QED BY <1>1, <2>1
<1>4. UNCHANGED tasks \/ Retain \/ \E p \in Procs : Store(p)
  BY Steps, ElsewhereKeepsRecords
     DEF LedgerInv, RunMoves, RunStarts, RunIsRemoved, RunEnds, RunChanges, Outside, Declare,
         Write, Tick, ledgerVars, measurementVars
<1> QED BY <1>1, <1>2, <1>3, <1>4

(* A complete task never changes what it used, by which runs and for which *)
(* workflow, however its session goes on and whoever reads it again        *)
(* (measurement/repository.py, put).                                       *)
THEOREM AttributionKept == MeasurementSpec => AttributionIsKept
<1>1. LedgerInv /\ [MeasurementNext]_measurementVars =>
        [\A t \in Stored : tasks[t].complete /\ t \in Stored' =>
           /\ tasks'[t].complete
           /\ <<tasks'[t].use, tasks'[t].runs, tasks'[t].ref, tasks'[t].digest>>
                = <<tasks[t].use, tasks[t].runs, tasks[t].ref, tasks[t].digest>>]_tasks
  BY ToldStays DEF StaysTold
<1> QED BY <1>1, LedgerInvariant, PTL DEF MeasurementSpec, AttributionIsKept

-----------------------------------------------------------------------------
(* A known net saving grows for a cause (estimation.py, assess).           *)

(* A sum does not change when numbers 0 are added to it.                   *)
LEMMA SumOfMore ==
    ASSUME NEW D, IsFiniteSet(D), NEW K \in SUBSET D, NEW h, \A x \in K : h[x] \in Int
    PROVE  SumFunctionOnSet([x \in D |-> IF x \in K THEN h[x] ELSE 0], D) = SumFunctionOnSet(h, K)
<1> DEFINE z == [x \in D |-> IF x \in K THEN h[x] ELSE 0]
<1>1. \A x \in D : z[x] \in Int /\ (x \in K => z[x] = h[x]) /\ (x \notin K => z[x] = 0)
  OBVIOUS
<1> HIDE DEF z
<1>2. IsFiniteSet(K)
  BY FS_Subset
<1>3. SumFunctionOnSet(z, D) = SumFunctionOnSet(z, K)
  <2>1. (\A x \in D : z[x] \in Int) /\ \A x \in D \ K : z[x] = 0
    BY <1>1
  <2> QED BY <2>1, SumOfPart
<1>4. \A x \in K : z[x] \in Int /\ h[x] \in Int /\ z[x] <= h[x] /\ h[x] <= z[x]
  BY <1>1
<1>5. SumFunctionOnSet(z, K) \in Int /\ SumFunctionOnSet(h, K) \in Int
  BY <1>2, <1>4, SumIsInt
<1>6. SumFunctionOnSet(z, K) <= SumFunctionOnSet(h, K)
  BY <1>2, <1>4, SumOfLess
<1>7. SumFunctionOnSet(h, K) <= SumFunctionOnSet(z, K)
  BY <1>2, <1>4, SumOfLess
<1>8. SumFunctionOnSet(z, D) = SumFunctionOnSet(h, K)
  BY <1>3, <1>5, <1>6, <1>7
<1> QED BY <1>8 DEF z

(* Numbers no greater, and further ones that add nothing, do not add up to *)
(* more.                                                                   *)
LEMMA SumFalls ==
    ASSUME NEW D, IsFiniteSet(D), NEW K \in SUBSET D, NEW g, NEW h,
           \A x \in D : g[x] \in Int, \A x \in K : h[x] \in Int /\ g[x] <= h[x],
           \A x \in D \ K : g[x] <= 0
    PROVE  SumFunctionOnSet(g, D) <= SumFunctionOnSet(h, K)
<1> DEFINE z == [x \in D |-> IF x \in K THEN h[x] ELSE 0]
<1>1. \A x \in D : g[x] \in Int /\ z[x] \in Int /\ g[x] <= z[x]
  OBVIOUS
<1>2. SumFunctionOnSet(z, D) = SumFunctionOnSet(h, K)
  BY SumOfMore
<1> HIDE DEF z
<1>3. SumFunctionOnSet(g, D) <= SumFunctionOnSet(z, D)
  BY <1>1, SumOfLess
<1> QED BY <1>2, <1>3

(* Numbers no less, and further ones that take nothing, do not add up to   *)
(* less.                                                                   *)
LEMMA SumRises ==
    ASSUME NEW D, IsFiniteSet(D), NEW K \in SUBSET D, NEW g, NEW h,
           \A x \in D : g[x] \in Int, \A x \in K : h[x] \in Int /\ h[x] <= g[x],
           \A x \in D \ K : 0 <= g[x]
    PROVE  SumFunctionOnSet(h, K) <= SumFunctionOnSet(g, D)
<1> DEFINE z == [x \in D |-> IF x \in K THEN h[x] ELSE 0]
<1>1. \A x \in D : g[x] \in Int /\ z[x] \in Int /\ z[x] <= g[x]
  OBVIOUS
<1>2. SumFunctionOnSet(z, D) = SumFunctionOnSet(h, K)
  BY SumOfMore
<1> HIDE DEF z
<1>3. SumFunctionOnSet(z, D) <= SumFunctionOnSet(g, D)
  BY <1>1, SumOfLess
<1> QED BY <1>2, <1>3

\* recorded tasks as the estimate needs them
Rows(T) ==
    /\ IsFiniteSet(DOMAIN T)
    /\ \A t \in DOMAIN T : T[t].task = t /\ T[t].use \in Nat \cup {None}

\* the rows, as assess is given them
RowsOf(T) == {T[t] : t \in DOMAIN T}

\* the recorded tasks of a workflow and a purpose
TasksOf(T, ref, purpose) == {t \in DOMAIN T : T[t].ref = ref /\ T[t].purpose = purpose}

(* A sum over rows is one over their tasks: a task has one row             *)
(* (measurement/repository.py, the key of measurement_tasks).              *)
LEMMA SumByTask ==
    ASSUME NEW T, Rows(T), NEW K \in SUBSET DOMAIN T, NEW g,
           DOMAIN g = {T[t] : t \in K}, \A t \in K : g[T[t]] \in Int
    PROVE  /\ SumFunction(g) = SumFunctionOnSet([t \in K |-> g[T[t]]], K)
           /\ SumFunction(g) \in Int
<1> DEFINE h == [t \in K |-> g[T[t]]]
           E == {T[t] : t \in K}
<1>1. IsFiniteSet(K)
  BY FS_Subset DEF Rows
<1>2. \A t, u \in K : T[t] = T[u] => t = u
  BY DEF Rows
<1>3. \A t \in K : g[T[t]] \in Int /\ h[t] = g[T[t]]
  OBVIOUS
<1> HIDE DEF h
<1>4. SumFunctionOnSet(g, E) = SumFunctionOnSet(h, K)
  BY <1>1, <1>2, <1>3, SumOfImages
<1>5. SumFunctionOnSet(h, K) \in Int
  BY <1>1, <1>3, SumIsInt
<1>6. SumFunction(g) = SumFunctionOnSet(g, E)
  BY Zenon DEF SumFunction
<1> QED BY <1>4, <1>5, <1>6 DEF h

(* The instance's sums are the sums.                                       *)
LEMMA EstimateSums ==
    ASSUME NEW g
    PROVE  Estimate!SumFunction(g) = SumFunction(g)
BY Zenon DEF SumFunction, SumFunctionOnSet, FoldFunctionOnSet, MapThenFoldSet,
             Estimate!SumFunction, Estimate!SumFunctionOnSet, Estimate!FoldFunctionOnSet,
             Estimate!MapThenFoldSet

(* A known cost is what its tasks used together (estimation.py, costs).    *)
LEMMA CostIs ==
    ASSUME NEW T, Rows(T), NEW ref, NEW purpose, NEW declared,
           Estimate!Cost(ref, purpose, declared, RowsOf(T)) # None
    PROVE  LET K == TasksOf(T, ref, purpose)
               cost == Estimate!Cost(ref, purpose, declared, RowsOf(T))
           IN /\ \A t \in K : T[t].complete /\ T[t].use \in Nat
              /\ cost = SumFunctionOnSet([t \in K |-> T[t].use], K)
              /\ cost \in Int
<1> DEFINE K == TasksOf(T, ref, purpose)
           E == Estimate!Of(ref, purpose, RowsOf(T))
           g == [e \in E |-> e.use]
           cost == Estimate!Cost(ref, purpose, declared, RowsOf(T))
<1>1. E = {T[t] : t \in K}
  BY DEF Estimate!Of, RowsOf, TasksOf
<1>2. declared /\ Estimate!Known(E) /\ cost = Estimate!Uses(E)
  BY DEF Estimate!Cost
<1>3. \A t \in K : T[t] \in E
  BY <1>1
<1>4. \A t \in K : T[t].complete /\ T[t].use # None
  BY <1>2, <1>3 DEF Estimate!Known
<1>5. K \in SUBSET DOMAIN T
  BY DEF TasksOf
<1>6. \A t \in K : T[t].use \in Nat
  BY <1>4, <1>5 DEF Rows
<1>7. cost = SumFunction(g)
  BY <1>2, EstimateSums DEF Estimate!Uses
<1>8. DOMAIN g = {T[t] : t \in K} /\ \A t \in K : g[T[t]] = T[t].use
  BY <1>1, <1>3
<1> DEFINE h == [t \in K |-> g[T[t]]]
           u == [t \in K |-> T[t].use]
<1>9. h = u
  <2> HIDE DEF g, K
  <2> QED BY <1>8
<1> HIDE DEF g, K, E, cost
<1>10. SumFunction(g) = SumFunctionOnSet(h, K) /\ SumFunction(g) \in Int
  <2>1. \A t \in K : g[T[t]] \in Int
    BY <1>6, <1>8
  <2> QED BY <1>5, <1>8, <2>1, SumByTask
<1>11. cost = SumFunctionOnSet(u, K) /\ cost \in Int
  <2> HIDE DEF h, u
  <2> QED BY <1>7, <1>9, <1>10
<1> QED BY <1>4, <1>6, <1>11 DEF cost, K

(* Costs that stay recorded do not become less, whatever is recorded       *)
(* besides (estimation.py, costs).                                         *)
LEMMA CostsRise ==
    ASSUME NEW T, Rows(T), NEW U, Rows(U), NEW ref, NEW purpose, NEW c, NEW d,
           Estimate!Cost(ref, purpose, c, RowsOf(T)) # None,
           Estimate!Cost(ref, purpose, d, RowsOf(U)) # None,
           \A t \in TasksOf(T, ref, purpose) :
              T[t].complete => t \in TasksOf(U, ref, purpose) /\ U[t].use = T[t].use
    PROVE  /\ Estimate!Cost(ref, purpose, c, RowsOf(T)) \in Int
           /\ Estimate!Cost(ref, purpose, d, RowsOf(U)) \in Int
           /\ Estimate!Cost(ref, purpose, c, RowsOf(T)) <= Estimate!Cost(ref, purpose, d, RowsOf(U))
<1> DEFINE K == TasksOf(T, ref, purpose)
           L == TasksOf(U, ref, purpose)
           h == [t \in K |-> T[t].use]
           g == [t \in L |-> U[t].use]
<1>1. /\ \A t \in K : T[t].complete /\ T[t].use \in Nat
      /\ Estimate!Cost(ref, purpose, c, RowsOf(T)) = SumFunctionOnSet(h, K)
      /\ Estimate!Cost(ref, purpose, c, RowsOf(T)) \in Int
  BY CostIs
<1>2. /\ \A t \in L : U[t].complete /\ U[t].use \in Nat
      /\ Estimate!Cost(ref, purpose, d, RowsOf(U)) = SumFunctionOnSet(g, L)
      /\ Estimate!Cost(ref, purpose, d, RowsOf(U)) \in Int
  BY CostIs
<1>3. K \in SUBSET L /\ \A t \in K : U[t].use = T[t].use
  BY <1>1
<1>4. IsFiniteSet(L)
  <2>1. L \in SUBSET DOMAIN U
    BY DEF TasksOf
  <2> HIDE DEF L
  <2> QED BY <2>1, FS_Subset DEF Rows
<1> HIDE DEF K, L
<1>5. /\ \A t \in L : g[t] \in Int /\ 0 <= g[t]
      /\ \A t \in K : h[t] \in Int /\ h[t] <= g[t]
  BY <1>1, <1>2, <1>3
<1> HIDE DEF g, h
<1>6. SumFunctionOnSet(h, K) <= SumFunctionOnSet(g, L)
  BY <1>3, <1>4, <1>5, SumRises
<1> QED BY <1>1, <1>2, <1>6

(* A credit is what the cheapest of the tasks compared with used, or       *)
(* nothing for a reuse that is not verified (estimation.py, credit).       *)
LEMMA CreditIs ==
    ASSUME NEW task, NEW B, \A b \in B : b.use \in Nat \cup {None},
           Estimate!Candidates(task, B) # {}
    PROVE  /\ Estimate!Credit(task, B) \in Nat
           /\ ~task.verified => Estimate!Credit(task, B) = 0
           /\ task.verified => /\ \E b \in Estimate!Candidates(task, B) : Estimate!Credit(task, B) = b.use
                               /\ \A b \in Estimate!Candidates(task, B) : Estimate!Credit(task, B) <= b.use
<1> DEFINE C == Estimate!Candidates(task, B)
           I == {b.use : b \in C}
<1>1. \A b \in C : b.use \in Nat
  BY DEF Estimate!Candidates
<1>2. I \in SUBSET Nat /\ I # {}
  BY <1>1
<1>3. Estimate!Min(I) = Min(I)
  BY DEF Min, Estimate!Min
<1>4. task.verified => Estimate!Credit(task, B) = Min(I)
  BY <1>3 DEF Estimate!Credit
<1>5. ~task.verified => Estimate!Credit(task, B) = 0
  BY DEF Estimate!Credit
<1>6. Min(I) \in I /\ \A y \in I : Min(I) =< y
  <2> HIDE DEF I
  <2> QED BY <1>2, LeastIsIn
<1> HIDE DEF C
<1>7. /\ Min(I) \in Nat /\ \E b \in C : Min(I) = b.use
      /\ \A b \in C : Min(I) <= b.use
  BY <1>2, <1>6
<1> HIDE DEF I
<1> QED BY <1>4, <1>5, <1>7 DEF C

(* What reuses saved is, of each, its credit less its use (estimation.py). *)
LEMMA OperationalIs ==
    ASSUME NEW T, Rows(T), NEW B, \A b \in B : b.use \in Nat \cup {None}, NEW ref,
           Estimate!Comparable(ref, RowsOf(T), B)
    PROVE  LET K == TasksOf(T, ref, "reuse")
               saved == Estimate!Operational(ref, RowsOf(T), B)
           IN /\ \A t \in K : /\ T[t].complete /\ T[t].use \in Nat
                              /\ Estimate!Candidates(T[t], B) # {}
              /\ saved = SumFunctionOnSet([t \in K |-> Estimate!Credit(T[t], B) - T[t].use], K)
              /\ saved \in Int
<1> DEFINE K == TasksOf(T, ref, "reuse")
           E == Estimate!Of(ref, "reuse", RowsOf(T))
           g == [e \in E |-> Estimate!Credit(e, B) - e.use]
           saved == Estimate!Operational(ref, RowsOf(T), B)
<1>1. E = {T[t] : t \in K}
  BY DEF Estimate!Of, RowsOf, TasksOf
<1>2. Estimate!Known(E) /\ \A e \in E : Estimate!Candidates(e, B) # {}
  BY DEF Estimate!Comparable
<1>3. \A t \in K : T[t] \in E
  BY <1>1
<1>4. \A t \in K : T[t].complete /\ T[t].use # None /\ Estimate!Candidates(T[t], B) # {}
  BY <1>2, <1>3 DEF Estimate!Known
<1>5. K \in SUBSET DOMAIN T
  BY DEF TasksOf
<1>6. \A t \in K : T[t].use \in Nat
  BY <1>4, <1>5 DEF Rows
<1>7. saved = SumFunction(g)
  BY EstimateSums DEF Estimate!Operational
<1>8. DOMAIN g = {T[t] : t \in K} /\ \A t \in K : g[T[t]] = Estimate!Credit(T[t], B) - T[t].use
  BY <1>1, <1>3
<1>9. \A t \in K : Estimate!Credit(T[t], B) \in Nat
  <2> HIDE DEF K
  <2> QED BY <1>4, CreditIs
<1> DEFINE h == [t \in K |-> g[T[t]]]
           u == [t \in K |-> Estimate!Credit(T[t], B) - T[t].use]
<1>10. h = u
  <2> HIDE DEF g, K
  <2> QED BY <1>8
<1> HIDE DEF g, K, E, saved
<1>11. SumFunction(g) = SumFunctionOnSet(h, K) /\ SumFunction(g) \in Int
  <2>1. \A t \in K : g[T[t]] \in Int
    BY <1>6, <1>8, <1>9
  <2> QED BY <1>5, <1>8, <2>1, SumByTask
<1>12. saved = SumFunctionOnSet(u, K) /\ saved \in Int
  <2> HIDE DEF h, u
  <2> QED BY <1>7, <1>10, <1>11
<1> QED BY <1>4, <1>6, <1>12 DEF saved, K

\* what a step leaves of the tasks T and their baselines B, in U and C, when
\* no reuse is verified by it and no baseline lost
GoesOn(ref, T, B, U, C) ==
    /\ \A t \in DOMAIN T \cap DOMAIN U : T[t].complete => StaysTold(T[t], U[t])
    /\ \A t \in DOMAIN T : T[t].ref = ref => t \in DOMAIN U
    /\ \A b \in B : b.purpose = "manual" /\ b.verified =>
          \E c \in C : c.task = b.task /\ c.purpose = "manual" /\ c.verified
    /\ \A t \in DOMAIN U : U[t].purpose = "reuse" /\ U[t].verified =>
          /\ t \in DOMAIN T /\ T[t].purpose = "reuse" /\ T[t].verified
          /\ U[t].ref = ref => T[t].ref = ref

(* A reuse that was credited is not credited more: whatever it was         *)
(* compared with is still there (estimation.py, credit).                   *)
LEMMA CreditFalls ==
    ASSUME NEW T, Rows(T), NEW U, Rows(U), NEW B \in SUBSET RowsOf(T), NEW C \in SUBSET RowsOf(U),
           NEW ref, GoesOn(ref, T, B, U, C),
           NEW t \in DOMAIN T \cap DOMAIN U, T[t].complete, T[t].purpose = "reuse",
           Estimate!Candidates(T[t], B) # {}, Estimate!Candidates(U[t], C) # {}
    PROVE  Estimate!Credit(U[t], C) <= Estimate!Credit(T[t], B)
<1>1. (\A b \in B : b.use \in Nat \cup {None}) /\ \A c \in C : c.use \in Nat \cup {None}
  BY DEF Rows, RowsOf
<1>2. Estimate!Credit(T[t], B) \in Nat
  BY <1>1, CreditIs
<1>3. CASE ~U[t].verified
  <2>1. Estimate!Credit(U[t], C) = 0
    BY <1>1, <1>3, CreditIs
  <2> QED BY <1>2, <2>1
<1>4. CASE U[t].verified
  <2>1. StaysTold(T[t], U[t])
    BY DEF GoesOn
  <2>2. T[t].verified
    BY <1>4, <2>1 DEF GoesOn, StaysTold
  <2>3. PICK b \in Estimate!Candidates(T[t], B) : Estimate!Credit(T[t], B) = b.use
    BY <1>1, <2>2, CreditIs
  <2>4. /\ b \in B /\ b.purpose = "manual" /\ b.verified /\ b.complete
        /\ b.model # None /\ b.use # None
        /\ b.host = T[t].host /\ b.model = T[t].model /\ b.workload = T[t].workload
    BY <2>3 DEF Estimate!Candidates
  <2>5. PICK c \in C : c.task = b.task /\ c.purpose = "manual" /\ c.verified
    BY <2>4 DEF GoesOn
  <2>6. b.task \in DOMAIN T \cap DOMAIN U /\ b = T[b.task] /\ c = U[b.task]
    BY <2>4, <2>5 DEF Rows, RowsOf
  <2>7. StaysTold(b, c)
    BY <2>4, <2>6 DEF GoesOn
  <2>8. c \in Estimate!Candidates(U[t], C)
    BY <2>1, <2>4, <2>5, <2>7 DEF Estimate!Candidates, StaysTold
  <2>9. Estimate!Credit(U[t], C) <= c.use
    BY <1>1, <1>4, <2>8, CreditIs
  <2> QED BY <2>3, <2>7, <2>9 DEF StaysTold
<1> QED BY <1>3, <1>4

(* What reuses saved does not become more (estimation.py, assess).         *)
LEMMA OperationalFalls ==
    ASSUME NEW T, Rows(T), NEW U, Rows(U), NEW B \in SUBSET RowsOf(T), NEW C \in SUBSET RowsOf(U),
           NEW ref, GoesOn(ref, T, B, U, C),
           Estimate!Comparable(ref, RowsOf(T), B), Estimate!Comparable(ref, RowsOf(U), C)
    PROVE  /\ Estimate!Operational(ref, RowsOf(T), B) \in Int
           /\ Estimate!Operational(ref, RowsOf(U), C) \in Int
           /\ Estimate!Operational(ref, RowsOf(U), C) <= Estimate!Operational(ref, RowsOf(T), B)
<1> DEFINE K == TasksOf(T, ref, "reuse")
           L == TasksOf(U, ref, "reuse")
           h == [t \in K |-> Estimate!Credit(T[t], B) - T[t].use]
           g == [t \in L |-> Estimate!Credit(U[t], C) - U[t].use]
<1>0. (\A b \in B : b.use \in Nat \cup {None}) /\ \A c \in C : c.use \in Nat \cup {None}
  BY DEF Rows, RowsOf
<1>1. /\ \A t \in K : T[t].complete /\ T[t].use \in Nat /\ Estimate!Candidates(T[t], B) # {}
      /\ Estimate!Operational(ref, RowsOf(T), B) = SumFunctionOnSet(h, K)
      /\ Estimate!Operational(ref, RowsOf(T), B) \in Int
  BY <1>0, OperationalIs
<1>2. /\ \A t \in L : U[t].complete /\ U[t].use \in Nat /\ Estimate!Candidates(U[t], C) # {}
      /\ Estimate!Operational(ref, RowsOf(U), C) = SumFunctionOnSet(g, L)
      /\ Estimate!Operational(ref, RowsOf(U), C) \in Int
  BY <1>0, OperationalIs
<1>3. ASSUME NEW t \in K
      PROVE  t \in L /\ t \in DOMAIN T \cap DOMAIN U /\ U[t].use = T[t].use
  BY <1>1 DEF TasksOf, GoesOn, StaysTold
<1>4. IsFiniteSet(L)
  <2>1. L \in SUBSET DOMAIN U
    BY DEF TasksOf
  <2> HIDE DEF L
  <2> QED BY <2>1, FS_Subset DEF Rows
<1>5. ASSUME NEW t \in L PROVE Estimate!Credit(U[t], C) \in Nat /\ U[t].use \in Nat
  <2> HIDE DEF L
  <2> QED BY <1>0, <1>2, CreditIs
<1>6. ASSUME NEW t \in K
      PROVE  /\ Estimate!Credit(T[t], B) \in Nat /\ T[t].use \in Nat
             /\ Estimate!Credit(U[t], C) <= Estimate!Credit(T[t], B)
  <2>1. T[t].purpose = "reuse"
    BY DEF TasksOf
  <2> HIDE DEF K, L
  <2> QED BY <1>0, <1>1, <1>2, <1>3, <2>1, CreditIs, CreditFalls
<1>7. ASSUME NEW t \in L \ K PROVE Estimate!Credit(U[t], C) = 0
  <2>1. t \in DOMAIN U /\ U[t].ref = ref /\ U[t].purpose = "reuse" /\ t \notin K
    BY DEF TasksOf
  <2>2. ~U[t].verified
    BY <2>1 DEF GoesOn, TasksOf
  <2>3. Estimate!Candidates(U[t], C) # {}
    BY <1>2
  <2> QED BY <1>0, <2>2, <2>3, CreditIs
<1>8. K \in SUBSET L
  BY <1>3
<1> HIDE DEF K, L
<1>9. /\ \A t \in L : g[t] \in Int
      /\ \A t \in K : h[t] \in Int /\ g[t] <= h[t]
      /\ \A t \in L \ K : g[t] <= 0
  <2>1. ASSUME NEW t \in L PROVE g[t] \in Int
    BY <1>5
  <2>2. ASSUME NEW t \in K PROVE h[t] \in Int /\ g[t] <= h[t]
    <3>1. h[t] = Estimate!Credit(T[t], B) - T[t].use /\ g[t] = Estimate!Credit(U[t], C) - U[t].use
      BY <1>8
    <3> HIDE DEF g, h
    <3> QED BY <1>3, <1>5, <1>6, <3>1
  <2>3. ASSUME NEW t \in L \ K PROVE g[t] <= 0
    BY <1>5, <1>7
  <2> QED BY <2>1, <2>2, <2>3
<1> HIDE DEF g, h
<1>10. SumFunctionOnSet(g, L) <= SumFunctionOnSet(h, K)
  BY <1>4, <1>8, <1>9, SumFalls
<1> QED BY <1>1, <1>2, <1>10

(* A known net saving does not become more when no reuse is verified and   *)
(* no baseline is lost (estimation.py, estimated_net_savings).             *)
LEMMA NetFalls ==
    ASSUME NEW T, Rows(T), NEW U, Rows(U), NEW B \in SUBSET RowsOf(T), NEW C \in SUBSET RowsOf(U),
           NEW ref, GoesOn(ref, T, B, U, C), NEW c, NEW d,
           Estimate!Net(ref, RowsOf(T), B, c) # None, Estimate!Net(ref, RowsOf(U), C, d) # None
    PROVE  ~(Estimate!Net(ref, RowsOf(U), C, d) > Estimate!Net(ref, RowsOf(T), B, c))
<1> DEFINE before(purpose, x) == Estimate!Cost(ref, purpose, x, RowsOf(T))
           after(purpose, x) == Estimate!Cost(ref, purpose, x, RowsOf(U))
           made == before("creation", c.setup)
           kept == before("maintenance", c.upkeep)
           making == after("creation", d.setup)
           keeping == after("maintenance", d.upkeep)
           saved == Estimate!Operational(ref, RowsOf(T), B)
           saving == Estimate!Operational(ref, RowsOf(U), C)
<1>1. /\ Estimate!Comparable(ref, RowsOf(T), B) /\ made # None /\ kept # None
      /\ Estimate!Net(ref, RowsOf(T), B, c) = saved - made - kept
  BY DEF Estimate!Net
<1>2. /\ Estimate!Comparable(ref, RowsOf(U), C) /\ making # None /\ keeping # None
      /\ Estimate!Net(ref, RowsOf(U), C, d) = saving - making - keeping
  BY DEF Estimate!Net
<1>3. saved \in Int /\ saving \in Int /\ saving <= saved
  BY <1>1, <1>2, OperationalFalls
<1>4. ASSUME NEW purpose, NEW t \in TasksOf(T, ref, purpose), T[t].complete
      PROVE  t \in TasksOf(U, ref, purpose) /\ U[t].use = T[t].use
  BY <1>4 DEF TasksOf, GoesOn, StaysTold
<1>5. made \in Int /\ making \in Int /\ made <= making
  BY <1>1, <1>2, <1>4, CostsRise
<1>6. kept \in Int /\ keeping \in Int /\ kept <= keeping
  BY <1>1, <1>2, <1>4, CostsRise
<1> HIDE DEF made, kept, making, keeping, saved, saving
<1> QED BY <1>1, <1>2, <1>3, <1>5, <1>6

(* The recorded tasks are rows, and baselines are some of them             *)
(* (measurement/repository.py, tasks and baselines).                       *)
LEMMA RecordedAreRows ==
    ASSUME LedgerInv, NEW ref
    PROVE  Rows(tasks) /\ Recorded = RowsOf(tasks) /\ Baselines(ref) \in SUBSET RowsOf(tasks)
<1>1. Rows(tasks)
  <2>1. \A t \in Stored : tasks[t].task = t /\ tasks[t] \in Seen
    BY DEF LedgerInv, Kept, IsRead
  <2>2. \A t \in Stored : tasks[t].use \in Nat \cup {None}
    BY <2>1 DEF Seen
  <2> QED BY <2>1, <2>2 DEF LedgerInv, Rows, Stored
<1> QED BY <1>1 DEF Recorded, RowsOf, Baselines, Stored

(* A credited reuse that is taken for the workflow's after a step was      *)
(* taken for it before: its runs say whose it is, and only more are named  *)
(* (measurement/service.py, ingest; repository.py, put).                   *)
LEMMA WorkflowStays ==
    ASSUME LedgerInv, LedgerInv', [MeasurementNext]_measurementVars, NEW ref \in Refs,
           NEW t \in Stored, t \in Stored', tasks[t].purpose = "reuse", tasks[t].verified,
           tasks'[t].ref = ref
    PROVE  tasks[t].ref = ref
<1>1. CASE tasks'[t] = tasks[t]
  BY <1>1
<1>2. ASSUME NEW p \in Procs, Store(p), tasks'[t] # tasks[t] PROVE tasks[t].ref = ref
  <2> DEFINE o == job[p].seen
  <2>1. Accepts(o) /\ tasks' = Put(tasks, o.task, o)
    BY <1>2 DEF Store
  <2>2. OwnRef(o)
    BY <1>2 DEF Store, LedgerInv, JobTyped
  <2> HIDE DEF o
  <2>3. t = o.task /\ tasks'[t] = o
    BY <1>2, <2>1 DEF Put, Stored
  <2>4. tasks[t].runs \subseteq o.runs
    BY <2>1, <2>3 DEF Accepts, Replaces
  <2>5. tasks[t].runs # {} /\ OwnRef(tasks[t])
    BY DEF LedgerInv, MeasurementInv, PutSound, Earned, Kept
  <2>6. RefsOf(o.runs) = {ref}
    BY <2>2, <2>3, <2>4, <2>5 DEF OwnRef
  <2>7. RefsOf(tasks[t].runs) = {ref}
    BY <2>4, <2>5, <2>6 DEF RefsOf
  <2> QED BY <2>5, <2>7 DEF OwnRef
<1>3. CASE Retain
  <2>1. tasks'[t] = tasks[t]
    BY <1>3 DEF Retain, Stored
  <2> QED BY <1>1, <2>1
<1>4. UNCHANGED tasks \/ Retain \/ \E p \in Procs : Store(p)
  BY Steps, ElsewhereKeepsRecords
     DEF LedgerInv, RunMoves, RunStarts, RunIsRemoved, RunEnds, RunChanges, Outside, Declare,
         Write, Tick, ledgerVars, measurementVars
<1> QED BY <1>1, <1>2, <1>3, <1>4

(* Nothing of a workflow is forgotten while its net saving is known: that  *)
(* undeclares its costs (measurement/repository.py, retain_since).         *)
LEMMA KnownStays ==
    ASSUME LedgerInv, [MeasurementNext]_measurementVars, NEW ref \in Refs,
           NetSaving(ref)' # None, NEW t \in Stored, tasks[t].ref = ref
    PROVE  t \in Stored'
<1>1. CASE Retain
  <2>1. Stored' = Stored \ Old
    BY <1>1 DEF Retain, Stored
  <2>2. t \in Old => coverage'[ref] = Undeclared
    BY <1>1 DEF Retain, Uncovered
  <2>3. coverage'[ref] # Undeclared
    <3>1. coverage'[ref].setup
      BY DEF NetSaving, Estimate!Net, Estimate!Cost
    <3> QED BY <3>1 DEF Undeclared
  <2> QED BY <2>1, <2>2, <2>3
<1>2. ASSUME NEW p \in Procs, Store(p) PROVE t \in Stored'
  BY <1>2 DEF Store, Put, Stored
<1>3. CASE UNCHANGED tasks
  BY <1>3 DEF Stored
<1>4. UNCHANGED tasks \/ Retain \/ \E p \in Procs : Store(p)
  BY Steps, ElsewhereKeepsRecords
     DEF LedgerInv, RunMoves, RunStarts, RunIsRemoved, RunEnds, RunChanges, Outside, Declare,
         Write, Tick, ledgerVars, measurementVars
<1> QED BY <1>1, <1>2, <1>3, <1>4

(* A step that verifies no reuse and loses no baseline goes on with what   *)
(* was recorded (the ledger's handlers).                                   *)
LEMMA StepGoesOn ==
    ASSUME LedgerInv, LedgerInv', [MeasurementNext]_measurementVars, NEW ref \in Refs,
           NetSaving(ref)' # None,
           Credited' \subseteq Credited, Compared(ref) \subseteq Compared(ref)'
    PROVE  GoesOn(ref, tasks, Baselines(ref), tasks', Baselines(ref)')
<1>1. \A t \in DOMAIN tasks \cap DOMAIN tasks' : tasks[t].complete => StaysTold(tasks[t], tasks'[t])
  BY ToldStays DEF Stored
<1>2. \A t \in DOMAIN tasks : tasks[t].ref = ref => t \in DOMAIN tasks'
  BY KnownStays DEF Stored
<1>3. ASSUME NEW b \in Baselines(ref), b.purpose = "manual", b.verified
      PROVE  \E c \in Baselines(ref)' : c.task = b.task /\ c.purpose = "manual" /\ c.verified
  <2>1. b.task \in Compared(ref)'
    BY <1>3 DEF Compared
  <2> QED BY <2>1 DEF Compared
<1>4. ASSUME NEW t \in DOMAIN tasks', tasks'[t].purpose = "reuse", tasks'[t].verified
      PROVE  /\ t \in DOMAIN tasks /\ tasks[t].purpose = "reuse" /\ tasks[t].verified
             /\ tasks'[t].ref = ref => tasks[t].ref = ref
  <2>1. t \in Credited
    BY <1>4 DEF Credited, Stored
  <2>2. t \in Stored /\ t \in Stored' /\ tasks[t].purpose = "reuse" /\ tasks[t].verified
    BY <2>1 DEF Credited, Stored
  <2>3. tasks'[t].ref = ref => tasks[t].ref = ref
    BY <2>2, WorkflowStays
  <2> QED BY <2>2, <2>3 DEF Stored
<1> QED BY <1>1, <1>2, <1>3, <1>4 DEF GoesOn

(* A known net saving grows only because a reuse was verified or a         *)
(* baseline is gone, in every ledger (estimation.py, assess).              *)
THEOREM EstimatesRise == MeasurementSpec => EstimatesRiseForCause
<1>1. ASSUME LedgerInv, LedgerInv', [MeasurementNext]_measurementVars, NEW ref \in Refs,
             NetSaving(ref) # None, NetSaving(ref)' # None, NetSaving(ref)' > NetSaving(ref)
      PROVE  ~(Credited' \subseteq Credited) \/ ~(Compared(ref) \subseteq Compared(ref)')
  <2> SUFFICES ASSUME Credited' \subseteq Credited, Compared(ref) \subseteq Compared(ref)'
               PROVE  FALSE
    OBVIOUS
  <2> DEFINE B == Baselines(ref)
             C == Baselines(ref)'
             T == tasks
             U == tasks'
             c == coverage[ref]
             d == coverage'[ref]
  <2>1. Rows(T) /\ Recorded = RowsOf(T) /\ B \in SUBSET RowsOf(T)
    BY <1>1, RecordedAreRows
  <2>2. Rows(U) /\ Recorded' = RowsOf(U) /\ C \in SUBSET RowsOf(U)
    <3>1. (Rows(tasks) /\ Recorded = RowsOf(tasks) /\ Baselines(ref) \in SUBSET RowsOf(tasks))'
      BY <1>1, RecordedAreRows, PTL
    <3> QED BY <3>1 DEF Rows, RowsOf
  <2>3. GoesOn(ref, T, B, U, C)
    BY <1>1, StepGoesOn
  <2>4. /\ NetSaving(ref) = Estimate!Net(ref, RowsOf(T), B, c)
        /\ NetSaving(ref)' = Estimate!Net(ref, RowsOf(U), C, d)
    BY <2>1, <2>2 DEF NetSaving
  <2> HIDE DEF B, C, T, U, c, d
  <2>5. ~(NetSaving(ref)' > NetSaving(ref))
    BY <1>1, <2>1, <2>2, <2>3, <2>4, NetFalls
  <2> QED BY <1>1, <2>5
<1>2. LedgerInv /\ LedgerInv' /\ [MeasurementNext]_measurementVars =>
        [\A ref \in Refs :
           NetSaving(ref) # None /\ NetSaving(ref)' # None /\ NetSaving(ref)' > NetSaving(ref)
             => ~(Credited' \subseteq Credited) \/ ~(Compared(ref) \subseteq Compared(ref)')]_ledgerVars
  BY <1>1
<1> QED BY <1>2, LedgerInvariant, PTL DEF MeasurementSpec, EstimatesRiseForCause

-----------------------------------------------------------------------------
(* The tasks of a session used no more than it spent.                      *)

(* The count that is current changes at the lines that count.              *)
LEMMA CountAtIs ==
    ASSUME NEW L, Len(L) \in Nat
    PROVE  /\ CountAt(L, 0) = None
           /\ \A n \in 1..Len(L) : CountAt(L, n) = IF L[n].kind = "count" THEN L[n].use
                                                   ELSE CountAt(L, n - 1)
<1> DEFINE z == Len(L) + 1
<1>1. z \in Nat /\ \A n \in 1..Len(L) : ~(n >= z)
  OBVIOUS
<1> HIDE DEF z
<1>2. /\ FedUpTo(L, z, 0) = Unread
      /\ \A n \in 1..Len(L) : Adds(FedUpTo(L, z, n - 1), FedUpTo(L, z, n), L[n], n, z)
  BY <1>1, FedAdds
<1>3. FedUpTo(L, z, 0).initial = None
  BY <1>2 DEF Unread
<1>4. ASSUME NEW n \in 1..Len(L)
      PROVE  FedUpTo(L, z, n).initial = IF L[n].kind = "count" THEN L[n].use
                                        ELSE FedUpTo(L, z, n - 1).initial
  BY <1>1, <1>2 DEF Adds
<1> QED BY <1>3, <1>4 DEF CountAt, z

\* what is counted after n lines
Counts(L) == [n \in 0..Len(L) |-> IF CountAt(L, n) = None THEN 0 ELSE CountAt(L, n)]

(* What is counted is nothing at first, and then what a line says.         *)
LEMMA CountsAre ==
    ASSUME NEW L, Len(L) \in Nat, \A n \in 1..Len(L) : L[n].use \in Nat
    PROVE  \A n \in 0..Len(L) : /\ Counts(L)[n] \in Nat
                                /\ \/ Counts(L)[n] = 0
                                   \/ \E j \in 1..n : L[j].kind = "count" /\ Counts(L)[n] = L[j].use
<1> DEFINE c(n) == Counts(L)[n]
           S == {n \in 0..Len(L) : c(n) \in Nat /\ (c(n) = 0 \/ \E j \in 1..n : L[j].kind = "count"
                                                                               /\ c(n) = L[j].use)}
<1>1. 0 \in S
  BY CountAtIs DEF Counts
<1>2. ASSUME NEW n \in 1..Len(L), n - 1 \in S PROVE n \in S
  <2>1. CountAt(L, n) = IF L[n].kind = "count" THEN L[n].use ELSE CountAt(L, n - 1)
    BY CountAtIs
  <2>2. L[n].use \in Nat /\ L[n].use # None
    BY MeasurementAssumption
  <2>3. c(n) = IF L[n].kind = "count" THEN L[n].use ELSE c(n - 1)
    BY <2>1, <2>2 DEF Counts
  <2> HIDE DEF c
  <2> QED BY <1>2, <2>2, <2>3
<1> HIDE DEF S
<1>3. \A n \in 0..Len(L) : n \in S
  BY <1>1, <1>2, UpTo
<1> QED BY <1>3 DEF S

\* ranges of a session, the use of each, and nothing in their way
Ranges(L, T, a, k, u) ==
    /\ IsFiniteSet(T)
    /\ \A t \in T : /\ a[t] \in Nat /\ k[t] \in Nat /\ 1 <= a[t] /\ a[t] <= k[t] /\ k[t] <= Len(L)
                    /\ u[t] \in Nat /\ u[t] = Consumption(FedUpTo(L, a[t], k[t]))
                    /\ FedUpTo(L, a[t], k[t]).issues = {}
    /\ \A s, t \in T : s # t => k[s] < a[t] \/ k[t] < a[s]

(* Ranges of a session that counts up hold together no more than its       *)
(* counter has reached (host_events.py, consumption; decoding.py).         *)
LEMMA CountsAddUp ==
    ASSUME NEW L, Len(L) \in Nat, \A n \in 1..Len(L) : L[n].use \in Nat,
           \A n \in 1..Len(L) : L[n].kind \notin {"turn", "message", "result"},
           NEW T, NEW a, NEW k, NEW u, Ranges(L, T, a, k, u)
    PROVE  \/ SumFunctionOnSet(u, T) = 0
           \/ \E n \in 1..Len(L) : L[n].kind = "count" /\ SumFunctionOnSet(u, T) <= L[n].use
<1>1. CASE T = {}
  BY <1>1, SumOfEmpty
<1>2. CASE T # {}
  <2> DEFINE N == Len(L)
             ends == {k[t] : t \in T}
             K == Max(ends)
  <2>1. K \in ends /\ \A t \in T : k[t] <= K
    <3>1. ends \in SUBSET Nat /\ ends # {} /\ N \in Nat /\ \A y \in ends : y <= N
      BY <1>2 DEF Ranges
    <3>2. Max(ends) \in ends /\ \A y \in ends : y <= Max(ends)
      <4> HIDE DEF ends
      <4> QED BY <3>1, MostIsIn
    <3> QED BY <3>2
  <2>2. PICK t \in T : k[t] = K
    BY <2>1
  <2> HIDE DEF K
  <2>3. K \in 0..N /\ FedUpTo(L, a[t], K).issues = {} /\ a[t] \in Nat /\ a[t] # 0
    <3>1. /\ a[t] \in Nat /\ k[t] \in Nat /\ 1 <= a[t] /\ k[t] <= Len(L)
          /\ FedUpTo(L, a[t], k[t]).issues = {}
      BY DEF Ranges
    <3> QED BY <2>2, <3>1
  <2>4. \A n \in 1..N : L[n].kind # "result" /\ L[n].use # None
    BY MeasurementAssumption
  <2> DEFINE G == Counts(L)
  <2>5. \A n \in 0..N : G[n] \in Nat
    BY CountsAre
  <2>6. ASSUME NEW n \in 1..K PROVE G[n - 1] <= G[n]
    <3> DEFINE s(i) == FedUpTo(L, a[t], i)
    <3>0. n \in 1..N /\ n - 1 \in 0..N /\ n \in 0..N /\ n \in 0..K
      BY <2>3
    <3>1. CountAt(L, n) = IF L[n].kind = "count" THEN L[n].use ELSE CountAt(L, n - 1)
      BY <3>0, CountAtIs
    <3>2. CASE L[n].kind # "count"
      BY <2>5, <3>0, <3>1, <3>2 DEF Counts
    <3>3. CASE L[n].kind = "count"
      <4>1. s(n).issues = {}
        BY <2>3, <3>0, IssuesStay
      <4>2. Adds(s(n - 1), s(n), L[n], n, a[t])
        BY <2>3, <3>0, FedAdds
      <4>3. Current(s(n - 1)) = CountAt(L, n - 1)
        BY <2>3, <2>4, <3>0, CurrentIs
      <4>4. ~(CountAt(L, n - 1) # None /\ L[n].use < CountAt(L, n - 1))
        BY <3>3, <4>1, <4>2, <4>3 DEF Adds
      <4>5. L[n].use \in Nat /\ L[n].use # None
        BY <2>4, <3>0
      <4>6. G[n] = L[n].use /\ G[n - 1] = IF CountAt(L, n - 1) = None THEN 0 ELSE CountAt(L, n - 1)
        BY <3>0, <3>1, <3>3, <4>5 DEF Counts
      <4> QED BY <2>5, <3>0, <4>4, <4>5, <4>6
    <3> QED BY <3>2, <3>3
  <2>7. ASSUME NEW r \in T PROVE u[r] + G[a[r] - 1] <= G[k[r]]
    <3> DEFINE s == FedUpTo(L, a[r], k[r])
    <3>1. /\ a[r] \in Nat /\ a[r] # 0 /\ k[r] \in 0..N /\ k[r] >= a[r] /\ a[r] - 1 \in 0..N
          /\ u[r] \in Nat /\ u[r] = Consumption(s)
      BY DEF Ranges
    <3>2. Current(s) = CountAt(L, k[r]) /\ s.initial = CountAt(L, a[r] - 1)
      BY <2>4, <3>1, CurrentIs
    <3>3. DOMAIN s.uses = {}
      <4>1. \A x \in DOMAIN s.uses : \E j : Tells(L, a[r], k[r], x, s.uses[x], j)
        BY <3>1, UsesAreTold
      <4>2. \A j \in 1..k[r] : L[j].kind \notin {"turn", "message"}
        BY <3>1
      <4> HIDE DEF s
      <4> QED BY <4>1, <4>2 DEF Tells
    <3>4. Total(s.uses) = None
      BY <3>3 DEF Total
    <3> HIDE DEF s
    <3>5. None \notin Nat
      BY MeasurementAssumption
    <3>6. s.last # None /\ s.last = CountAt(L, k[r])
      BY <3>1, <3>2, <3>4, <3>5 DEF Consumption, Current
    <3>7. u[r] = IF s.initial = None THEN s.last
                 ELSE IF s.last >= s.initial THEN s.last - s.initial ELSE None
      BY <3>1, <3>6 DEF Consumption
    <3>8. /\ G[k[r]] = s.last
          /\ G[a[r] - 1] = IF s.initial = None THEN 0 ELSE s.initial
      BY <3>1, <3>2, <3>6 DEF Counts
    <3>9. G[k[r]] \in Nat /\ G[a[r] - 1] \in Nat
      BY <2>5, <3>1
    <3> HIDE DEF G
    <3> QED BY <3>1, <3>5, <3>7, <3>8, <3>9
  <2> HIDE DEF G
  <2>8. SumFunctionOnSet(u, T) <= G[K]
    <3>1. K \in Nat /\ (\A n \in 0..K : G[n] \in Nat) /\ \A n \in 1..K : G[n - 1] <= G[n]
      BY <2>3, <2>5, <2>6
    <3>2. \A r \in T : /\ a[r] \in Nat /\ k[r] \in Nat /\ 1 <= a[r] /\ a[r] <= k[r] /\ k[r] <= K
                       /\ u[r] \in Nat /\ u[r] + G[a[r] - 1] <= G[k[r]]
      BY <2>1, <2>7 DEF Ranges
    <3>3. IsFiniteSet(T) /\ \A r, q \in T : r # q => k[r] < a[q] \/ k[q] < a[r]
      BY DEF Ranges
    <3> QED BY <3>1, <3>2, <3>3, RangesAddUp
  <2>9. /\ G[K] \in Nat
        /\ G[K] = 0 \/ \E j \in 1..K : L[j].kind = "count" /\ G[K] = L[j].use
    BY <2>3, CountsAre DEF G
  <2>10. SumFunctionOnSet(u, T) \in Nat
    BY SumIsNat DEF Ranges
  <2> QED BY <2>3, <2>8, <2>9, <2>10
<1> QED BY <1>1, <1>2

(* The uses that are read are finitely many.                               *)
LEMMA UsesAreFinite ==
    ASSUME NEW L, Len(L) \in Nat, NEW a \in Nat
    PROVE  \A n \in 0..Len(L) : IsFiniteSet(DOMAIN FedUpTo(L, a, n).uses)
<1> DEFINE U(n) == FedUpTo(L, a, n).uses
           S == {n \in 0..Len(L) : IsFiniteSet(DOMAIN U(n))}
<1>1. 0 \in S
  <2>1. U(0) = << >>
    BY FedAdds DEF Unread
  <2>2. DOMAIN U(0) = {}
    BY <2>1
  <2> QED BY <2>2, FS_EmptySet
<1>2. ASSUME NEW n \in 1..Len(L), n - 1 \in S PROVE n \in S
  <2>1. Adds(FedUpTo(L, a, n - 1), FedUpTo(L, a, n), L[n], n, a)
    BY FedAdds
  <2>2. U(n) = U(n - 1) \/ \E x : U(n) = Put(U(n - 1), x, L[n].use)
    BY <2>1 DEF Adds
  <2> HIDE DEF U
  <2>3. DOMAIN U(n) = DOMAIN U(n - 1) \/ \E x : DOMAIN U(n) = DOMAIN U(n - 1) \cup {x}
    BY <2>2 DEF Put
  <2>4. IsFiniteSet(DOMAIN U(n - 1))
    BY <1>2
  <2> DEFINE V == DOMAIN U(n - 1)
  <2>5. \A x : IsFiniteSet(V \cup {x})
    <3> HIDE DEF V
    <3> QED BY <2>4, FS_AddElement DEF V
  <2>6. IsFiniteSet(DOMAIN U(n))
    BY Zenon, <2>3, <2>4, <2>5
  <2> QED BY <2>6 DEF U
<1> HIDE DEF S
<1>3. \A n \in 0..Len(L) : n \in S
  BY <1>1, <1>2, UpTo
<1> QED BY <1>3 DEF S

(* Where a range ends with no count and no summary, its use is the sum of  *)
(* its turns and answers (host_events.py, consumption; decoding.py, total).*)
LEMMA UseIsSum ==
    ASSUME NEW L, Len(L) \in Nat, NEW a \in Nat, NEW k \in 0..Len(L),
           FedUpTo(L, a, k).last = None, Consumption(FedUpTo(L, a, k)) \in Nat
    PROVE  LET uses == FedUpTo(L, a, k).uses
           IN IsFiniteSet(DOMAIN uses) /\ Consumption(FedUpTo(L, a, k)) = SumFunctionOnSet(uses, DOMAIN uses)
<1> DEFINE s == FedUpTo(L, a, k)
<1>1. Consumption(s) = Total(s.uses)
  BY DEF Consumption
<1>2. Total(s.uses) # None
  BY <1>1, MeasurementAssumption
<1>3. Total(s.uses) = SumFunctionOnSet(s.uses, DOMAIN s.uses)
  BY <1>2 DEF Total, SumFunction
<1> QED BY <1>1, <1>3, UsesAreFinite

(* A measure that sums over what the lines so far bring: a range whose     *)
(* uses are no more than what is brought within it adds no more.           *)
LEMMA MeasureGrows ==
    ASSUME NEW E, IsFiniteSet(E), NEW h, \A x \in E : h[x] \in Nat,
           NEW B \in SUBSET E, NEW A \in SUBSET B, NEW C \in SUBSET (B \ A),
           NEW v, v <= SumFunctionOnSet(h, C), v \in Nat
    PROVE  v + SumFunctionOnSet(h, A) <= SumFunctionOnSet(h, B)
<1> DEFINE H(T) == SumFunctionOnSet(h, T)
<1>1. \A T \in SUBSET E : IsFiniteSet(T) /\ H(T) \in Nat
  <2> SUFFICES ASSUME NEW T \in SUBSET E PROVE IsFiniteSet(T) /\ H(T) \in Nat
    OBVIOUS
  <2>1. IsFiniteSet(T)
    BY FS_Subset
  <2> QED BY <2>1, SumIsNat
<1>2. H(B) = H(A) + H(B \ A)
  <2>1. IsFiniteSet(B) /\ \A x \in B : h[x] \in Int
    BY <1>1
  <2> QED BY <2>1, SumSplits
<1>3. H(B \ A) = H(C) + H((B \ A) \ C)
  <2>1. IsFiniteSet(B \ A) /\ \A x \in B \ A : h[x] \in Int
    BY <1>1
  <2> QED BY <2>1, SumSplits
<1>4. H(A) \in Nat /\ H(B) \in Nat /\ H(B \ A) \in Nat /\ H(C) \in Nat /\ H((B \ A) \ C) \in Nat
  BY <1>1
<1> HIDE DEF H
<1> QED BY <1>2, <1>3, <1>4 DEF H

(* Ranges of a session of turns hold together no more than its turns       *)
(* (host_events.py, feed: turn.completed).                                 *)
LEMMA TurnsAddUp ==
    ASSUME NEW L, Len(L) \in Nat, \A n \in 1..Len(L) : L[n].use \in Nat,
           \A n \in 1..Len(L) : L[n].kind \notin {"count", "message", "result"},
           NEW T, NEW a, NEW k, NEW u, Ranges(L, T, a, k, u),
           NEW h, NEW E, E = {n \in 1..Len(L) : L[n].kind = "turn"}, \A n \in E : h[n] = L[n].use
    PROVE  SumFunctionOnSet(u, T) <= SumFunctionOnSet(h, E)
<1> DEFINE N == Len(L)
           D(n) == {j \in 1..n : L[j].kind = "turn"}
           G == [n \in 0..N |-> SumFunctionOnSet(h, D(n))]
<1>0. IsFiniteSet(E) /\ \A x \in E : h[x] \in Nat
  <2>1. IsFiniteSet(1..N)
    BY FS_Interval
  <2> QED BY <2>1, FS_Subset
<1>1. \A n \in 0..N : D(n) \in SUBSET E /\ IsFiniteSet(D(n))
  <2>1. \A n \in 0..N : D(n) \in SUBSET E
    OBVIOUS
  <2> QED BY <1>0, <2>1, FS_Subset
<1>2. \A n \in 0..N : G[n] \in Nat
  <2> SUFFICES ASSUME NEW n \in 0..N PROVE SumFunctionOnSet(h, D(n)) \in Nat
    OBVIOUS
  <2>1. IsFiniteSet(D(n)) /\ \A x \in D(n) : h[x] \in Nat
    BY <1>0, <1>1
  <2> HIDE DEF D
  <2> QED BY <2>1, SumIsNat
<1>3. ASSUME NEW n \in 1..N PROVE G[n - 1] <= G[n]
  <2>1. n \in 0..N /\ n - 1 \in 0..N /\ D(n - 1) \in SUBSET D(n) /\ {} \in SUBSET (D(n) \ D(n - 1))
    OBVIOUS
  <2>2. 0 <= SumFunctionOnSet(h, {})
    BY SumOfEmpty
  <2>3. 0 + SumFunctionOnSet(h, D(n - 1)) <= SumFunctionOnSet(h, D(n))
    <3>1. D(n) \in SUBSET E
      BY <1>1
    <3> HIDE DEF D
    <3> QED BY <1>0, <2>1, <2>2, <3>1, MeasureGrows
  <2>4. G[n] \in Nat /\ G[n - 1] \in Nat /\ G[n] = SumFunctionOnSet(h, D(n)) /\ G[n - 1] = SumFunctionOnSet(h, D(n - 1))
    BY <1>2, <2>1
  <2> HIDE DEF G, D
  <2> QED BY <2>3, <2>4
<1>4. ASSUME NEW t \in T PROVE u[t] + G[a[t] - 1] <= G[k[t]]
  <2> DEFINE s == FedUpTo(L, a[t], k[t])
             uses == s.uses
             U == DOMAIN uses
  <2>1. /\ a[t] \in Nat /\ a[t] - 1 \in 0..N /\ k[t] \in 0..N /\ a[t] <= k[t]
        /\ u[t] \in Nat /\ u[t] = Consumption(s) /\ s.issues = {}
    <3>1. /\ a[t] \in Nat /\ k[t] \in Nat /\ 1 <= a[t] /\ a[t] <= k[t] /\ k[t] <= Len(L)
          /\ u[t] \in Nat /\ u[t] = Consumption(s) /\ s.issues = {}
      BY DEF Ranges
    <3> HIDE DEF s
    <3> QED BY <3>1
  <2>2. s.last = None
    <3>1. \A n \in 1..N : L[n].kind # "count"
      OBVIOUS
    <3>2. s.last = None \/ \E j : SummedUp(L, a[t], k[t], s.last, j)
      <4>1. k[t] \in 0..k[t]
        BY <2>1
      <4> QED BY <2>1, <3>1, <4>1, SummaryIs
    <3>3. ASSUME NEW j, SummedUp(L, a[t], k[t], s.last, j) PROVE FALSE
      BY <2>1, <3>3 DEF SummedUp
    <3> QED BY <3>2, <3>3
  <2>3. IsFiniteSet(U) /\ u[t] = SumFunctionOnSet(uses, U)
    BY <2>1, <2>2, UseIsSum
  <2>4. \A x \in U : \E j : Tells(L, a[t], k[t], x, uses[x], j)
    BY <2>1, UsesAreTold
  <2> HIDE DEF s, uses, U
  <2> DEFINE m == [x \in U |-> CHOOSE j : Tells(L, a[t], k[t], x, uses[x], j)]
             C == {m[x] : x \in U}
  <2>5. \A x \in U : Tells(L, a[t], k[t], x, uses[x], m[x])
    BY <2>4
  <2> HIDE DEF m
  <2>6. \A x \in U : /\ m[x] \in D(k[t]) \ D(a[t] - 1) /\ uses[x] = L[m[x]].use
                     /\ KeyOf(L[m[x]], m[x]) = x
    <3> SUFFICES ASSUME NEW x \in U
                 PROVE  /\ m[x] \in D(k[t]) \ D(a[t] - 1) /\ uses[x] = L[m[x]].use
                        /\ KeyOf(L[m[x]], m[x]) = x
      OBVIOUS
    <3>1. Tells(L, a[t], k[t], x, uses[x], m[x])
      BY <2>5
    <3>2. m[x] \in 1..N
      BY <2>1, <3>1 DEF Tells
    <3>3. L[m[x]].kind \notin {"count", "message", "result"}
      BY <3>2
    <3> QED BY <2>1, <3>1, <3>2, <3>3 DEF Tells
  <2>7. D(k[t]) \in SUBSET E /\ D(a[t] - 1) \in SUBSET D(k[t])
    BY <1>1, <2>1
  <2>8. C \in SUBSET (D(k[t]) \ D(a[t] - 1))
    BY <2>6
  <2>9. SumFunctionOnSet(h, C) = SumFunctionOnSet(uses, U)
    <3>1. \A x, y \in U : m[x] = m[y] => x = y
      BY <2>6
    <3>2. \A x \in U : h[m[x]] \in Int /\ uses[x] = h[m[x]]
      <4> SUFFICES ASSUME NEW x \in U PROVE h[m[x]] \in Int /\ uses[x] = h[m[x]]
        OBVIOUS
      <4>1. m[x] \in E
        BY <2>6, <2>7
      <4> QED BY <1>0, <2>6, <4>1
    <3> QED BY <2>3, <3>1, <3>2, SumOfImages
  <2>10. u[t] + SumFunctionOnSet(h, D(a[t] - 1)) <= SumFunctionOnSet(h, D(k[t]))
    <3>1. u[t] <= SumFunctionOnSet(h, C)
      <4> HIDE DEF C
      <4> QED BY <2>1, <2>3, <2>9
    <3> HIDE DEF C, D
    <3> QED BY <1>0, <2>1, <2>7, <2>8, <3>1, MeasureGrows
  <2>11. G[k[t]] = SumFunctionOnSet(h, D(k[t])) /\ G[a[t] - 1] = SumFunctionOnSet(h, D(a[t] - 1))
    BY <2>1
  <2> HIDE DEF G, D
  <2> QED BY <2>10, <2>11
<1>5. G[N] = SumFunctionOnSet(h, E)
  <2>1. N \in 0..N /\ D(N) = E
    OBVIOUS
  <2> QED BY <2>1
<1>6. \A t \in T : /\ a[t] \in Nat /\ k[t] \in Nat /\ 1 <= a[t] /\ a[t] <= k[t] /\ k[t] <= N
                   /\ u[t] \in Nat
  BY DEF Ranges
<1>7. IsFiniteSet(T) /\ \A s, t \in T : s # t => k[s] < a[t] \/ k[t] < a[s]
  BY DEF Ranges
<1> HIDE DEF G
<1>8. SumFunctionOnSet(u, T) <= G[N]
  BY <1>2, <1>3, <1>4, <1>6, <1>7, RangesAddUp
<1> QED BY <1>5, <1>8

(* Ranges of a session of answers, none of which begins within an answer   *)
(* or ends with a summary, hold together no more than its answers, each    *)
(* once (host_events.py, feed: assistant).                                 *)
LEMMA AnswersAddUp ==
    ASSUME NEW L, Len(L) \in Nat, \A n \in 1..Len(L) : L[n].use \in Nat,
           \A n \in 1..Len(L) : L[n].kind \notin {"count", "turn"},
           NEW T, NEW a, NEW k, NEW u, Ranges(L, T, a, k, u),
           \A t \in T : FedUpTo(L, a[t], k[t]).last = None,
           \A m, n \in 1..Len(L), t \in T :
              L[m].kind = "message" /\ L[n].kind = "message" /\ m < a[t] /\ a[t] <= n
                 => L[m].id # L[n].id,
           NEW h, NEW E, E = {L[n].id : n \in {j \in 1..Len(L) : L[j].kind = "message"}},
           \A x \in E : h[x] \in Nat,
           \A n \in 1..Len(L) : L[n].kind = "message" => L[n].use <= h[L[n].id]
    PROVE  SumFunctionOnSet(u, T) <= SumFunctionOnSet(h, E)
<1> DEFINE N == Len(L)
           D(n) == {L[j].id : j \in {i \in 1..n : L[i].kind = "message"}}
           G == [n \in 0..N |-> SumFunctionOnSet(h, D(n))]
<1>0. IsFiniteSet(E) /\ \A x \in E : h[x] \in Nat
  <2> DEFINE M == {j \in 1..N : L[j].kind = "message"}
             f == [n \in M |-> L[n].id]
  <2>1. IsFiniteSet(1..N)
    BY FS_Interval
  <2>2. IsFiniteSet(M)
    BY <2>1, FS_Subset
  <2>3. f \in Surjection(M, E)
    BY DEF Surjection
  <2> HIDE DEF f, M
  <2> QED BY <2>2, <2>3, FS_Surjection
<1>1. \A n \in 0..N : D(n) \in SUBSET E /\ IsFiniteSet(D(n))
  <2>1. \A n \in 0..N : D(n) \in SUBSET E
    OBVIOUS
  <2> QED BY <1>0, <2>1, FS_Subset
<1>2. \A n \in 0..N : G[n] \in Nat
  <2> SUFFICES ASSUME NEW n \in 0..N PROVE SumFunctionOnSet(h, D(n)) \in Nat
    OBVIOUS
  <2>1. IsFiniteSet(D(n)) /\ \A x \in D(n) : h[x] \in Nat
    BY <1>0, <1>1
  <2> HIDE DEF D
  <2> QED BY <2>1, SumIsNat
<1>3. ASSUME NEW n \in 1..N PROVE G[n - 1] <= G[n]
  <2>1. n \in 0..N /\ n - 1 \in 0..N /\ D(n - 1) \in SUBSET D(n) /\ {} \in SUBSET (D(n) \ D(n - 1))
    OBVIOUS
  <2>2. 0 <= SumFunctionOnSet(h, {})
    BY SumOfEmpty
  <2>3. 0 + SumFunctionOnSet(h, D(n - 1)) <= SumFunctionOnSet(h, D(n))
    <3>1. D(n) \in SUBSET E
      BY <1>1
    <3> HIDE DEF D
    <3> QED BY <1>0, <2>1, <2>2, <3>1, MeasureGrows
  <2>4. G[n] \in Nat /\ G[n - 1] \in Nat /\ G[n] = SumFunctionOnSet(h, D(n)) /\ G[n - 1] = SumFunctionOnSet(h, D(n - 1))
    BY <1>2, <2>1
  <2> HIDE DEF G, D
  <2> QED BY <2>3, <2>4
<1>4. ASSUME NEW t \in T PROVE u[t] + G[a[t] - 1] <= G[k[t]]
  <2> DEFINE s == FedUpTo(L, a[t], k[t])
             uses == s.uses
             U == DOMAIN uses
  <2>1. /\ a[t] \in Nat /\ a[t] - 1 \in 0..N /\ k[t] \in 0..N /\ a[t] <= k[t]
        /\ u[t] \in Nat /\ u[t] = Consumption(s)
    <3>1. /\ a[t] \in Nat /\ k[t] \in Nat /\ 1 <= a[t] /\ a[t] <= k[t] /\ k[t] <= Len(L)
          /\ u[t] \in Nat /\ u[t] = Consumption(s)
      BY DEF Ranges
    <3> HIDE DEF s
    <3> QED BY <3>1
  <2>2. s.last = None
    OBVIOUS
  <2>3. IsFiniteSet(U) /\ u[t] = SumFunctionOnSet(uses, U)
    BY <2>1, <2>2, UseIsSum
  <2>4. \A x \in U : \E j : Tells(L, a[t], k[t], x, uses[x], j)
    BY <2>1, UsesAreTold
  <2> HIDE DEF s, uses, U
  <2>5. ASSUME NEW x \in U
        PROVE  x \in D(k[t]) \ D(a[t] - 1) /\ uses[x] \in Nat /\ uses[x] <= h[x]
    <3>1. PICK j : Tells(L, a[t], k[t], x, uses[x], j)
      BY <2>4
    <3>2. j \in 1..N /\ j \in 1..k[t] /\ a[t] <= j /\ uses[x] = L[j].use
      BY <2>1, <3>1 DEF Tells
    <3>3. L[j].kind = "message" /\ x = L[j].id
      BY <3>1, <3>2 DEF Tells, KeyOf
    <3>4. x \notin D(a[t] - 1)
      <4> SUFFICES ASSUME NEW i \in 1..(a[t] - 1), L[i].kind = "message", x = L[i].id PROVE FALSE
        OBVIOUS
      <4>1. i \in 1..N /\ i < a[t]
        BY <2>1
      <4> QED BY <3>2, <3>3, <4>1
    <3> QED BY <3>2, <3>3, <3>4
  <2>6. D(k[t]) \in SUBSET E /\ D(a[t] - 1) \in SUBSET D(k[t])
    BY <1>1, <2>1
  <2>7. U \in SUBSET (D(k[t]) \ D(a[t] - 1))
    BY <2>5
  <2>8. u[t] <= SumFunctionOnSet(h, U)
    <3>1. \A x \in U : uses[x] \in Int /\ h[x] \in Int /\ uses[x] <= h[x]
      <4> SUFFICES ASSUME NEW x \in U PROVE uses[x] \in Int /\ h[x] \in Int /\ uses[x] <= h[x]
        OBVIOUS
      <4>1. x \in E /\ uses[x] \in Nat /\ uses[x] <= h[x]
        BY <2>5, <2>6
      <4> QED BY <1>0, <4>1
    <3> QED BY <2>3, <3>1, SumOfLess
  <2>9. u[t] + SumFunctionOnSet(h, D(a[t] - 1)) <= SumFunctionOnSet(h, D(k[t]))
    <3> HIDE DEF D
    <3> QED BY <1>0, <2>1, <2>6, <2>7, <2>8, MeasureGrows
  <2>10. G[k[t]] = SumFunctionOnSet(h, D(k[t])) /\ G[a[t] - 1] = SumFunctionOnSet(h, D(a[t] - 1))
    BY <2>1
  <2> HIDE DEF G, D
  <2> QED BY <2>9, <2>10
<1>5. G[N] = SumFunctionOnSet(h, E)
  <2>1. N \in 0..N /\ D(N) = E
    OBVIOUS
  <2> QED BY <2>1
<1>6. \A t \in T : /\ a[t] \in Nat /\ k[t] \in Nat /\ 1 <= a[t] /\ a[t] <= k[t] /\ k[t] <= N
                   /\ u[t] \in Nat
  BY DEF Ranges
<1>7. IsFiniteSet(T) /\ \A s, t \in T : s # t => k[s] < a[t] \/ k[t] < a[s]
  BY DEF Ranges
<1> HIDE DEF G
<1>8. SumFunctionOnSet(u, T) <= G[N]
  BY <1>2, <1>3, <1>4, <1>6, <1>7, RangesAddUp
<1> QED BY <1>5, <1>8

(* A range that ends with a summary is the only one of its session: it     *)
(* begins with it, and no answer or other summary can be taken after it    *)
(* (host_events.py, feed: session_summary_cannot_be_sliced).               *)
LEMMA SummaryIsAlone ==
    ASSUME NEW L, Len(L) \in Nat, \A n \in 1..Len(L) : L[n].use \in Nat,
           \A n \in 1..Len(L) : L[n].kind \notin {"count", "turn"},
           \A m, n \in 1..Len(L) : L[m].kind = "message" /\ L[n].kind = "result" => m < n,
           NEW T, NEW a, NEW k, NEW u, Ranges(L, T, a, k, u),
           NEW t \in T, FedUpTo(L, a[t], k[t]).last # None
    PROVE  /\ T = {t}
           /\ \E n \in 1..Len(L) : L[n].kind = "result" /\ u[t] = L[n].use
<1> DEFINE s(q) == FedUpTo(L, a[q], k[q])
<1>1. \A q \in T : /\ a[q] \in Nat /\ k[q] \in Nat /\ 1 <= a[q] /\ a[q] <= k[q] /\ k[q] <= Len(L)
                   /\ u[q] \in Nat /\ u[q] = Consumption(s(q)) /\ s(q).issues = {}
  BY DEF Ranges
<1>2. \A q \in T : s(q).initial = None /\ (s(q).last = None \/ \E j : SummedUp(L, a[q], k[q], s(q).last, j))
  <2> SUFFICES ASSUME NEW q \in T
               PROVE  s(q).initial = None /\ (s(q).last = None \/ \E j : SummedUp(L, a[q], k[q], s(q).last, j))
    OBVIOUS
  <2>1. a[q] \in Nat /\ k[q] \in 0..Len(L) /\ k[q] \in 0..k[q] /\ s(q).issues = {}
    <3> HIDE DEF s
    <3> QED BY <1>1
  <2>2. \A n \in 1..Len(L) : L[n].kind # "count"
    OBVIOUS
  <2> QED BY <2>1, <2>2, SummaryIs
<1>3. PICK j : SummedUp(L, a[t], k[t], s(t).last, j)
  BY <1>2
<1> HIDE DEF s
<1>4. j \in 1..Len(L) /\ j <= k[t] /\ L[j].kind = "result" /\ s(t).last = L[j].use /\ ~(a[t] > 1)
  BY <1>1, <1>3 DEF SummedUp
<1>5. u[t] = L[j].use
  <2>1. u[t] = Consumption(s(t)) /\ s(t).last # None /\ s(t).initial = None
    BY <1>1, <1>2 DEF s
  <2> QED BY <1>4, <2>1 DEF Consumption
<1>6. ASSUME NEW q \in T, q # t PROVE FALSE
  <2>1. k[t] < a[q] /\ a[q] > 1
    <3>1. k[q] < a[t] \/ k[t] < a[q]
      BY <1>6 DEF Ranges
    <3> QED BY <1>1, <1>4, <3>1
  <2>2. s(q).last = None
    <3>1. ASSUME NEW i, SummedUp(L, a[q], k[q], s(q).last, i) PROVE FALSE
      BY <2>1, <3>1 DEF SummedUp
    <3> QED BY <1>2, <3>1
  <2>3. DOMAIN s(q).uses = {}
    <3>1. k[q] \in 0..Len(L) /\ a[q] \in Nat
      BY <1>1
    <3>2. \A x \in DOMAIN s(q).uses : \E i : Tells(L, a[q], k[q], x, s(q).uses[x], i)
      BY <3>1, UsesAreTold DEF s
    <3>3. ASSUME NEW x, NEW v, NEW i, Tells(L, a[q], k[q], x, v, i) PROVE FALSE
      <4>1. i \in 1..Len(L) /\ a[q] <= i /\ L[i].kind = "message"
        BY <1>1, <3>3 DEF Tells
      <4>2. i < j
        BY <1>4, <4>1
      <4> QED BY <1>1, <1>4, <2>1, <4>1, <4>2
    <3> QED BY <3>2, <3>3
  <2>4. Consumption(s(q)) = None
    BY <2>2, <2>3 DEF Consumption, Total
  <2>5. u[q] \in Nat /\ u[q] = Consumption(s(q))
    BY <1>1
  <2> QED BY <2>4, <2>5, MeasurementAssumption
<1> QED BY <1>4, <1>5, <1>6

\* the answers of a session, each at its most, and its turns
AnswersOf(L) == {L[n].id : n \in LinesOf(L, {"message"})}
Most(L) == [id \in AnswersOf(L) |->
               Max({L[n].use : n \in {m \in LinesOf(L, {"message"}) : L[m].id = id}})]
Turns(L) == [n \in LinesOf(L, {"turn"}) |-> L[n].use]

(* What a session spent is no less than any count or summary of it, and    *)
(* than its answers and turns together.                                    *)
LEMMA SpentIs ==
    ASSUME NEW L, Len(L) \in Nat, DOMAIN L = 1..Len(L), \A n \in 1..Len(L) : L[n].use \in Nat
    PROVE  /\ \A id \in AnswersOf(L) : Most(L)[id] \in Nat
           /\ \A n \in LinesOf(L, {"message"}) : L[n].use <= Most(L)[L[n].id]
           /\ SumFunctionOnSet(Most(L), AnswersOf(L)) \in Nat
           /\ SumFunctionOnSet(Turns(L), LinesOf(L, {"turn"})) \in Nat
           /\ Spent(L) \in Nat
           /\ \A n \in LinesOf(L, {"count", "result"}) : L[n].use <= Spent(L)
           /\ SumFunctionOnSet(Most(L), AnswersOf(L))
                 + SumFunctionOnSet(Turns(L), LinesOf(L, {"turn"})) <= Spent(L)
<1> DEFINE N == Len(L)
           use == [n \in 1..N |-> L[n].use]
           M == LinesOf(L, {"message"})
           R == LinesOf(L, {"turn"})
           C == LinesOf(L, {"count", "result"})
           same(id) == {L[n].use : n \in {m \in M : L[m].id = id}}
<1>1. /\ M = {n \in 1..N : L[n].kind = "message"} /\ R = {n \in 1..N : L[n].kind = "turn"}
      /\ C = {n \in 1..N : L[n].kind \in {"count", "result"}}
  BY DEF LinesOf
<1>2. IsFiniteSet(1..N)
  <2>1. N \in Int
    OBVIOUS
  <2> HIDE DEF N
  <2> QED BY <2>1, FS_Interval
<1>3. IsFiniteSet(M) /\ IsFiniteSet(R)
  BY <1>1, <1>2, FS_Subset
<1>4. PICK b \in Nat : \A n \in 1..N : L[n].use <= b
  <2>1. \A n \in 1..N : use[n] \in Nat
    OBVIOUS
  <2>2. \E b \in Nat : \A n \in 1..N : use[n] <= b
    <3> HIDE DEF use
    <3> QED BY <1>2, <2>1, FiniteHasBound
  <2> QED BY <2>2
<1> HIDE DEF M, R, C
<1>5. ASSUME NEW id \in AnswersOf(L)
      PROVE  Max(same(id)) \in Nat /\ \A y \in same(id) : y <= Max(same(id))
  <2>1. same(id) \in SUBSET Nat /\ same(id) # {} /\ \A y \in same(id) : y <= b
    BY <1>1, <1>4 DEF AnswersOf, M
  <2> HIDE DEF same
  <2> QED BY <2>1, MostIsIn
<1>6. \A id \in AnswersOf(L) : Most(L)[id] = Max(same(id))
  BY DEF Most, M
<1>7. \A id \in AnswersOf(L) : Most(L)[id] \in Nat
  BY <1>5, <1>6
<1>8. ASSUME NEW n \in M PROVE L[n].id \in AnswersOf(L) /\ L[n].use <= Most(L)[L[n].id]
  <2>1. L[n].id \in AnswersOf(L)
    BY DEF AnswersOf, M
  <2>2. L[n].use \in same(L[n].id)
    OBVIOUS
  <2> HIDE DEF same
  <2> QED BY <1>5, <1>6, <2>1, <2>2
<1>9. IsFiniteSet(AnswersOf(L))
  <2> DEFINE g == [n \in M |-> L[n].id]
  <2>1. g \in Surjection(M, AnswersOf(L))
    BY DEF Surjection, AnswersOf, M
  <2> HIDE DEF g
  <2> QED BY <1>3, <2>1, FS_Surjection
<1> DEFINE A == SumFunctionOnSet(Most(L), AnswersOf(L))
           B == SumFunctionOnSet(Turns(L), R)
<1>10. A \in Nat
  BY <1>7, <1>9, SumIsNat
<1>11. B \in Nat
  <2>1. \A n \in R : Turns(L)[n] \in Nat
    BY <1>1 DEF Turns, R
  <2> QED BY <1>3, <2>1, SumIsNat
<1> DEFINE all == {L[n].use : n \in C} \cup {A + B}
<1>12. Spent(L) = Max(all)
  <2>1. DOMAIN Most(L) = AnswersOf(L) /\ DOMAIN Turns(L) = R
    BY DEF Most, Turns, R
  <2>2. SumFunction(Most(L)) = A /\ SumFunction(Turns(L)) = B
    BY Zenon, <2>1 DEF SumFunction
  <2> HIDE DEF A, B
  <2>3. Spent(L) = Max({L[n].use : n \in C} \cup {SumFunction(Most(L)) + SumFunction(Turns(L))})
    BY Zenon DEF Spent, Most, Turns, AnswersOf, C
  <2> QED BY <2>2, <2>3
<1> HIDE DEF A, B
<1>13. all \in SUBSET Nat /\ all # {} /\ A + B \in all /\ \A n \in C : L[n].use \in all
  BY <1>1, <1>10, <1>11
<1>14. b + A + B \in Nat /\ \A y \in all : y <= b + A + B
  BY <1>1, <1>4, <1>10, <1>11
<1> HIDE DEF all
<1>15. Spent(L) \in all /\ \A y \in all : y <= Spent(L)
  BY <1>12, <1>13, <1>14, MostIsIn
<1>16. A + B <= Spent(L) /\ Spent(L) \in Nat /\ \A n \in C : L[n].use <= Spent(L)
  BY <1>13, <1>15
<1> QED BY <1>7, <1>8, <1>10, <1>11, <1>16 DEF A, B, M, R, C

(* Ranges of a session that accounts for itself in one way hold together   *)
(* no more than it spent (host_events.py, feed and consumption).           *)
LEMMA UseAddsUp ==
    ASSUME NEW L, Len(L) \in Nat, DOMAIN L = 1..Len(L), \A n \in 1..Len(L) : L[n].use \in Nat,
           LinesOf(L, {"count"}) = {} \/ LinesOf(L, {"turn", "message", "result"}) = {},
           LinesOf(L, {"turn"}) = {} \/ LinesOf(L, {"message", "result"}) = {},
           NEW T, NEW a, NEW k, NEW u, Ranges(L, T, a, k, u),
           \A m \in LinesOf(L, {"message"}) :
              /\ \A n \in LinesOf(L, {"result"}) : m < n
              /\ \A n \in LinesOf(L, {"message"}), t \in T :
                    m < a[t] /\ a[t] <= n => L[m].id # L[n].id
    PROVE  SumFunctionOnSet(u, T) <= Spent(L)
<1> DEFINE A == SumFunctionOnSet(Most(L), AnswersOf(L))
           B == SumFunctionOnSet(Turns(L), LinesOf(L, {"turn"}))
           U == SumFunctionOnSet(u, T)
<1> SUFFICES U <= Spent(L)
  OBVIOUS
<1>1. /\ A \in Nat /\ B \in Nat /\ Spent(L) \in Nat /\ A + B <= Spent(L)
      /\ \A n \in LinesOf(L, {"count", "result"}) : L[n].use <= Spent(L)
  BY SpentIs
<1>2. U \in Nat
  BY SumIsNat DEF Ranges
<1>3. CASE LinesOf(L, {"turn", "message", "result"}) = {}
  <2>1. \A n \in 1..Len(L) : L[n].kind \notin {"turn", "message", "result"}
    BY <1>3 DEF LinesOf
  <2>2. U = 0 \/ \E n \in 1..Len(L) : L[n].kind = "count" /\ U <= L[n].use
    BY <2>1, CountsAddUp
  <2>3. ASSUME NEW n \in 1..Len(L), L[n].kind = "count", U <= L[n].use PROVE U <= Spent(L)
    <3>1. n \in LinesOf(L, {"count", "result"})
      BY <2>3 DEF LinesOf
    <3> HIDE DEF U
    <3> QED BY <1>1, <1>2, <2>3, <3>1
  <2> HIDE DEF U
  <2> QED BY <1>1, <2>2, <2>3
<1>4. CASE LinesOf(L, {"count"}) = {} /\ LinesOf(L, {"message", "result"}) = {}
  <2>1. \A n \in 1..Len(L) : L[n].kind \notin {"count", "message", "result"}
    BY <1>4 DEF LinesOf
  <2>2. /\ LinesOf(L, {"turn"}) = {n \in 1..Len(L) : L[n].kind = "turn"}
        /\ \A n \in LinesOf(L, {"turn"}) : Turns(L)[n] = L[n].use
    BY DEF LinesOf, Turns
  <2>3. U <= B
    <3> DEFINE E == LinesOf(L, {"turn"})
               h == Turns(L)
    <3> HIDE DEF E, h
    <3>1. E = {n \in 1..Len(L) : L[n].kind = "turn"} /\ \A n \in E : h[n] = L[n].use
      BY <2>2 DEF E, h
    <3>2. SumFunctionOnSet(u, T) <= SumFunctionOnSet(h, E)
      BY <2>1, <3>1, TurnsAddUp
    <3> QED BY <3>2 DEF E, h
  <2> HIDE DEF A, B, U
  <2> QED BY <1>1, <1>2, <2>3
<1>5. CASE LinesOf(L, {"count"}) = {} /\ LinesOf(L, {"turn"}) = {}
  <2>1. \A n \in 1..Len(L) : L[n].kind \notin {"count", "turn"}
    BY <1>5 DEF LinesOf
  <2>2. CASE \E t \in T : FedUpTo(L, a[t], k[t]).last # None
    <3>1. PICK t \in T : FedUpTo(L, a[t], k[t]).last # None
      BY <2>2
    <3>2. \A m, n \in 1..Len(L) : L[m].kind = "message" /\ L[n].kind = "result" => m < n
      BY DEF LinesOf
    <3>3. T = {t} /\ \E n \in 1..Len(L) : L[n].kind = "result" /\ u[t] = L[n].use
      BY <2>1, <3>1, <3>2, SummaryIsAlone
    <3>4. U = u[t]
      <4>1. U = u[t] + SumFunctionOnSet(u, T \ {t})
        <5>1. IsFiniteSet(T) /\ \A q \in T : u[q] \in Int
          BY DEF Ranges
        <5> QED BY <5>1, SumTakes
      <4>2. T \ {t} = {} /\ u[t] \in Nat
        BY <3>3 DEF Ranges
      <4>3. SumFunctionOnSet(u, {}) = 0
        BY SumOfEmpty
      <4>4. SumFunctionOnSet(u, T \ {t}) = 0
        BY Zenon, <4>2, <4>3
      <4> DEFINE v == u[t]
      <4>5. v \in Nat /\ U = v + 0
        BY <4>1, <4>2, <4>4
      <4> HIDE DEF U, v
      <4>6. U = v
        BY <4>5
      <4> QED BY <4>6 DEF v
    <3>5. \A n \in 1..Len(L) : L[n].kind = "result" => L[n].use <= Spent(L)
      BY <1>1 DEF LinesOf
    <3> HIDE DEF U
    <3> QED BY <3>3, <3>4, <3>5
  <2>3. CASE \A t \in T : FedUpTo(L, a[t], k[t]).last = None
    <3> DEFINE E == AnswersOf(L)
               h == Most(L)
    <3> HIDE DEF E, h
    <3>1. E = {L[n].id : n \in {j \in 1..Len(L) : L[j].kind = "message"}}
      BY DEF E, AnswersOf, LinesOf
    <3>2. (\A x \in E : h[x] \in Nat) /\ \A n \in LinesOf(L, {"message"}) : L[n].use <= h[L[n].id]
      BY SpentIs DEF E, h
    <3>3. \A n \in 1..Len(L) : L[n].kind = "message" => L[n].use <= h[L[n].id]
      BY <3>2 DEF LinesOf
    <3>4. \A m, n \in 1..Len(L), t \in T :
            L[m].kind = "message" /\ L[n].kind = "message" /\ m < a[t] /\ a[t] <= n
               => L[m].id # L[n].id
      BY DEF LinesOf
    <3>5. SumFunctionOnSet(u, T) <= SumFunctionOnSet(h, E)
      BY <2>1, <2>3, <3>1, <3>2, <3>3, <3>4, AnswersAddUp
    <3>6. U <= A
      BY <3>5 DEF E, h
    <3> HIDE DEF A, B, U
    <3> QED BY <1>1, <1>2, <3>6
  <2> QED BY <2>2, <2>3
<1>6. \/ LinesOf(L, {"turn", "message", "result"}) = {}
      \/ LinesOf(L, {"count"}) = {} /\ LinesOf(L, {"message", "result"}) = {}
      \/ LinesOf(L, {"count"}) = {} /\ LinesOf(L, {"turn"}) = {}
  OBVIOUS
<1> QED BY <1>3, <1>4, <1>5, <1>6

(* The complete tasks of a session are ranges of what is written of it,    *)
(* and share no line (measurement/repository.py, put).                     *)
LEMMA FinishedAreRanges ==
    ASSUME LedgerInv, NEW f \in Files
    PROVE  \E k : Ranges(Shown(f), Finished(f), [t \in Finished(f) |-> tasks[t].first], k,
                         [t \in Finished(f) |-> tasks[t].use])
<1> DEFINE S == session[f]
           w == written[f]
           L == Shown(f)
           T == Finished(f)
           Ends(t, k) == /\ k \in 1..w /\ tasks[t].first <= k
                         /\ tasks[t].last # None => k <= tasks[t].last
                         /\ tasks[t].use = Consumption(FedUpTo(L, tasks[t].first, k))
                         /\ FedUpTo(L, tasks[t].first, k).issues = {}
           end == [t \in T |-> CHOOSE k : Ends(t, k)]
           first == [t \in T |-> tasks[t].first]
           use == [t \in T |-> tasks[t].use]
<1>1. S \in Sessions /\ w \in 0..Len(S)
  BY DEF LedgerInv, Written
<1>2. Len(S) \in Nat /\ S \in Seq({S[n] : n \in DOMAIN S}) /\ DOMAIN S = 1..Len(S)
  BY <1>1, MeasurementAssumption
<1>3. Len(L) = w /\ \A i \in 1..w : L[i] = S[i]
  <2>1. L = SubSeq(S, 1, w)
    BY DEF Shown
  <2>2. \A i \in 1..w : S[i] \in {S[n] : n \in DOMAIN S}
    BY <1>1, <1>2
  <2> HIDE DEF S, w, L
  <2> QED BY <1>1, <1>2, <2>1, <2>2, SubSeqProperties
<1>4. ASSUME NEW t \in T
      PROVE  /\ tasks[t].first \in Nat \ {0} /\ tasks[t].last \in Nat \cup {None}
             /\ tasks[t].use \in Nat /\ tasks[t].host = HostOf[f] /\ tasks[t].file = f
             /\ \E k : Ends(t, k)
  <2> DEFINE o == tasks[t]
  <2>1. t \in Stored /\ o.file = f /\ o.complete
    BY DEF Finished
  <2>2. IsRead(o)
    BY <2>1 DEF LedgerInv, Kept
  <2> HIDE DEF o
  <2>3. o \in Seen /\ Whole(o) /\ o.host = HostOf[f] /\ OfLines(o, S, w)
    BY <2>1, <2>2 DEF IsRead
  <2>4. o.first \in Nat /\ o.first # 0 /\ o.last \in Nat \cup {None} /\ o.use \in Nat
    BY <2>1, <2>3 DEF Seen, Whole
  <2>5. PICK k \in 0..Len(S) :
          /\ o.use = Consumption(FedUpTo(S, o.first, k))
          /\ k <= w /\ o.first <= k /\ (o.last # None => k <= o.last)
          /\ FedUpTo(S, o.first, k).issues = {}
    BY <2>1, <2>3 DEF OfLines
  <2>6. FedUpTo(L, o.first, k) = FedUpTo(S, o.first, k)
    <3> HIDE DEF L, S, w
    <3>1. Len(L) \in Nat /\ k \in 0..Len(L) /\ k <= Len(S) /\ \A i \in 1..k : L[i] = S[i]
      BY <1>1, <1>2, <1>3, <2>5
    <3> QED BY <1>2, <3>1, FedOfPrefix
  <2>7. k \in 1..w
    BY <1>1, <1>2, <2>4, <2>5
  <2>8. Ends(t, k)
    BY <2>5, <2>6, <2>7 DEF o
  <2> HIDE DEF Ends
  <2> QED BY <2>1, <2>3, <2>4, <2>8 DEF o
<1>5. \A t \in T : Ends(t, end[t])
  <2> HIDE DEF Ends
  <2> QED BY <1>4
<1> HIDE DEF end
<1>6. IsFiniteSet(T)
  <2>1. T \subseteq Stored /\ IsFiniteSet(Stored)
    BY DEF Finished, LedgerInv
  <2> QED BY <2>1, FS_Subset
<1>7. ASSUME NEW s \in T, NEW t \in T, s # t PROVE end[s] < first[t] \/ end[t] < first[s]
  <2>1. s \in Stored /\ t \in Stored /\ tasks[s].host = tasks[t].host /\ tasks[s].file = tasks[t].file
    BY <1>4 DEF Finished
  <2>2. ~Overlap(tasks[s], tasks[t])
    BY <1>7, <2>1 DEF LedgerInv, MeasurementInv, NothingIsCountedTwice
  <2>3. Ends(s, end[s]) /\ Ends(t, end[t])
    BY <1>5
  <2> DEFINE p == tasks[s]
             q == tasks[t]
             x == end[s]
             y == end[t]
  <2>4. /\ p.first \in Nat /\ p.last \in Nat \cup {None} /\ q.first \in Nat /\ q.last \in Nat \cup {None}
        /\ x \in Nat /\ y \in Nat /\ (p.last # None => x <= p.last) /\ (q.last # None => y <= q.last)
        /\ first[t] = q.first /\ first[s] = p.first
    <3>1. /\ p.first \in Nat /\ p.last \in Nat \cup {None} /\ q.first \in Nat /\ q.last \in Nat \cup {None}
          /\ first[t] = q.first /\ first[s] = p.first
      BY <1>4
    <3>2. x \in Nat /\ y \in Nat
      BY <1>1, <1>2, <2>3
    <3>3. (p.last # None => x <= p.last) /\ (q.last # None => y <= q.last)
      BY <2>3
    <3> QED BY <3>1, <3>2, <3>3
  <2>5. ~Overlap(p, q)
    BY <2>2
  <2> HIDE DEF p, q, x, y, first, Ends
  <2>6. x < q.first \/ y < p.first
    BY <2>4, <2>5 DEF Overlap
  <2> QED BY <2>4, <2>6 DEF x, y
<1>8. ASSUME NEW t \in T
      PROVE  /\ first[t] \in Nat /\ end[t] \in Nat /\ 1 <= first[t] /\ first[t] <= end[t]
             /\ end[t] <= Len(L) /\ use[t] \in Nat
             /\ use[t] = Consumption(FedUpTo(L, first[t], end[t]))
             /\ FedUpTo(L, first[t], end[t]).issues = {}
  <2>1. first[t] = tasks[t].first /\ use[t] = tasks[t].use
    OBVIOUS
  <2>2. Ends(t, end[t])
    BY <1>5
  <2>3. tasks[t].first \in Nat \ {0} /\ tasks[t].use \in Nat
    BY <1>4
  <2> HIDE DEF first, use, L
  <2> QED BY <1>1, <1>2, <1>3, <2>1, <2>2, <2>3
<1>9. Ranges(L, T, first, end, use)
  <2> HIDE DEF L, T, first, use, Ends
  <2> QED BY <1>6, <1>7, <1>8 DEF Ranges
<1> QED BY <1>9

(* The complete tasks of a session together used no more than it spent     *)
(* (measurement/history.py, host_events.py and repository.py, put).        *)
THEOREM UseCountedOnce == MeasurementSpec => []UseIsCountedOnce
<1>1. LedgerInv => UseIsCountedOnce
  <2> SUFFICES ASSUME LedgerInv, NEW f \in Files, Accountable(f)
               PROVE  SumFunction([t \in Finished(f) |-> tasks[t].use]) <= Spent(Shown(f))
    BY DEF UseIsCountedOnce
  <2> DEFINE L == Shown(f)
             T == Finished(f)
             first == [t \in T |-> tasks[t].first]
             use == [t \in T |-> tasks[t].use]
  <2>1. PICK k : Ranges(L, T, first, k, use)
    BY FinishedAreRanges
  <2>2. Len(L) \in Nat /\ DOMAIN L = 1..Len(L) /\ \A n \in 1..Len(L) : L[n].use \in Nat
    <3> DEFINE S == session[f]
               w == written[f]
    <3>1. S \in Sessions /\ w \in 0..Len(S)
      BY DEF LedgerInv, Written
    <3>2. Len(S) \in Nat /\ S \in Seq({S[n] : n \in DOMAIN S}) /\ DOMAIN S = 1..Len(S)
      BY <3>1, MeasurementAssumption
    <3>3. \A n \in 1..Len(S) : S[n].use \in Nat
      BY <3>1, <3>2, MeasurementAssumption
    <3>4. L = SubSeq(S, 1, w)
      BY DEF Shown
    <3>5. \A i \in 1..w : S[i] \in {S[n] : n \in DOMAIN S}
      BY <3>1, <3>2
    <3> HIDE DEF S, w, L
    <3>6. Len(L) = w /\ DOMAIN L = 1..w /\ \A i \in 1..w : L[i] = S[i]
      BY <3>1, <3>2, <3>4, <3>5, SubSeqProperties
    <3> QED BY <3>1, <3>2, <3>3, <3>6
  <2>3. /\ LinesOf(L, {"count"}) = {} \/ LinesOf(L, {"turn", "message", "result"}) = {}
        /\ LinesOf(L, {"turn"}) = {} \/ LinesOf(L, {"message", "result"}) = {}
        /\ \A m \in LinesOf(L, {"message"}) :
              /\ \A n \in LinesOf(L, {"result"}) : m < n
              /\ \A n \in LinesOf(L, {"message"}), t \in T :
                    m < first[t] /\ first[t] <= n => L[m].id # L[n].id
    BY DEF Accountable
  <2>4. SumFunction(use) = SumFunctionOnSet(use, T)
    <3>1. DOMAIN use = T
      OBVIOUS
    <3> QED BY Zenon, <3>1 DEF SumFunction
  <2> HIDE DEF L, T, first, use
  <2>5. SumFunctionOnSet(use, T) <= Spent(L)
    BY <2>1, <2>2, <2>3, UseAddsUp
  <2> QED BY <2>4, <2>5 DEF use, T, L
<1> QED BY <1>1, LedgerInvariant, PTL
=============================================================================
