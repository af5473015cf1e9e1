--------------------------- MODULE CatalogProofs ---------------------------
(***************************************************************************)
(* Catalogues, bundles and grants of Catalog, for any number of processes, *)
(* catalogues, directories, contents, edits and commands.  Four layers:    *)
(* types, and what a command knows at each point (BaseInv); config.json    *)
(* under its lock (ConfigInv); what is read of a Git source under the lock *)
(* of its cache (GitInv) and of bundles (BundleInv); and from these what   *)
(* is offered (OfferInv).                                                  *)
(***************************************************************************)
EXTENDS Catalog, SequenceTheorems, TLAPS

(* What a command has found is a function on directories.                  *)
LEMMA FoundIs ==
  \A f : f \in Found <=> DOMAIN f \subseteq Dirs /\ f \in [DOMAIN f -> Workflow]
  <1>1. ASSUME NEW f, f \in Found PROVE DOMAIN f \subseteq Dirs /\ f \in [DOMAIN f -> Workflow]
    <2>1. PICK D \in SUBSET Dirs : f \in [D -> Workflow]
      BY <1>1 DEF Found
    <2> QED BY <2>1
  <1>2. ASSUME NEW f, DOMAIN f \subseteq Dirs, f \in [DOMAIN f -> Workflow] PROVE f \in Found
    BY <1>2 DEF Found
  <1> QED BY <1>1, <1>2

(* Nothing is a function on no directory.                                  *)
LEMMA NothingFound == Nothing \in Found /\ DOMAIN Nothing = {}
  BY FoundIs DEF Nothing

(* The task of an idle process has its type.                               *)
LEMMA NoTaskType == NoTask \in Task
  BY NothingFound DEF NoTask, Task

(* A registered catalogue has an entry, which EntryOf yields.              *)
LEMMA EntryIs ==
  ASSUME NEW n, NEW s \in Settings, Registered(n, s)
  PROVE  \E i \in DOMAIN s.catalogs :
           /\ s.catalogs[i].name = n
           /\ EntryOf(n, s) = s.catalogs[i]
           /\ EntryOf(n, s) \in Entry
  <1>1. s.catalogs \in [DOMAIN s.catalogs -> Entry]
    BY LenProperties DEF Settings
  <1> DEFINE i == CHOOSE i \in DOMAIN s.catalogs : s.catalogs[i].name = n
  <1>2. i \in DOMAIN s.catalogs /\ s.catalogs[i].name = n
    BY DEF Registered
  <1> QED BY <1>1, <1>2 DEF EntryOf

(* The trees of a source are trees.                                        *)
LEMMA TreesAreTrees == Trees \subseteq Tree
  BY CatalogAssumption

(* Adding a loaded workflow to what was found keeps the type of a task.    *)
LEMMA LoadedType ==
  ASSUME NEW t \in Task, t.name \in Names, t.manifest \in Contents, t.digest \in Contents,
         t.dir \in Dirs
  PROVE  Loaded(t) \in Task
  <1> DEFINE w == [ref |-> [catalog |-> t.name, id |-> IdOf[t.manifest], digest |-> t.digest],
                   manifest |-> t.manifest]
             f == [d \in DOMAIN t.found \cup {t.dir} |-> IF d = t.dir THEN w ELSE t.found[d]]
  <1>1. w \in Workflow
    BY CatalogAssumption DEF Workflow, Refs, Ids
  <1>2. t.found \in Found
    BY DEF Task
  <1>3. f \in Found
    <2>1. DOMAIN f \subseteq Dirs
      BY <1>2, FoundIs
    <2>2. f \in [DOMAIN f -> Workflow]
      BY <1>1, <1>2, FoundIs
    <2> HIDE DEF f
    <2> QED BY <2>1, <2>2, FoundIs
  <1> HIDE DEF f, w
  <1>4. Loaded(t) = [t EXCEPT !.pc = "load", !.todo = @ \ {t.dir}, !.dir = None, !.manifest = None,
              !.digest = None, !.copy = None, !.found = f]
    BY DEF Loaded, f, w
  <1>5. t \in Task /\ (t.todo \ {t.dir}) \in SUBSET Dirs
    BY DEF Task
  <1> QED BY ONLY <1>3, <1>4, <1>5 DEF Task

-----------------------------------------------------------------------------
(* What a command knows at each point of its way, and what the revisions   *)
(* it names are, against the commits and the caches of the sources.        *)
Reading == {"read", "fetch", "archive", "load", "digest", "snapshot", "rename"}
Directory == {"digest", "snapshot", "rename"}

Points(t) ==
    /\ t.pc = "idle" => t = NoTask
    /\ t.pc \in Reading => t.op \in {"add", "sync", "validate"}
    /\ t.pc = "table" => t.op \in {"sync", "validate"}
    /\ t.pc = "change" => t.op = "add"
    /\ t.pc \in {"lock", "write"} => t.op \in {"add", "sync", "trust", "revoke"}
    /\ t.pc \in {"fetch", "archive"} => t.name \in Git

Knows(t) ==
    /\ t.pc \in Directory => t.dir \in Dirs /\ t.manifest \in Contents
    /\ t.pc \in {"snapshot", "rename"} => t.digest \in Contents
    /\ t.pc = "rename" => t.copy \in Contents
    /\ t.pc \in {"load"} \cup Directory /\ t.name \in Git => t.tree \in Trees

Named(t, pub) ==
    t.pc # "idle" =>
        /\ t.op \in {"add", "sync", "validate"} =>
            /\ t.name \in Names
            /\ t.pin \in pub[SourceOf[t.name]] \cup {Latest}
            /\ t.name \notin Git => t.pin = Latest
            /\ (t.op = "validate") = (t.name = Draft)
        /\ t.op \in {"trust", "revoke"} => t.ref \in Refs /\ t.name = None

Cached(t, fet) == t.pc = "archive" => fet[SourceOf[t.name]] \in Trees

Sound(t, pub, fet) == Points(t) /\ Knows(t) /\ Named(t, pub) /\ Cached(t, fet)

EntrySound(c, pub) ==
    /\ c.name # Draft
    /\ c.pin \in pub[SourceOf[c.name]] \cup {Latest}
    /\ c.name \notin Git => c.pin = Latest

TasksSound == \A p \in Procs : Sound(task[p], published, fetched)
EntriesSound == \A i \in DOMAIN config.catalogs : EntrySound(config.catalogs[i], published)
HoldersKnow ==
    \A p \in Procs : task[p].pc \in {"change", "write"} =>
        configLock = p /\ task[p].settings = config

BaseInv == CatalogTypes /\ TasksSound /\ EntriesSound /\ HoldersKnow

(* A command of p goes on with t, and the rest of the state only grows.    *)
Grows ==
    /\ \A s \in Sources : published[s] \subseteq published'[s]
    /\ \A s \in Sources : fetched[s] \in Trees => fetched'[s] \in Trees

(* A sound task stays sound while commits are only added and caches only   *)
(* filled.                                                                 *)
LEMMA SoundGrows ==
  ASSUME CatalogTypes, Grows, NEW t \in Task, Sound(t, published, fetched)
  PROVE  Sound(t, published', fetched')
  <1>1. t.name \in Names => SourceOf[t.name] \in Sources
    BY DEF Sources
  <1>2. Git \subseteq Names
    BY CatalogAssumption
  <1>3. Named(t, published')
    BY <1>1 DEF Sound, Named, Grows
  <1>4. Cached(t, fetched')
    BY <1>1, <1>2 DEF Sound, Cached, Points, Grows
  <1> QED BY <1>3, <1>4 DEF Sound

(* If the new task of p is sound, so are the tasks of everybody.           *)
LEMMA Advance ==
  ASSUME CatalogTypes, TasksSound, Grows, NEW p \in Procs, NEW t \in Task,
         Goes(p, t), Sound(t, published', fetched')
  PROVE  task' \in [Procs -> Task] /\ TasksSound'
  <1>1. task \in [Procs -> Task] /\ task' = [task EXCEPT ![p] = t]
    BY DEF CatalogTypes, Goes
  <1>2. ASSUME NEW q \in Procs PROVE Sound(task'[q], published', fetched')
    <2>1. CASE q = p
      BY <1>1, <2>1
    <2>2. CASE q # p
      <3>1. task'[q] = task[q] /\ task[q] \in Task
        BY <1>1, <2>2
      <3> QED BY <3>1, SoundGrows DEF TasksSound
    <2> QED BY <2>1, <2>2
  <1> QED BY <1>1, <1>2 DEF TasksSound

(* A change of alone keeps the type of a task.                             *)
LEMMA AloneType == \A t \in Task : \A a \in BOOLEAN : [t EXCEPT !.alone = a] \in Task
  BY DEF Task

(* A task with its own alone is itself.                                    *)
LEMMA StillAlone == \A t \in Task : [t EXCEPT !.alone = t.alone] = t
  BY DEF Task

(* The tasks of everybody when p begins.                                   *)
LEMMA BeginIs ==
  ASSUME CatalogTypes, NEW p \in Procs, NEW t \in Task, Begin(p, t)
  PROVE  /\ task' \in [Procs -> Task]
         /\ task[p].pc = "idle"
         /\ \E a \in BOOLEAN : task'[p] = [t EXCEPT !.alone = a]
         /\ \A q \in Procs \ {p} : \E a \in BOOLEAN :
              /\ task'[q] = [task[q] EXCEPT !.alone = a]
              /\ task[q] = NoTask => a = FALSE
  <1> DEFINE new == [t EXCEPT !.alone = /\ t.name # None
                                        /\ \A r \in Procs : task[r].name # t.name]
             old(q) == [task[q] EXCEPT !.alone = @ /\ task[q].name # t.name]
  <1>1. task' = [q \in Procs |-> IF q = p THEN new ELSE old(q)]
    BY DEF Begin
  <1>2. \A q \in Procs : task[q] \in Task /\ task[q].alone \in BOOLEAN
    BY DEF CatalogTypes, Task
  <1>3. (t.name # None /\ \A r \in Procs : task[r].name # t.name) \in BOOLEAN
    OBVIOUS
  <1>4. new \in Task
    BY <1>3, AloneType
  <1>5. \A q \in Procs : old(q) \in Task
    BY <1>2, AloneType
  <1>6. task' \in [Procs -> Task]
    BY <1>1, <1>4, <1>5
  <1>7. ASSUME NEW q \in Procs \ {p}
        PROVE  \E a \in BOOLEAN : /\ task'[q] = [task[q] EXCEPT !.alone = a]
                                  /\ task[q] = NoTask => a = FALSE
    <2> DEFINE a == task[q].alone /\ task[q].name # t.name
    <2>1. a \in BOOLEAN /\ task'[q] = [task[q] EXCEPT !.alone = a]
      BY <1>1, <1>2
    <2>2. task[q] = NoTask => a = FALSE
      BY DEF NoTask
    <2> HIDE DEF a
    <2> QED BY <2>1, <2>2
  <1>8. \E a \in BOOLEAN : task'[p] = [t EXCEPT !.alone = a]
    BY <1>1, <1>3
  <1> QED BY <1>6, <1>7, <1>8 DEF Begin

(* Whether a command is alone has no bearing on its being sound.           *)
LEMMA SoundAlone ==
  ASSUME NEW t \in Task, NEW a \in BOOLEAN, t.pc # "idle", NEW pub, NEW fet, Sound(t, pub, fet)
  PROVE  Sound([t EXCEPT !.alone = a], pub, fet)
  BY DEF Sound, Points, Knows, Named, Cached, Task, Reading, Directory

-----------------------------------------------------------------------------
(* The base invariant holds initially.                                     *)
LEMMA BaseInit == CatalogInit => BaseInv
  <1> SUFFICES ASSUME CatalogInit PROVE BaseInv
    OBVIOUS
  <1> USE DEF CatalogInit
  <1>1. CatalogTypes
    <2>1. config \in Settings
      BY EmptySeq DEF Settings
    <2>2. DOMAIN rows \subseteq Refs /\ rows \in [DOMAIN rows -> Rows]
      BY DEF Nothing
    <2>3. published \in [Sources -> SUBSET Trees]
      OBVIOUS
    <2>4. task \in [Procs -> Task]
      BY NoTaskType
    <2>5. edits \in 0..MaxEdits /\ commands \in 0..MaxCommands
      BY CatalogAssumption
    <2> QED BY <2>1, <2>2, <2>3, <2>4, <2>5 DEF CatalogTypes
  <1>2. TasksSound
    BY DEF TasksSound, Sound, Points, Knows, Named, Cached, NoTask, Reading, Directory
  <1>3. EntriesSound /\ HoldersKnow
    BY DEF EntriesSound, HoldersKnow, NoTask
  <1> QED BY <1>1, <1>2, <1>3 DEF BaseInv

(* Beginning a command with a sound task keeps everything.                 *)
LEMMA BeginBase ==
  ASSUME BaseInv, NEW p \in Procs, NEW t \in Task, Begin(p, t), Sound(t, published, fetched),
         t.pc \in {"read", "lock"}
  PROVE  BaseInv'
  <1>1. CatalogTypes /\ TasksSound /\ EntriesSound /\ HoldersKnow
    BY DEF BaseInv
  <1>2. UNCHANGED <<worldVars, gitVars, bundles, tableVars, settingsVars>>
    BY DEF Begin
  <1>3. CatalogTypes'
    <2>1. settled' \in [Names -> BOOLEAN] /\ commands' \in 0..MaxCommands
      BY <1>1, CatalogAssumption DEF Begin, CatalogTypes
    <2> QED BY <1>1, <1>2, <2>1, BeginIs
         DEF CatalogTypes, worldVars, gitVars, tableVars, settingsVars
  <1>4. ASSUME NEW q \in Procs
        PROVE  /\ Sound(task'[q], published, fetched)
               /\ task'[q].pc \in {"change", "write"} =>
                    task[q].pc = task'[q].pc /\ task[q].settings = task'[q].settings
    <2>1. CASE q = p
      <3>1. PICK a \in BOOLEAN : task'[p] = [t EXCEPT !.alone = a]
        BY <1>1, BeginIs
      <3>2. Sound(task'[p], published, fetched)
        BY <3>1, SoundAlone
      <3>3. task'[p].pc \in {"read", "lock"}
        BY <3>1 DEF Task
      <3> QED BY <2>1, <3>2, <3>3
    <2>2. CASE q # p
      <3>1. PICK a \in BOOLEAN : /\ task'[q] = [task[q] EXCEPT !.alone = a]
                                 /\ task[q] = NoTask => a = FALSE
        BY <1>1, <2>2, BeginIs
      <3>2. task[q] \in Task /\ Sound(task[q], published, fetched)
        BY <1>1 DEF CatalogTypes, TasksSound
      <3>3. CASE task[q].pc = "idle"
        <4>1. task[q] = NoTask
          BY <3>2, <3>3 DEF Sound, Points
        <4>2. task'[q] = [NoTask EXCEPT !.alone = FALSE]
          BY <3>1, <4>1
        <4>3. [NoTask EXCEPT !.alone = FALSE] = NoTask
          <5>1. NoTask.alone = FALSE
            BY DEF NoTask
          <5> QED BY <5>1, NoTaskType, StillAlone
        <4> QED BY <3>2, <4>1, <4>2, <4>3 DEF NoTask
      <3>4. CASE task[q].pc # "idle"
        <4>1. Sound(task'[q], published, fetched)
          BY <3>1, <3>2, <3>4, SoundAlone
        <4>2. task'[q].pc = task[q].pc /\ task'[q].settings = task[q].settings
          BY <3>1, <3>2 DEF Task
        <4> QED BY <4>1, <4>2
      <3> QED BY <3>3, <3>4
    <2> QED BY <2>1, <2>2
  <1>5. TasksSound' /\ EntriesSound'
    BY <1>1, <1>2, <1>4 DEF TasksSound, EntriesSound, worldVars, gitVars, settingsVars
  <1>6. HoldersKnow'
    BY <1>1, <1>2, <1>4 DEF HoldersKnow, settingsVars
  <1> QED BY <1>3, <1>5, <1>6 DEF BaseInv

(* A command goes on, and touches the settings only as a holder may.       *)
LEMMA GoBase ==
  ASSUME BaseInv, NEW p \in Procs, NEW t \in Task, Goes(p, t), Sound(t, published', fetched'),
         Grows, UNCHANGED <<config, configLock>>, UNCHANGED published,
         t.pc \notin {"change", "write"}
           \/ (task[p].pc \in {"change", "write"} /\ t.settings = task[p].settings)
  PROVE  task' \in [Procs -> Task] /\ TasksSound' /\ EntriesSound' /\ HoldersKnow'
  <1>1. CatalogTypes /\ TasksSound /\ EntriesSound /\ HoldersKnow
    BY DEF BaseInv
  <1>2. task' \in [Procs -> Task] /\ TasksSound'
    BY <1>1, Advance
  <1>3. EntriesSound'
    BY <1>1 DEF EntriesSound
  <1>4. task' = [task EXCEPT ![p] = t] /\ task \in [Procs -> Task]
    BY <1>1 DEF Goes, CatalogTypes
  <1>5. HoldersKnow'
    BY <1>1, <1>4 DEF HoldersKnow
  <1> QED BY <1>2, <1>3, <1>5

(* A step that changes only the task of p keeps the base invariant, if the *)
(* new task is sound.                                                      *)
LEMMA OnlyTaskBase ==
  ASSUME BaseInv, NEW p \in Procs, NEW t \in Task, Goes(p, t), OnlyTask,
         Sound(t, published, fetched), t.pc \notin {"change", "write"}
  PROVE  BaseInv'
  <1> USE DEF OnlyTask, worldVars, gitVars, tableVars, settingsVars
  <1>1. Grows
    BY DEF Grows
  <1>2. task' \in [Procs -> Task] /\ TasksSound' /\ EntriesSound' /\ HoldersKnow'
    BY <1>1, GoBase
  <1>3. CatalogTypes'
    BY <1>2 DEF BaseInv, CatalogTypes
  <1> QED BY <1>2, <1>3 DEF BaseInv

(* What is read while workflows are loaded is a tree of the source.        *)
LEMMA ReadsTree ==
  ASSUME CatalogTypes, NEW t \in Task, Sound(t, published, fetched), t.pc \in {"load"} \cup Directory
  PROVE  /\ t.name \in Names
         /\ Reads(t) \in Trees
         /\ \A d \in Holds(Reads(t)) : d \in Dirs /\ Reads(t)[d] \in Contents
  <1>1. t.name \in Names
    BY DEF Sound, Points, Named, Reading, Directory
  <1>2. SourceOf[t.name] \in Sources
    BY <1>1 DEF Sources
  <1>3. Reads(t) \in Trees
    BY <1>1, <1>2 DEF Reads, Sound, Knows, CatalogTypes
  <1> QED BY <1>1, <1>3, TreesAreTrees DEF Tree, Holds

(* The steps that read a catalogue keep the base invariant.                *)
LEMMA ReadingBase ==
  ASSUME BaseInv, NEW p \in Procs,
         \/ Archive(p) \/ Walk(p) \/ ReadManifest(p) \/ ReadDigest(p) \/ Reuse(p) \/ Copy(p)
  PROVE  BaseInv'
  <1> DEFINE t == task[p]
  <1>1. t \in Task /\ Sound(t, published, fetched) /\ CatalogTypes
    BY DEF BaseInv, CatalogTypes, TasksSound
  <1> HIDE DEF t
  <1>2. CASE Archive(p)
    <2> DEFINE tree == fetched[SourceOf[t.name]]
               u == [t EXCEPT !.pc = "load", !.tree = tree, !.todo = Holds(tree)]
    <2>1. Goes(p, u) /\ OnlyTask /\ t.pc = "archive"
      BY <1>2 DEF Archive, t
    <2>2. tree \in Trees
      BY <1>1, <2>1 DEF Sound, Cached
    <2>3. u \in Task /\ u.pc = "load"
      <3>1. u \in Task
        BY <1>1, <2>2, TreesAreTrees DEF Task, Holds
      <3>2. u.pc = "load"
        BY <1>1 DEF Task
      <3> QED BY <3>1, <3>2
    <2>4. Sound(u, published, fetched)
      BY <1>1, <2>1, <2>2 DEF Sound, Points, Knows, Named, Cached, Task, Reading, Directory
    <2> HIDE DEF u
    <2> QED BY <2>1, <2>3, <2>4, OnlyTaskBase
  <1>3. CASE Walk(p)
    <2>1. PICK todo : /\ todo \in (IF t.op = "validate"
                                   THEN {{d} : d \in Holds(source[SourceOf[t.name]])}
                                   ELSE {Holds(source[SourceOf[t.name]])})
                      /\ Goes(p, [t EXCEPT !.pc = "load", !.todo = todo])
      BY <1>3 DEF Walk, t
    <2> DEFINE u == [t EXCEPT !.pc = "load", !.todo = todo]
    <2>2. OnlyTask /\ t.pc = "read" /\ t.name \notin Git
      BY <1>3 DEF Walk, t
    <2>3. todo \subseteq Dirs
      BY <2>1 DEF Holds
    <2>4. u \in Task /\ u.pc = "load"
      <3>1. u \in Task
        BY <1>1, <2>3 DEF Task
      <3>2. u.pc = "load"
        BY <1>1 DEF Task
      <3> QED BY <3>1, <3>2
    <2>5. Sound(u, published, fetched)
      BY <1>1, <2>2 DEF Sound, Points, Knows, Named, Cached, Task, Reading, Directory
    <2>6. Goes(p, u)
      BY <2>1
    <2> HIDE DEF u
    <2> QED BY <2>2, <2>4, <2>5, <2>6, OnlyTaskBase
  <1>4. CASE ReadManifest(p)
    <2>1. PICK d \in t.todo \cap Holds(Reads(t)) :
            Goes(p, [t EXCEPT !.pc = "digest", !.dir = d, !.manifest = Reads(t)[d]])
      BY <1>4 DEF ReadManifest, t
    <2> DEFINE u == [t EXCEPT !.pc = "digest", !.dir = d, !.manifest = Reads(t)[d]]
    <2>2. OnlyTask /\ t.pc = "load"
      BY <1>4 DEF ReadManifest, t
    <2>3. d \in Dirs /\ Reads(t)[d] \in Contents
      BY <1>1, <2>2, ReadsTree
    <2>4. u \in Task /\ u.pc = "digest"
      <3>1. u \in Task
        BY <1>1, <2>3 DEF Task
      <3>2. u.pc = "digest"
        BY <1>1 DEF Task
      <3> QED BY <3>1, <3>2
    <2>5. Sound(u, published, fetched)
      BY <1>1, <2>2, <2>3 DEF Sound, Points, Knows, Named, Cached, Task, Reading, Directory
    <2>6. Goes(p, u)
      BY <2>1
    <2> HIDE DEF u
    <2> QED BY <2>2, <2>4, <2>5, <2>6, OnlyTaskBase
  <1>5. CASE ReadDigest(p)
    <2> DEFINE u == [t EXCEPT !.pc = "snapshot", !.digest = Reads(t)[t.dir]]
    <2>1. Goes(p, u) /\ OnlyTask /\ t.pc = "digest" /\ t.dir \in Holds(Reads(t))
      BY <1>5 DEF ReadDigest, t
    <2>2. Reads(t)[t.dir] \in Contents
      BY <1>1, <2>1, ReadsTree DEF Directory
    <2>3. u \in Task /\ u.pc = "snapshot"
      <3>1. u \in Task
        BY <1>1, <2>2 DEF Task
      <3>2. u.pc = "snapshot"
        BY <1>1 DEF Task
      <3> QED BY <3>1, <3>2
    <2>4. Sound(u, published, fetched)
      BY <1>1, <2>1, <2>2 DEF Sound, Points, Knows, Named, Cached, Task, Reading, Directory
    <2> HIDE DEF u
    <2> QED BY <2>1, <2>3, <2>4, OnlyTaskBase
  <1>6. CASE Reuse(p)
    <2> DEFINE u == Loaded(t)
    <2>1. Goes(p, u) /\ OnlyTask /\ t.pc = "snapshot"
      BY <1>6 DEF Reuse, t
    <2>2. t.name \in Names
      BY <1>1, <2>1, ReadsTree DEF Directory
    <2>3. u \in Task
      BY <1>1, <2>1, <2>2, LoadedType DEF Sound, Knows, Directory
    <2>4. u.pc = "load" /\ u.op = t.op /\ u.name = t.name /\ u.pin = t.pin /\ u.tree = t.tree
      BY <1>1 DEF Loaded, Task
    <2> HIDE DEF u
    <2>5. Sound(u, published, fetched)
      BY <1>1, <2>1, <2>2, <2>4 DEF Sound, Points, Knows, Named, Cached, Reading, Directory
    <2> QED BY <2>1, <2>3, <2>4, <2>5, OnlyTaskBase
  <1>7. CASE Copy(p)
    <2> DEFINE u == [t EXCEPT !.pc = "rename", !.copy = Reads(t)[t.dir]]
    <2>1. Goes(p, u) /\ OnlyTask /\ t.pc = "snapshot" /\ t.dir \in Holds(Reads(t))
      BY <1>7 DEF Copy, t
    <2>2. Reads(t)[t.dir] \in Contents
      BY <1>1, <2>1, ReadsTree DEF Directory
    <2>3. u \in Task /\ u.pc = "rename"
      <3>1. u \in Task
        BY <1>1, <2>2 DEF Task
      <3>2. u.pc = "rename"
        BY <1>1 DEF Task
      <3> QED BY <3>1, <3>2
    <2>4. Sound(u, published, fetched)
      BY <1>1, <2>1, <2>2 DEF Sound, Points, Knows, Named, Cached, Task, Reading, Directory
    <2> HIDE DEF u
    <2> QED BY <2>1, <2>3, <2>4, OnlyTaskBase
  <1> QED BY <1>2, <1>3, <1>4, <1>5, <1>6, <1>7

(* How a command begins.                                                   *)
Fresh(t) ==
    /\ Sound(t, published, fetched)
    /\ t.found = Nothing
    /\ \/ t.pc = "lock" /\ t.op \in {"trust", "revoke"}
       \/ /\ t.pc = "read"
          /\ t.op = "sync" => Registered(t.name, config) /\ t.pin = EntryOf(t.name, config).pin

(* Every beginning is of a fresh and sound command.                        *)
LEMMA Beginning ==
  ASSUME BaseInv, NEW p \in Procs, Add(p) \/ Sync(p) \/ Validate(p) \/ Trust(p)
  PROVE  \E t \in Task : Fresh(t) /\ Begin(p, t)
  <1>1. CatalogTypes /\ EntriesSound
    BY DEF BaseInv
  <1>2. CASE Add(p)
    <2>0. PICK n \in Names \ {Draft} : \E pin \in {Latest} \cup published[SourceOf[n]] :
            /\ n \in Git \/ pin = Latest
            /\ Begin(p, [NoTask EXCEPT !.pc = "read", !.op = "add", !.name = n, !.pin = pin])
      BY <1>2 DEF Add
    <2>1. PICK pin \in {Latest} \cup published[SourceOf[n]] :
            /\ n \in Git \/ pin = Latest
            /\ Begin(p, [NoTask EXCEPT !.pc = "read", !.op = "add", !.name = n, !.pin = pin])
      BY <2>0
    <2> DEFINE t == [NoTask EXCEPT !.pc = "read", !.op = "add", !.name = n, !.pin = pin]
    <2>2. pin \in Tree \cup {Latest}
      BY <1>1, TreesAreTrees DEF CatalogTypes, Sources
    <2>3. t \in Task
      <3>1. \A m \in Names, c \in Tree \cup {Latest} :
              [NoTask EXCEPT !.pc = "read", !.op = "add", !.name = m, !.pin = c] \in Task
        BY ONLY NoTaskType DEF Task
      <3> QED BY <2>2, <3>1
    <2>4. Fresh(t)
      BY <2>1 DEF NoTask, Fresh, Sound, Points, Knows, Named, Cached, Reading, Directory
    <2> HIDE DEF t
    <2> QED BY <2>1, <2>3, <2>4 DEF t
  <1>3. CASE Sync(p)
    <2>1. PICK n \in Names :
            /\ Registered(n, config)
            /\ Begin(p, [NoTask EXCEPT !.pc = "read", !.op = "sync", !.name = n,
                                       !.pin = EntryOf(n, config).pin])
      BY <1>3 DEF Sync
    <2> DEFINE e == EntryOf(n, config)
               t == [NoTask EXCEPT !.pc = "read", !.op = "sync", !.name = n, !.pin = e.pin]
    <2>2. e \in Entry /\ e.name = n /\ EntrySound(e, published)
      BY <1>1, <2>1, EntryIs DEF EntriesSound, CatalogTypes
    <2>a. e.pin \in Tree \cup {Latest}
      BY <2>2 DEF Entry
    <2>b. e = EntryOf(n, config) /\ Registered(n, config)
      BY <2>1 DEF e
    <2> HIDE DEF e
    <2>3. t \in Task
      <3> DEFINE pin == e.pin
      <3>1. pin \in Tree \cup {Latest}
        BY <2>a DEF pin
      <3> HIDE DEF pin
      <3>2. \A m \in Names, c \in Tree \cup {Latest} :
              [NoTask EXCEPT !.pc = "read", !.op = "sync", !.name = m, !.pin = c] \in Task
        BY ONLY NoTaskType DEF Task
      <3> QED BY <3>1, <3>2 DEF pin, t
    <2>4. Fresh(t)
      <3>1. e = EntryOf(n, config) /\ Registered(n, config)
        BY <2>b
      <3> QED BY <2>2, <3>1 DEF NoTask, Fresh, Sound, Points, Knows, Named, Cached, Reading, Directory, EntrySound
    <2> HIDE DEF t
    <2> QED BY <2>1, <2>3, <2>4 DEF t, e
  <1>4. CASE Validate(p)
    <2> DEFINE t == [NoTask EXCEPT !.pc = "read", !.op = "validate", !.name = Draft, !.pin = Latest]
    <2>0. Draft \in Names
      BY CatalogAssumption
    <2>1. t \in Task
      BY <2>0, NoTaskType DEF Task
    <2>2. Fresh(t)
      BY CatalogAssumption DEF NoTask, Fresh, Sound, Points, Knows, Named, Cached, Reading, Directory
    <2> HIDE DEF t
    <2> QED BY <1>4, <2>1, <2>2 DEF t, Validate
  <1>5. CASE Trust(p)
    <2>1. PICK r \in DOMAIN rows, op \in {"trust", "revoke"} :
            Begin(p, [NoTask EXCEPT !.pc = "lock", !.op = op, !.ref = r])
      BY <1>5 DEF Trust
    <2> DEFINE t == [NoTask EXCEPT !.pc = "lock", !.op = op, !.ref = r]
    <2>2. r \in Refs
      BY <1>1 DEF CatalogTypes
    <2>3. t \in Task
      <3>1. \A o \in {"trust", "revoke"}, q \in Refs :
              [NoTask EXCEPT !.pc = "lock", !.op = o, !.ref = q] \in Task
        BY ONLY NoTaskType DEF Task
      <3> QED BY <2>2, <3>1
    <2>4. Fresh(t)
      BY <2>2 DEF NoTask, Fresh, Sound, Points, Knows, Named, Cached, Reading, Directory
    <2> HIDE DEF t
    <2> QED BY <2>1, <2>3, <2>4 DEF t
  <1> QED BY <1>2, <1>3, <1>4, <1>5

(* Beginnings keep the base invariant.                                     *)
LEMMA BeginningBase ==
  ASSUME BaseInv, NEW p \in Procs, Add(p) \/ Sync(p) \/ Validate(p) \/ Trust(p)
  PROVE  BaseInv'
  <1>1. PICK t \in Task : Fresh(t) /\ Begin(p, t)
    BY Beginning
  <1> QED BY <1>1, BeginBase DEF Fresh

(* What the command has become when p has begun it.                        *)
LEMMA Begun ==
  ASSUME BaseInv, NEW p \in Procs, Add(p) \/ Sync(p) \/ Validate(p) \/ Trust(p)
  PROVE  /\ UNCHANGED <<worldVars, gitVars, bundles, tableVars, settingsVars>>
         /\ task'[p] \in Task
         /\ Fresh(task'[p])
  <1>1. PICK t \in Task : Fresh(t) /\ Begin(p, t)
    BY Beginning
  <1>2. task'[p] \in Task /\ \E a \in BOOLEAN : task'[p] = [t EXCEPT !.alone = a]
    BY <1>1, BeginIs DEF BaseInv
  <1>3. Sound(task'[p], published, fetched)
    BY <1>1, <1>2, SoundAlone DEF Fresh
  <1>4. /\ task'[p].found = t.found /\ task'[p].pc = t.pc /\ task'[p].op = t.op
        /\ task'[p].name = t.name /\ task'[p].pin = t.pin
    BY <1>2 DEF Task
  <1>5. Fresh(task'[p])
    BY <1>1, <1>3, <1>4 DEF Fresh
  <1> QED BY <1>1, <1>2, <1>5 DEF Begin

(* What a command has found is workflows.                                  *)
LEMMA NewWorkflows ==
  ASSUME NEW t \in Task
  PROVE  /\ DOMAIN t.found \subseteq Dirs
         /\ {t.found[d] : d \in DOMAIN t.found} \subseteq Workflow
  BY FoundIs DEF Task

(* replace_catalog leaves a table and an index of their types.             *)
LEMMA ReplacedType ==
  ASSUME CatalogTypes, NEW n, NEW new \in SUBSET Workflow
  PROVE  /\ Replaced(n, new) \in [DOMAIN rows \cup {w.ref : w \in new} -> Rows]
         /\ DOMAIN rows \cup {w.ref : w \in new} \subseteq Refs
         /\ Reindexed(n, new) \in [Refs -> Nat]
  <1> DEFINE fresh == {w.ref : w \in new}
  <1>1. fresh \subseteq Refs /\ DOMAIN rows \subseteq Refs
    BY DEF Workflow, CatalogTypes
  <1>2. ASSUME NEW r \in fresh PROVE (CHOOSE w \in new : w.ref = r).manifest \in Contents
    BY DEF Workflow
  <1>3. \A r \in DOMAIN rows : rows[r] \in Rows /\ [rows[r] EXCEPT !.active = FALSE] \in Rows
    BY DEF CatalogTypes, Rows
  <1>4. Replaced(n, new) \in [DOMAIN rows \cup fresh -> Rows]
    BY <1>2, <1>3 DEF Replaced, Rows
  <1>5. Reindexed(n, new) \in [Refs -> Nat]
    BY DEF Reindexed, CatalogTypes
  <1> QED BY <1>1, <1>4, <1>5

(* Interruptions, the steps on caches and bundles, and the end of a        *)
(* reading keep the base invariant.                                        *)
LEMMA SourceBase ==
  ASSUME BaseInv, NEW p \in Procs,
         Interrupt(p) \/ LockSource(p) \/ Fetch(p) \/ Rename(p) \/ EndRead(p)
  PROVE  BaseInv'
  <1> DEFINE t == task[p]
  <1>1. t \in Task /\ Sound(t, published, fetched) /\ CatalogTypes /\ HoldersKnow
    BY DEF BaseInv, CatalogTypes, TasksSound
  <1>2. Releases(p) => sourceLock' \in [Sources -> Procs \cup {None}]
    BY <1>1 DEF Releases, CatalogTypes
  <1> HIDE DEF t
  <1> USE DEF worldVars, gitVars, tableVars, settingsVars
  <1>3. CASE Interrupt(p)
    <2>1. Grows /\ Goes(p, NoTask) /\ published' = published
      BY <1>3 DEF Interrupt, Grows
    <2>2. Sound(NoTask, published', fetched')
      BY DEF NoTask, Sound, Points, Knows, Named, Cached, Reading, Directory
    <2>3. task' \in [Procs -> Task] /\ TasksSound'
      BY <1>1, <2>1, <2>2, Advance, NoTaskType DEF BaseInv
    <2>4. EntriesSound'
      BY <1>3 DEF Interrupt, BaseInv, EntriesSound
    <2>5. HoldersKnow'
      BY <1>1, <1>3, CatalogAssumption DEF Interrupt, HoldersKnow, Goes, CatalogTypes, NoTask
    <2>6. CatalogTypes'
      BY <1>1, <1>2, <1>3, <2>3 DEF Interrupt, CatalogTypes
    <2> QED BY <2>3, <2>4, <2>5, <2>6 DEF BaseInv
  <1>4. CASE LockSource(p)
    <2> DEFINE u == [t EXCEPT !.pc = "fetch"]
    <2>1. Grows /\ Goes(p, u) /\ UNCHANGED <<published, fetched, config, configLock>>
            /\ t.pc = "read" /\ t.name \in Git
      BY <1>4 DEF LockSource, Grows, t
    <2>2. u \in Task
      BY <1>1 DEF Task
    <2>3. u.pc = "fetch" /\ Sound(u, published, fetched)
      BY <1>1, <2>1 DEF Sound, Points, Knows, Named, Cached, Task, Reading, Directory
    <2> HIDE DEF u
    <2>4. task' \in [Procs -> Task] /\ TasksSound' /\ EntriesSound' /\ HoldersKnow'
      BY <2>1, <2>2, <2>3, GoBase
    <2>5. CatalogTypes'
      BY <1>1, <1>4, <2>4 DEF LockSource, CatalogTypes
    <2> QED BY <2>4, <2>5 DEF BaseInv
  <1>5. CASE Fetch(p)
    <2> DEFINE u == [t EXCEPT !.pc = "archive"]
               s == SourceOf[t.name]
               tree == IF t.pin = Latest THEN source[s] ELSE t.pin
    <2>1. Goes(p, u) /\ UNCHANGED <<published, config, configLock>> /\ t.pc = "fetch"
            /\ fetched' = [fetched EXCEPT ![s] = tree]
      BY <1>5 DEF Fetch, t
    <2>2. t.name \in Git /\ t.name \in Names /\ t.pin \in published[s] \cup {Latest}
      BY <1>1, <2>1 DEF Sound, Points, Named, Reading
    <2>3. s \in Sources /\ tree \in Trees
      BY <1>1, <2>2 DEF Sources, CatalogTypes
    <2> HIDE DEF tree, s
    <2>4. Grows /\ fetched' \in [Sources -> Trees \cup {None}] /\ fetched'[s] \in Trees
      BY <1>1, <2>1, <2>3 DEF Grows, CatalogTypes
    <2>5. u \in Task
      BY <1>1 DEF Task
    <2>6. u.pc = "archive" /\ u.name = t.name
      BY <1>1 DEF Task
    <2>7. Sound(u, published, fetched')
      BY <1>1, <2>1, <2>2, <2>4 DEF Sound, Points, Knows, Named, Cached, Task, Reading, Directory, s
    <2> HIDE DEF u
    <2>8. task' \in [Procs -> Task] /\ TasksSound' /\ EntriesSound' /\ HoldersKnow'
      BY <2>1, <2>4, <2>5, <2>6, <2>7, GoBase
    <2>9. CatalogTypes'
      BY <1>1, <1>5, <2>4, <2>8 DEF Fetch, CatalogTypes
    <2> QED BY <2>8, <2>9 DEF BaseInv
  <1>6. CASE Rename(p)
    <2> DEFINE u == [t EXCEPT !.pc = "snapshot", !.copy = None]
    <2>1. Grows /\ Goes(p, u) /\ UNCHANGED <<published, fetched, config, configLock>>
            /\ t.pc = "rename"
      BY <1>6 DEF Rename, Grows, t
    <2>2. u \in Task
      BY <1>1 DEF Task
    <2>3. u.pc = "snapshot" /\ Sound(u, published, fetched)
      BY <1>1, <2>1 DEF Sound, Points, Knows, Named, Cached, Task, Reading, Directory
    <2>4. t.copy \in Contents
      BY <1>1, <2>1 DEF Sound, Knows
    <2> HIDE DEF u
    <2>5. task' \in [Procs -> Task] /\ TasksSound' /\ EntriesSound' /\ HoldersKnow'
      BY <2>1, <2>2, <2>3, GoBase
    <2>6. bundles' \in [Contents -> Contents \cup {None}]
      BY <1>1, <1>6, <2>4 DEF Rename, CatalogTypes, t
    <2>7. CatalogTypes'
      BY <1>1, <1>6, <2>5, <2>6 DEF Rename, CatalogTypes
    <2> QED BY <2>5, <2>7 DEF BaseInv
  <1>7. CASE EndRead(p)
    <2> DEFINE next == IF t.op = "add" THEN "lock" ELSE "table"
               u == [t EXCEPT !.pc = next]
    <2>1. Grows /\ Goes(p, u) /\ UNCHANGED <<published, fetched, config, configLock>>
            /\ t.pc = "load" /\ Releases(p)
      BY <1>7 DEF EndRead, Grows, t
    <2>2. u \in Task
      BY <1>1 DEF Task
    <2>3. u.pc \in {"lock", "table"}
      BY <1>1 DEF Task
    <2>4. Sound(u, published, fetched)
      BY <1>1, <2>1 DEF Sound, Points, Knows, Named, Cached, Task, Reading, Directory
    <2> HIDE DEF u
    <2>5. task' \in [Procs -> Task] /\ TasksSound' /\ EntriesSound' /\ HoldersKnow'
      BY <2>1, <2>2, <2>3, <2>4, GoBase
    <2>6. CatalogTypes'
      BY <1>1, <1>2, <1>7, <2>1, <2>5 DEF EndRead, CatalogTypes
    <2> QED BY <2>5, <2>6 DEF BaseInv
  <1> QED BY <1>3, <1>4, <1>5, <1>6, <1>7

(* Changes of the table keep the base invariant.                           *)
LEMMA TableBase ==
  ASSUME BaseInv, NEW p \in Procs, SyncTable(p) \/ AddDraft(p) \/ AddTable(p)
  PROVE  BaseInv'
  <1> DEFINE t == task[p]
             new == {t.found[d] : d \in DOMAIN t.found}
  <1>1. t \in Task /\ Sound(t, published, fetched) /\ CatalogTypes
    BY DEF BaseInv, CatalogTypes, TasksSound
  <1>2. new \subseteq Workflow
    BY <1>1, NewWorkflows
  <1> USE DEF worldVars, gitVars, tableVars, settingsVars
  <1>3. ReplaceCatalog(t) => /\ DOMAIN rows' \subseteq Refs
                             /\ rows' \in [DOMAIN rows' -> Rows]
                             /\ index' \in [Refs -> Nat]
    <2>1. /\ Replaced(t.name, new) \in [DOMAIN rows \cup {w.ref : w \in new} -> Rows]
          /\ DOMAIN rows \cup {w.ref : w \in new} \subseteq Refs
          /\ Reindexed(t.name, new) \in [Refs -> Nat]
      BY <1>1, <1>2, ReplacedType
    <2>2. ReplaceCatalog(t) => rows' = Replaced(t.name, new) /\ index' = Reindexed(t.name, new)
      BY DEF ReplaceCatalog
    <2> HIDE DEF new, t
    <2> QED BY <2>1, <2>2
  <1> HIDE DEF t
  <1>4. CASE SyncTable(p)
    <2> DEFINE u == [t EXCEPT !.pc = "lock"]
    <2>1. Grows /\ Goes(p, u) /\ UNCHANGED <<published, fetched, config, configLock>>
            /\ t.pc = "table" /\ t.op = "sync" /\ ReplaceCatalog(t)
      BY <1>4 DEF SyncTable, Grows, t
    <2>2. u \in Task
      BY <1>1 DEF Task
    <2>3. u.pc = "lock" /\ Sound(u, published, fetched)
      BY <1>1, <2>1 DEF Sound, Points, Knows, Named, Cached, Task, Reading, Directory
    <2> HIDE DEF u
    <2>4. task' \in [Procs -> Task] /\ TasksSound' /\ EntriesSound' /\ HoldersKnow'
      BY <2>1, <2>2, <2>3, GoBase
    <2>5. CatalogTypes'
      BY <1>1, <1>3, <1>4, <2>1, <2>4 DEF SyncTable, CatalogTypes
    <2> QED BY <2>4, <2>5 DEF BaseInv
  <1>5. CASE AddDraft(p)
    <2>1. Grows /\ Goes(p, NoTask) /\ UNCHANGED <<published, fetched, config, configLock>>
      BY <1>5 DEF AddDraft, Grows
    <2>2. NoTask.pc = "idle" /\ Sound(NoTask, published, fetched)
      BY DEF NoTask, Sound, Points, Knows, Named, Cached, Reading, Directory
    <2>3. task' \in [Procs -> Task] /\ TasksSound' /\ EntriesSound' /\ HoldersKnow'
      BY <2>1, <2>2, NoTaskType, GoBase
    <2>4. rows' \in [DOMAIN rows \cup {w.ref : w \in new} -> Rows]
      <3>1. ASSUME NEW r \in {w.ref : w \in new} PROVE (CHOOSE w \in new : w.ref = r).manifest \in Contents
        BY <1>2 DEF Workflow
      <3> QED BY <1>1, <1>5, <3>1 DEF AddDraft, Rows, CatalogTypes, t
    <2>5. DOMAIN rows' \subseteq Refs
      BY <1>1, <1>2, <2>4 DEF CatalogTypes, Workflow
    <2>6. CatalogTypes'
      BY <1>1, <1>5, <2>3, <2>4, <2>5 DEF AddDraft, CatalogTypes
    <2> QED BY <2>3, <2>6 DEF BaseInv
  <1>6. CASE AddTable(p)
    <2> DEFINE u == [t EXCEPT !.pc = "write"]
    <2>1. Grows /\ Goes(p, u) /\ UNCHANGED <<published, fetched, config, configLock>>
            /\ t.pc = "change" /\ ReplaceCatalog(t)
      BY <1>6 DEF AddTable, Grows, t
    <2>2. u \in Task /\ u.settings = t.settings
      BY <1>1 DEF Task
    <2>3. u.pc = "write" /\ Sound(u, published, fetched)
      BY <1>1, <2>1 DEF Sound, Points, Knows, Named, Cached, Task, Reading, Directory
    <2> HIDE DEF u
    <2>4. task' \in [Procs -> Task] /\ TasksSound' /\ EntriesSound' /\ HoldersKnow'
      BY <2>1, <2>2, <2>3, GoBase DEF t
    <2>5. CatalogTypes'
      BY <1>1, <1>3, <1>6, <2>1, <2>4 DEF AddTable, CatalogTypes
    <2> QED BY <2>4, <2>5 DEF BaseInv
  <1> QED BY <1>4, <1>5, <1>6

(* The catalogues after a change of the settings.                          *)
LEMMA ChangedCatalogs ==
  ASSUME NEW t \in Task, t.settings \in Settings, t.op \in {"add", "sync", "trust", "revoke"},
         t.op = "add" => t.name \in Names /\ t.pin \in Tree \cup {Latest}
  PROVE  LET old == t.settings.catalogs
             new == Changed(t).catalogs
         IN  /\ Changed(t) = [catalogs |-> new, grants |-> Changed(t).grants]
             /\ old \in Seq(Entry) /\ new \in Seq(Entry)
             /\ t.op = "add" =>
                  /\ Len(new) = Len(old) + 1
                  /\ \A i \in DOMAIN old : new[i] = old[i]
                  /\ new[Len(old) + 1] = [name |-> t.name, pin |-> t.pin, resolved |-> t.tree]
             /\ t.op = "sync" =>
                  /\ Len(new) = Len(old)
                  /\ \A i \in DOMAIN old :
                       new[i] = IF old[i].name = t.name THEN [old[i] EXCEPT !.resolved = t.tree]
                                ELSE old[i]
             /\ t.op \in {"trust", "revoke"} => new = old
             /\ t.op \notin {"trust", "revoke"} => Changed(t).grants = t.settings.grants
             /\ t.op \in {"trust", "revoke"} => Changed(t).grants \in
                  {t.settings.grants \cup {t.ref}, t.settings.grants \ {t.ref}}
  <1> DEFINE old == t.settings.catalogs
             new == Changed(t).catalogs
             e == [name |-> t.name, pin |-> t.pin, resolved |-> t.tree]
             put == [i \in DOMAIN old |-> IF old[i].name = t.name
                                          THEN [old[i] EXCEPT !.resolved = t.tree] ELSE old[i]]
  <1>1. old \in Seq(Entry)
    BY DEF Settings
  <1>2. /\ Len(old) \in Nat /\ DOMAIN old = 1..Len(old)
        /\ \A i \in DOMAIN old : old[i] \in Entry
    BY <1>1, LenProperties
  <1>3. t.tree \in Tree \cup {None}
    BY DEF Task
  <1>4. CASE t.op = "add"
    <2>1. e \in Entry
      BY <1>3, <1>4 DEF Entry
    <2>2. Changed(t) = [t.settings EXCEPT !.catalogs = Append(@, e)]
      BY <1>4 DEF Changed
    <2>3. new = Append(old, e) /\ Changed(t).grants = t.settings.grants
            /\ Changed(t) = [catalogs |-> new, grants |-> Changed(t).grants]
      BY <2>2 DEF Settings
    <2> HIDE DEF new, old, e
    <2> QED BY <1>1, <1>2, <1>4, <2>1, <2>3, AppendProperties DEF new, old, e
  <1>5. CASE t.op = "sync"
    <2>1. Changed(t) = [t.settings EXCEPT !.catalogs = put]
      BY <1>5 DEF Changed
    <2>2. new = put /\ Changed(t).grants = t.settings.grants
            /\ Changed(t) = [catalogs |-> new, grants |-> Changed(t).grants]
      BY <2>1 DEF Settings
    <2>3. put \in [1..Len(old) -> Entry]
      BY <1>2, <1>3 DEF Entry
    <2>4. put \in Seq(Entry)
      BY <1>2, <2>3, SeqDef
    <2>5. DOMAIN put = 1..Len(put) /\ DOMAIN put = 1..Len(old) /\ Len(put) \in Nat
      BY <2>4, <1>2, LenProperties
    <2>6. Len(put) = Len(old)
      BY <2>5, <1>2
    <2> QED BY <1>1, <1>2, <1>5, <2>2, <2>4, <2>6
  <1>6. CASE t.op \in {"trust", "revoke"}
    <2>1. Changed(t) \in {[t.settings EXCEPT !.grants = @ \cup {t.ref}],
                          [t.settings EXCEPT !.grants = @ \ {t.ref}]}
      BY <1>6 DEF Changed
    <2> QED BY <1>1, <1>6, <2>1 DEF Settings
  <1> QED BY <1>4, <1>5, <1>6

(* Taking the lock of config.json and replacing the file keep the base     *)
(* invariant.                                                              *)
LEMMA SettingsBase ==
  ASSUME BaseInv, NEW p \in Procs, LockConfig(p) \/ WriteConfig(p)
  PROVE  BaseInv'
  <1> DEFINE t == task[p]
  <1>1. /\ t \in Task /\ Sound(t, published, fetched)
        /\ CatalogTypes /\ TasksSound /\ EntriesSound /\ HoldersKnow
    BY DEF BaseInv, CatalogTypes, TasksSound
  <1> HIDE DEF t
  <1> USE DEF worldVars, gitVars, tableVars
  <1>2. CASE LockConfig(p)
    <2> DEFINE next == IF t.op = "add" THEN "change" ELSE "write"
               u == [t EXCEPT !.settings = config, !.pc = next]
    <2>1. Grows /\ Goes(p, u) /\ UNCHANGED <<published, fetched, config>>
            /\ t.pc = "lock" /\ configLock = None /\ configLock' = p
      BY <1>2 DEF LockConfig, Grows, t
    <2>0. config \in Settings /\ next \in {"change", "write"}
      BY <1>1 DEF CatalogTypes
    <2>2. u \in Task
      <3> HIDE DEF next, t
      <3>1. t \in Task
        BY <1>1
      <3>2. next \in {"idle", "read", "fetch", "archive", "load", "digest", "snapshot",
                     "rename", "table", "lock", "change", "write"}
        BY <2>0
      <3> DEFINE v == [t EXCEPT !.settings = config]
      <3>3. v \in Task
        BY ONLY <2>0, <3>1 DEF Task
      <3>4. u = [v EXCEPT !.pc = next]
        BY DEF v
      <3> HIDE DEF u, v
      <3> QED BY ONLY <3>2, <3>3, <3>4 DEF Task
    <2>3. u.pc \in {"change", "write"} /\ u.settings = config
      BY <1>1 DEF Task
    <2>4. Sound(u, published, fetched)
      BY <1>1, <2>1 DEF Sound, Points, Knows, Named, Cached, Task, Reading, Directory
    <2> HIDE DEF u
    <2>5. task' \in [Procs -> Task] /\ TasksSound'
      BY <1>1, <2>1, <2>2, <2>4, Advance
    <2>6. EntriesSound'
      BY <1>1, <2>1 DEF EntriesSound
    <2>7. HoldersKnow'
      BY <1>1, <2>1, <2>3, CatalogAssumption DEF HoldersKnow, Goes, CatalogTypes
    <2>8. CatalogTypes'
      BY <1>1, <1>2, <2>5 DEF LockConfig, CatalogTypes
    <2> QED BY <2>5, <2>6, <2>7, <2>8 DEF BaseInv
  <1>3. CASE WriteConfig(p)
    <2>1. Grows /\ Goes(p, NoTask) /\ UNCHANGED <<published, fetched>>
            /\ t.pc = "write" /\ config' = Changed(t)
      BY <1>3 DEF WriteConfig, Grows, t
    <2>2. Sound(NoTask, published, fetched)
      BY DEF NoTask, Sound, Points, Knows, Named, Cached, Reading, Directory
    <2>3. task' \in [Procs -> Task] /\ TasksSound'
      BY <1>1, <2>1, <2>2, Advance, NoTaskType
    <2>4. t.settings = config /\ configLock = p
      BY <1>1, <2>1 DEF HoldersKnow, t
    <2>5. t.settings \in Settings /\ t.op \in {"add", "sync", "trust", "revoke"}
            /\ (t.op \in {"trust", "revoke"} => t.ref \in Refs)
      BY <1>1, <2>1, <2>4 DEF Sound, Points, Named, CatalogTypes
    <2>6. t.op \in {"add", "sync"} =>
            /\ t.name \in Names
            /\ t.name # Draft
            /\ t.pin \in published[SourceOf[t.name]] \cup {Latest}
            /\ t.name \notin Git => t.pin = Latest
      BY <1>1, <2>1 DEF Sound, Named
    <2>7. \A s \in Sources : published[s] \subseteq Tree
      BY <1>1, TreesAreTrees DEF CatalogTypes
    <2>8. t.op = "add" => t.name \in Names /\ t.pin \in Tree \cup {Latest}
      BY <2>6, <2>7 DEF Sources
    <2> DEFINE old == t.settings.catalogs
               new == Changed(t).catalogs
    <2>9. old \in Seq(Entry) /\ new \in Seq(Entry) /\ config'.catalogs = new
      BY <1>1, <2>1, <2>5, <2>8, ChangedCatalogs
    <2>10. DOMAIN old = 1..Len(old) /\ DOMAIN new = 1..Len(new)
             /\ Len(old) \in Nat /\ Len(new) \in Nat
             /\ \A i \in DOMAIN old : old[i] \in Entry /\ EntrySound(old[i], published)
      BY <1>1, <2>4, <2>9, LenProperties DEF EntriesSound
    <2>11. ASSUME NEW i \in DOMAIN new PROVE EntrySound(new[i], published)
      <3>1. CASE t.op = "add"
        <4>1. CASE i \in DOMAIN old
          <5>1. new[i] = old[i]
            BY <1>1, <2>5, <2>8, <3>1, <4>1, ChangedCatalogs
          <5> QED BY <2>10, <4>1, <5>1
        <4>2. CASE i \notin DOMAIN old
          <5> DEFINE e == [name |-> t.name, pin |-> t.pin, resolved |-> t.tree]
          <5>0. Len(new) = Len(old) + 1 /\ new[Len(old) + 1] = e
            BY <1>1, <2>5, <2>8, <3>1, ChangedCatalogs
          <5>1. i = Len(old) + 1
            <6> HIDE DEF old, new
            <6> QED BY <2>10, <4>2, <5>0
          <5>2. EntrySound(e, published)
            BY <2>6, <3>1 DEF EntrySound
          <5> QED BY <5>0, <5>1, <5>2
        <4> QED BY <4>1, <4>2
      <3>2. CASE t.op = "sync"
        <4>1. Len(new) = Len(old) /\ \A j \in DOMAIN old :
                new[j] = IF old[j].name = t.name THEN [old[j] EXCEPT !.resolved = t.tree] ELSE old[j]
          BY <1>1, <2>5, <2>8, <3>2, ChangedCatalogs
        <4>2. i \in DOMAIN old
          BY <2>10, <4>1
        <4>3. new[i].name = old[i].name /\ new[i].pin = old[i].pin
          BY <2>10, <4>1, <4>2 DEF Entry
        <4> QED BY <2>10, <4>2, <4>3 DEF EntrySound
      <3>3. CASE t.op \in {"trust", "revoke"}
        <4>1. new = old
          BY <1>1, <2>5, <2>8, <3>3, ChangedCatalogs
        <4> QED BY <2>10, <4>1
      <3> QED BY <2>5, <3>1, <3>2, <3>3
    <2>12. EntriesSound'
      BY <2>1, <2>9, <2>11 DEF EntriesSound
    <2>13. HoldersKnow'
      BY <1>1, <2>1, <2>4 DEF HoldersKnow, Goes, NoTask, CatalogTypes
    <2>14. config' \in Settings
      <3>1. Changed(t).grants \subseteq Refs
        <4>1. t.settings.grants \subseteq Refs
          BY <2>5 DEF Settings
        <4>2. /\ t.op \notin {"trust", "revoke"} => Changed(t).grants = t.settings.grants
              /\ t.op \in {"trust", "revoke"} => Changed(t).grants \in
                   {t.settings.grants \cup {t.ref}, t.settings.grants \ {t.ref}}
          BY <1>1, <2>5, <2>8, ChangedCatalogs
        <4> HIDE DEF new, old
        <4> QED BY <2>5, <4>1, <4>2
      <3>2. Changed(t) = [catalogs |-> new, grants |-> Changed(t).grants]
        BY <1>1, <2>5, <2>8, ChangedCatalogs
      <3> HIDE DEF new, old
      <3> QED BY <2>1, <2>9, <3>1, <3>2 DEF Settings
    <2>15. CatalogTypes'
      BY <1>1, <1>3, <2>3, <2>14 DEF WriteConfig, CatalogTypes
    <2> QED BY <2>3, <2>12, <2>13, <2>15 DEF BaseInv
  <1> QED BY <1>2, <1>3

(* Edits and commits keep the base invariant.                              *)
LEMMA EditBase ==
  ASSUME BaseInv, NEW s \in Sources, NEW tree \in Trees, Edit(s, tree)
  PROVE  BaseInv'
  <1> USE DEF gitVars, tableVars, settingsVars
  <1>1. CatalogTypes /\ TasksSound /\ EntriesSound /\ HoldersKnow
    BY DEF BaseInv
  <1>2. published' = [published EXCEPT ![s] = @ \cup {tree}]
          /\ UNCHANGED <<fetched, config, configLock, task>>
    BY DEF Edit
  <1>3. Grows
    BY <1>1, <1>2 DEF Grows, CatalogTypes
  <1>4. TasksSound'
    BY <1>1, <1>2, <1>3, SoundGrows DEF TasksSound, CatalogTypes
  <1>5. EntriesSound'
    <2>1. \A i \in DOMAIN config.catalogs : config.catalogs[i] \in Entry
      BY <1>1, LenProperties DEF CatalogTypes, Settings
    <2>2. \A n \in Names : SourceOf[n] \in Sources
      BY DEF Sources
    <2> QED BY <1>1, <1>2, <1>3, <2>1, <2>2 DEF EntriesSound, EntrySound, Entry, Grows
  <1>6. HoldersKnow'
    BY <1>1, <1>2 DEF HoldersKnow
  <1>7. CatalogTypes'
    <2>1. edits' \in 0..MaxEdits
      BY <1>1, CatalogAssumption DEF Edit, CatalogTypes
    <2>2. source' \in [Sources -> Trees] /\ published' \in [Sources -> SUBSET Trees]
      BY <1>1, <1>2 DEF Edit, CatalogTypes
    <2> QED BY <1>1, <2>1, <2>2 DEF Edit, CatalogTypes
  <1> QED BY <1>4, <1>5, <1>6, <1>7 DEF BaseInv

(* Every step keeps the base invariant.                                    *)
LEMMA BaseStep == BaseInv /\ [CatalogNext]_catalogVars => BaseInv'
  <1> SUFFICES ASSUME BaseInv, [CatalogNext]_catalogVars PROVE BaseInv'
    OBVIOUS
  <1>1. CASE \E s \in Sources : \E tree \in Trees : Edit(s, tree)
    BY <1>1, EditBase
  <1>2. ASSUME NEW p \in Procs, Step(p) PROVE BaseInv'
    BY <1>2, BeginningBase, ReadingBase, SourceBase, TableBase, SettingsBase DEF Step
  <1>3. CASE UNCHANGED catalogVars
    BY <1>3 DEF catalogVars, worldVars, gitVars, tableVars, settingsVars, BaseInv, CatalogTypes,
       TasksSound, EntriesSound, HoldersKnow
  <1> QED BY <1>1, <1>2, <1>3 DEF CatalogNext

(* The base invariant holds.                                               *)
LEMMA BaseInvariant == CatalogSpec => []BaseInv
  BY BaseInit, BaseStep, PTL DEF CatalogSpec

(* Every part of the state has its type (property CatalogTypes).           *)
THEOREM CatalogTypesInvariant == CatalogSpec => []CatalogTypes
  <1>1. BaseInv => CatalogTypes
    BY DEF BaseInv
  <1> QED BY <1>1, BaseInvariant, PTL

-----------------------------------------------------------------------------
(* A step of p leaves the commands of the others as they are, but for what *)
(* they are told of being alone.                                           *)
Fellow(t, u) == \E a \in BOOLEAN : u = [t EXCEPT !.alone = a]

(* A step of p leaves the task of every other process, alone apart.        *)
LEMMA StepOthers ==
  ASSUME CatalogTypes, NEW p \in Procs, Step(p), NEW q \in Procs, q # p
  PROVE  task[q] \in Task /\ Fellow(task[q], task'[q])
  <1>1. task \in [Procs -> Task] /\ task[q] \in Task
    BY DEF CatalogTypes
  <1>2. ASSUME NEW t, Goes(p, t) PROVE Fellow(task[q], task'[q])
    <2>1. task'[q] = task[q]
      BY <1>1, <1>2 DEF Goes
    <2>2. task[q] = [task[q] EXCEPT !.alone = task[q].alone] /\ task[q].alone \in BOOLEAN
      BY <1>1, StillAlone DEF Task
    <2> QED BY <2>1, <2>2 DEF Fellow
  <1>3. ASSUME NEW t, Begin(p, t) PROVE Fellow(task[q], task'[q])
    <2>1. task'[q] = [task[q] EXCEPT !.alone = task[q].alone /\ task[q].name # t.name]
      BY <1>1, <1>3 DEF Begin
    <2>2. (task[q].alone /\ task[q].name # t.name) \in BOOLEAN
      BY <1>1 DEF Task
    <2> QED BY <2>1, <2>2 DEF Fellow
  <1>4. CASE Add(p) \/ Sync(p) \/ Validate(p) \/ Trust(p)
    BY <1>3, <1>4, <1>1 DEF Add, Sync, Validate, Trust
  <1>5. CASE \/ Interrupt(p) \/ LockSource(p) \/ Fetch(p) \/ Archive(p) \/ Walk(p)
             \/ ReadManifest(p) \/ ReadDigest(p) \/ Reuse(p) \/ Copy(p)
    BY <1>2, <1>5, <1>1 DEF Interrupt, LockSource, Fetch, Archive, Walk, ReadManifest, ReadDigest,
       Reuse, Copy
  <1>6. CASE Rename(p) \/ EndRead(p) \/ SyncTable(p) \/ AddDraft(p) \/ LockConfig(p)
               \/ AddTable(p) \/ WriteConfig(p)
    BY <1>2, <1>6, <1>1 DEF Rename, EndRead, SyncTable, AddDraft, LockConfig, AddTable, WriteConfig
  <1> QED BY <1>1, <1>4, <1>5, <1>6 DEF Step

-----------------------------------------------------------------------------
(* The settings: catalogues have distinct names, a sync names one of them  *)
(* and its revision, and an addition at its end is still of a new name.    *)
Distinct(entries) ==
    \A i, j \in DOMAIN entries : entries[i].name = entries[j].name => i = j

Configured(t) ==
    /\ t.pc # "idle" /\ t.op = "sync" =>
         \E i \in DOMAIN config.catalogs :
            config.catalogs[i].name = t.name /\ config.catalogs[i].pin = t.pin
    /\ t.pc = "write" /\ t.op = "add" => ~Registered(t.name, config)

ConfigInv ==
    /\ BaseInv
    /\ Distinct(config.catalogs)
    /\ \A p \in Procs : Configured(task[p])

(* The invariant of the settings holds initially.                          *)
LEMMA ConfigInit == CatalogInit => ConfigInv
  <1> SUFFICES ASSUME CatalogInit PROVE ConfigInv
    OBVIOUS
  <1>1. BaseInv
    BY BaseInit
  <1>2. Distinct(config.catalogs)
    BY DEF CatalogInit, Distinct
  <1>3. \A p \in Procs : Configured(task[p])
    BY DEF CatalogInit, Configured, NoTask
  <1> QED BY <1>1, <1>2, <1>3 DEF ConfigInv

(* Fellows agree in everything but alone.                                  *)
LEMMA FellowSame ==
  ASSUME NEW t \in Task, NEW u, Fellow(t, u)
  PROVE  /\ u.pc = t.pc /\ u.op = t.op /\ u.name = t.name /\ u.pin = t.pin /\ u.ref = t.ref
         /\ u.tree = t.tree /\ u.todo = t.todo /\ u.dir = t.dir /\ u.manifest = t.manifest
         /\ u.digest = t.digest /\ u.copy = t.copy /\ u.settings = t.settings
         /\ u.found = t.found
  BY DEF Fellow, Task

(* A step that neither begins nor ends a command keeps its arguments.      *)
Continues(p) ==
    \/ LockSource(p) \/ Fetch(p) \/ Archive(p) \/ Walk(p) \/ ReadManifest(p) \/ ReadDigest(p)
    \/ Reuse(p) \/ Copy(p) \/ Rename(p) \/ EndRead(p) \/ SyncTable(p) \/ LockConfig(p) \/ AddTable(p)

(* What a step that goes on keeps, and when an addition comes to write.    *)
LEMMA Continuing ==
  ASSUME CatalogTypes, NEW p \in Procs, Continues(p)
  PROVE  LET t == task[p] u == task'[p] IN
         /\ t.pc # "idle"
         /\ u.op = t.op /\ u.name = t.name /\ u.pin = t.pin /\ u.ref = t.ref /\ u.alone = t.alone
         /\ config' = config
         /\ u.pc = "write" /\ t.op = "add" => AddTable(p)
         /\ u.found = t.found \/ Reuse(p)
  <1> USE DEF worldVars, gitVars, tableVars, settingsVars, OnlyTask
  <1>0. task \in [Procs -> Task] /\ task[p] \in Task
    BY DEF CatalogTypes
  <1>1. CASE LockSource(p)
    BY <1>0, <1>1 DEF LockSource, Goes, Task
  <1>2. CASE Fetch(p)
    BY <1>0, <1>2 DEF Fetch, Goes, Task
  <1>3. CASE Archive(p)
    BY <1>0, <1>3 DEF Archive, Goes, Task
  <1>4. CASE Walk(p)
    BY <1>0, <1>4 DEF Walk, Goes, Task
  <1>5. CASE ReadManifest(p)
    BY <1>0, <1>5 DEF ReadManifest, Goes, Task
  <1>6. CASE ReadDigest(p)
    BY <1>0, <1>6 DEF ReadDigest, Goes, Task
  <1>7. CASE Reuse(p)
    BY <1>0, <1>7 DEF Reuse, Goes, Task, Loaded
  <1>8. CASE Copy(p)
    BY <1>0, <1>8 DEF Copy, Goes, Task
  <1>9. CASE Rename(p)
    BY <1>0, <1>9 DEF Rename, Goes, Task
  <1>10. CASE EndRead(p)
    BY <1>0, <1>10 DEF EndRead, Goes, Task
  <1>11. CASE SyncTable(p)
    BY <1>0, <1>11 DEF SyncTable, Goes, Task
  <1>12. CASE LockConfig(p)
    BY <1>0, <1>12 DEF LockConfig, Goes, Task
  <1>13. CASE AddTable(p)
    BY <1>0, <1>13 DEF AddTable, Goes, Task
  <1> QED BY <1>1, <1>2, <1>3, <1>4, <1>5, <1>6, <1>7, <1>8, <1>9, <1>10, <1>11, <1>12, <1>13 DEF Continues

(* A step begins, ends or continues a command.                             *)
LEMMA StepKinds ==
  ASSUME NEW p \in Procs, Step(p)
  PROVE  \/ Add(p) \/ Sync(p) \/ Validate(p) \/ Trust(p)
         \/ Interrupt(p) \/ AddDraft(p) \/ WriteConfig(p) \/ Continues(p)
  BY DEF Step, Continues

(* A command that ends leaves an idle process.                             *)
LEMMA Ending ==
  ASSUME CatalogTypes, NEW p \in Procs, Interrupt(p) \/ AddDraft(p) \/ WriteConfig(p)
  PROVE  task'[p] = NoTask /\ task[p].pc # "idle"
  BY DEF CatalogTypes, Interrupt, AddDraft, WriteConfig, Goes

(* Only WriteConfig changes config.json; the other steps keep a task in    *)
(* agreement with it.                                                      *)
LEMMA ConfigUnchanged ==
  ASSUME ConfigInv, NEW p \in Procs, Step(p), ~WriteConfig(p)
  PROVE  config' = config /\ Configured(task'[p])
  <1>1. BaseInv /\ CatalogTypes /\ Configured(task[p])
    BY DEF ConfigInv, BaseInv
  <1> USE DEF worldVars, gitVars, tableVars, settingsVars, OnlyTask
  <1>2. CASE Add(p) \/ Sync(p) \/ Validate(p) \/ Trust(p)
    <2>1. task'[p] \in Task /\ Fresh(task'[p]) /\ config' = config
      BY <1>1, <1>2, Begun
    <2>2. task'[p].op = "sync" /\ task'[p].pc = "read" =>
            \E i \in DOMAIN config.catalogs :
              config.catalogs[i].name = task'[p].name /\ config.catalogs[i].pin = task'[p].pin
      BY <1>1, <2>1, EntryIs DEF Fresh, CatalogTypes
    <2> QED BY <2>1, <2>2 DEF Fresh, Configured
  <1>3. CASE Interrupt(p) \/ AddDraft(p)
    <2>1. config' = config
      BY <1>3 DEF Interrupt, AddDraft
    <2>2. task'[p] = NoTask
      BY <1>1, <1>3, Ending
    <2>3. Configured(NoTask)
      BY DEF NoTask, Configured
    <2> QED BY <2>1, <2>2, <2>3
  <1>4. CASE Continues(p) /\ ~AddTable(p)
    BY <1>1, <1>4, Continuing DEF Configured
  <1>5. CASE AddTable(p)
    <2>1. task[p].settings = config
      BY <1>1, <1>5 DEF AddTable, BaseInv, HoldersKnow
    <2>2. ~Registered(task[p].name, config)
      BY <1>5, <2>1 DEF AddTable
    <2> QED BY <1>1, <1>5, <2>2, Continuing DEF Configured, Continues
  <1> QED BY <1>2, <1>3, <1>4, <1>5, StepKinds

(* What a written change of the settings is.                               *)
LEMMA Written ==
  ASSUME ConfigInv, NEW p \in Procs, WriteConfig(p)
  PROVE  LET t == task[p] old == config.catalogs new == config'.catalogs IN
         /\ t \in Task /\ t.pc = "write" /\ t.op \in {"add", "sync", "trust", "revoke"}
         /\ Sound(t, published, fetched)
         /\ task' = [task EXCEPT ![p] = NoTask]
         /\ old \in Seq(Entry) /\ new \in Seq(Entry)
         /\ DOMAIN old = 1..Len(old) /\ Len(old) \in Nat /\ DOMAIN new = 1..Len(new)
         /\ \A i \in DOMAIN old : old[i] \in Entry
         /\ t.op = "add" =>
              /\ ~Registered(t.name, config)
              /\ Len(new) = Len(old) + 1
              /\ \A i \in DOMAIN old : new[i] = old[i]
              /\ new[Len(old) + 1] = [name |-> t.name, pin |-> t.pin, resolved |-> t.tree]
         /\ t.op = "sync" =>
              /\ DOMAIN new = DOMAIN old
              /\ \A i \in DOMAIN old :
                   /\ new[i] = IF old[i].name = t.name THEN [old[i] EXCEPT !.resolved = t.tree]
                               ELSE old[i]
                   /\ new[i].name = old[i].name /\ new[i].pin = old[i].pin
         /\ t.op \in {"trust", "revoke"} => new = old
         /\ t.op \notin {"trust", "revoke"} => config'.grants = config.grants
         /\ t.op \in {"trust", "revoke"} => config'.grants \in
              {config.grants \cup {t.ref}, config.grants \ {t.ref}}
  <1> DEFINE t == task[p]
             old == config.catalogs
             new == config'.catalogs
  <1>1. /\ t \in Task /\ Sound(t, published, fetched) /\ t.pc = "write" /\ config \in Settings
        /\ t.settings = config /\ config' = Changed(t) /\ task' = [task EXCEPT ![p] = NoTask]
        /\ CatalogTypes /\ Configured(t)
    BY DEF ConfigInv, BaseInv, CatalogTypes, TasksSound, HoldersKnow, WriteConfig, Goes
  <1>2. t.op \in {"add", "sync", "trust", "revoke"}
    BY <1>1 DEF Sound, Points
  <1>3. t.op = "add" => t.name \in Names /\ t.pin \in published[SourceOf[t.name]] \cup {Latest}
    BY <1>1 DEF Sound, Named
  <1>4. \A s \in Sources : published[s] \subseteq Tree
    BY <1>1, TreesAreTrees DEF CatalogTypes
  <1>5. t.op = "add" => t.name \in Names /\ t.pin \in Tree \cup {Latest}
    BY <1>3, <1>4 DEF Sources
  <1> HIDE DEF t
  <1>6. /\ old \in Seq(Entry) /\ new \in Seq(Entry)
        /\ t.op = "add" =>
             /\ Len(new) = Len(old) + 1
             /\ \A i \in DOMAIN old : new[i] = old[i]
             /\ new[Len(old) + 1] = [name |-> t.name, pin |-> t.pin, resolved |-> t.tree]
        /\ t.op = "sync" =>
             /\ Len(new) = Len(old)
             /\ \A i \in DOMAIN old :
                  new[i] = IF old[i].name = t.name THEN [old[i] EXCEPT !.resolved = t.tree]
                           ELSE old[i]
        /\ t.op \in {"trust", "revoke"} => new = old
        /\ t.op \notin {"trust", "revoke"} => config'.grants = config.grants
        /\ t.op \in {"trust", "revoke"} => config'.grants \in
             {config.grants \cup {t.ref}, config.grants \ {t.ref}}
    BY <1>1, <1>2, <1>5, ChangedCatalogs
  <1> HIDE DEF old, new
  <1>7. /\ DOMAIN old = 1..Len(old) /\ Len(old) \in Nat /\ DOMAIN new = 1..Len(new)
        /\ \A i \in DOMAIN old : old[i] \in Entry
    BY <1>6, LenProperties
  <1>8. t.op = "sync" =>
          /\ DOMAIN new = DOMAIN old
          /\ \A i \in DOMAIN old : new[i].name = old[i].name /\ new[i].pin = old[i].pin
    BY <1>6, <1>7 DEF Entry
  <1>9. t.op = "add" => ~Registered(t.name, config)
    BY <1>1 DEF Configured
  <1> QED BY <1>1, <1>2, <1>6, <1>7, <1>8, <1>9 DEF t, old, new

(* A written change keeps names distinct, and is what ConfigKept allows.   *)
LEMMA ConfigWrite ==
  ASSUME ConfigInv, NEW p \in Procs, WriteConfig(p)
  PROVE  Distinct(config'.catalogs) /\ ConfigStep
  <1> DEFINE t == task[p]
             old == config.catalogs
             new == config'.catalogs
  <1>1. Distinct(old)
    BY DEF ConfigInv
  <1>2. task'[p].pc = "idle"
    BY Ending DEF ConfigInv, BaseInv, NoTask
  <1>3. \A i \in DOMAIN old :
          /\ i \in DOMAIN new
          /\ new[i].name = old[i].name /\ new[i].pin = old[i].pin
          /\ old[i] = new[i] \/ (t.op = "sync" /\ t.name = old[i].name)
    <2>1. CASE t.op = "add"
      <3>1. /\ DOMAIN new = 1..Len(new) /\ DOMAIN old = 1..Len(old) /\ Len(old) \in Nat
            /\ Len(new) = Len(old) + 1 /\ \A i \in DOMAIN old : new[i] = old[i]
        BY <2>1, Written
      <3> HIDE DEF new, old
      <3> QED BY <3>1
    <2>2. CASE t.op = "sync"
      BY <2>2, Written
    <2>3. CASE t.op \in {"trust", "revoke"}
      BY <2>3, Written
    <2> QED BY <2>1, <2>2, <2>3, Written
  <1>4. Distinct(new)
    <2>1. CASE t.op = "add"
      <3>1. /\ DOMAIN new = 1..Len(new) /\ DOMAIN old = 1..Len(old) /\ Len(old) \in Nat
            /\ Len(new) = Len(old) + 1 /\ \A i \in DOMAIN old : new[i] = old[i]
            /\ new[Len(old) + 1].name = t.name
            /\ \A i \in DOMAIN old : old[i].name # t.name
        <4>1. /\ DOMAIN new = 1..Len(new) /\ DOMAIN old = 1..Len(old) /\ Len(old) \in Nat
              /\ Len(new) = Len(old) + 1 /\ \A i \in DOMAIN old : new[i] = old[i]
              /\ new[Len(old) + 1] = [name |-> t.name, pin |-> t.pin, resolved |-> t.tree]
              /\ ~Registered(t.name, config)
          BY <2>1, Written
        <4>2. \A i \in DOMAIN old : old[i].name # t.name
          BY <4>1 DEF Registered
        <4> HIDE DEF new, old, t
        <4> QED BY <4>1, <4>2
      <3>2. \A i \in DOMAIN new : i \in DOMAIN old \/ i = Len(old) + 1
        <4> HIDE DEF new, old
        <4> QED BY <3>1
      <3> HIDE DEF new, old, t
      <3> QED BY <1>1, <3>1, <3>2 DEF Distinct
    <2>2. CASE t.op = "sync"
      <3>1. DOMAIN new = DOMAIN old /\ \A i \in DOMAIN old : new[i].name = old[i].name
        BY <2>2, Written
      <3> HIDE DEF new, old
      <3> QED BY <1>1, <3>1 DEF Distinct
    <2>3. CASE t.op \in {"trust", "revoke"}
      BY <1>1, <2>3, Written
    <2> QED BY <2>1, <2>2, <2>3, Written
  <1>5. ConfigStep
    <2>1. t.pc = "write"
      BY Written
    <2>2. \A r \in Refs : (r \in config.grants) # (r \in config'.grants) =>
            t.op \in {"trust", "revoke"} /\ t.ref = r
      <3>1. /\ t.op \notin {"trust", "revoke"} => config'.grants = config.grants
            /\ t.op \in {"trust", "revoke"} => config'.grants \in
                 {config.grants \cup {t.ref}, config.grants \ {t.ref}}
        BY Written
      <3> HIDE DEF t
      <3> QED BY <3>1
    <2>3. \A ops : t.op \in ops => Writes(p, ops)
      BY <1>2, <2>1 DEF Writes
    <2>4. \A i \in DOMAIN old : old[i] = new[i] \/ \E q \in Procs : Writes(q, {"sync"}) /\ task[q].name = old[i].name
      BY <1>3, <2>3
    <2>5. \A r \in Refs : (r \in config.grants) # (r \in config'.grants) =>
            \E q \in Procs : Writes(q, {"trust", "revoke"}) /\ task[q].ref = r
      BY <2>2, <2>3
    <2> QED BY <1>3, <1>4, <2>4, <2>5 DEF ConfigStep, Distinct
  <1> QED BY <1>4, <1>5

(* Every step keeps the invariant of the settings, and changes them as     *)
(* ConfigKept allows if at all.                                            *)
LEMMA ConfigStepInv == ConfigInv /\ [CatalogNext]_catalogVars => ConfigInv' /\ (ConfigStep \/ UNCHANGED config)
  <1> SUFFICES ASSUME ConfigInv, [CatalogNext]_catalogVars
               PROVE  ConfigInv' /\ (ConfigStep \/ UNCHANGED config)
    OBVIOUS
  <1>1. BaseInv /\ BaseInv' /\ CatalogTypes
    BY BaseStep DEF ConfigInv, BaseInv
  <1>2. ASSUME NEW p \in Procs, Step(p) PROVE ConfigInv' /\ (ConfigStep \/ UNCHANGED config)
    <2>1. ASSUME NEW q \in Procs, q # p
          PROVE  /\ task[q] \in Task /\ Configured(task[q])
                 /\ task'[q].pc = task[q].pc /\ task'[q].op = task[q].op
                 /\ task'[q].name = task[q].name /\ task'[q].pin = task[q].pin
      BY <1>1, <1>2, <2>1, StepOthers, FellowSame DEF ConfigInv
    <2>2. CASE WriteConfig(p)
      <3>1. Distinct(config'.catalogs) /\ ConfigStep
        BY <2>2, ConfigWrite
      <3>2. ASSUME NEW q \in Procs PROVE Configured(task[q])'
        <4>1. CASE q = p
          BY <1>1, <2>2, <4>1, Ending DEF Configured, NoTask
        <4>2. CASE q # p
          <5>1. task'[q].pc # "write"
            <6>1. configLock = p /\ task[p].pc = "write"
              BY <1>1, <2>2 DEF WriteConfig, BaseInv, HoldersKnow
            <6> QED BY <1>1, <2>1, <4>2, <6>1 DEF BaseInv, HoldersKnow
          <5>2. \A i \in DOMAIN config.catalogs :
                  /\ i \in DOMAIN config'.catalogs
                  /\ config'.catalogs[i].name = config.catalogs[i].name
                  /\ config'.catalogs[i].pin = config.catalogs[i].pin
            BY <3>1 DEF ConfigStep
          <5> QED BY <2>1, <4>2, <5>1, <5>2 DEF Configured
        <4> QED BY <4>1, <4>2
      <3> QED BY <1>1, <3>1, <3>2 DEF ConfigInv
    <2>3. CASE ~WriteConfig(p)
      <3>1. config' = config /\ Configured(task'[p])
        BY <1>2, <2>3, ConfigUnchanged
      <3>2. ASSUME NEW q \in Procs PROVE Configured(task[q])'
        BY <2>1, <3>1 DEF Configured, Registered
      <3> QED BY <1>1, <3>1, <3>2 DEF ConfigInv
    <2> QED BY <2>2, <2>3
  <1>3. CASE UNCHANGED <<task, config>>
    BY <1>1, <1>3 DEF ConfigInv, Configured, Registered
  <1>4. CASE \E s \in Sources : \E tree \in Trees : Edit(s, tree)
    BY <1>3, <1>4 DEF Edit, settingsVars
  <1>5. CASE UNCHANGED catalogVars
    BY <1>3, <1>5 DEF catalogVars, settingsVars
  <1> QED BY <1>2, <1>4, <1>5 DEF CatalogNext

(* No change of config.json is lost or made twice (property ConfigKept).   *)
THEOREM NoChangeIsLost == CatalogSpec => ConfigKept
  <1>1. ConfigInv /\ [CatalogNext]_catalogVars => [ConfigStep]_catalogVars
    <2> SUFFICES ASSUME ConfigInv, [CatalogNext]_catalogVars PROVE [ConfigStep]_catalogVars
      OBVIOUS
    <2>1. CASE UNCHANGED config
      BY <2>1 DEF ConfigInv, ConfigStep, Distinct
    <2> QED BY <2>1, ConfigStepInv
  <1>2. CatalogSpec => []ConfigInv
    BY ConfigInit, ConfigStepInv, PTL DEF CatalogSpec
  <1> QED BY <1>1, <1>2, PTL DEF CatalogSpec, ConfigKept

-----------------------------------------------------------------------------
(* Reading a Git source: its cache is used by one command at a time, which *)
(* unpacks the commit it fetched, and finds what this commit holds.        *)
Unpacked == {"load"} \cup Directory
Past == Unpacked \cup {"table", "lock", "change", "write"}
Of(n, c) == [ref |-> [catalog |-> n, id |-> IdOf[c], digest |-> c], manifest |-> c]

FindsOf(t, tree) ==
    /\ DOMAIN t.found \cup t.todo = Holds(tree)
    /\ \A d \in DOMAIN t.found : t.found[d] = Of(t.name, tree[d])
    /\ t.pc \in Directory => t.dir \in Holds(tree) /\ t.manifest = tree[t.dir]
    /\ t.pc \in {"snapshot", "rename"} => t.digest = tree[t.dir]
    /\ t.pc \notin Unpacked => t.todo = {}

GitReads(t, pub) ==
    t.name \in Git =>
        /\ t.pc \in {"read", "fetch", "archive"} => DOMAIN t.found = {}
        /\ t.pc \in Past =>
             /\ t.tree \in pub[SourceOf[t.name]]
             /\ t.pin # Latest => t.tree = t.pin
             /\ FindsOf(t, t.tree)

HoldsSource(p, t, lock) ==
    t.name \in Git /\ t.pc \in {"fetch", "archive"} \cup Unpacked => lock[SourceOf[t.name]] = p

HasFetched(t, fet, pub) ==
    t.pc = "archive" =>
        /\ fet[SourceOf[t.name]] \in pub[SourceOf[t.name]]
        /\ t.pin # Latest => fet[SourceOf[t.name]] = t.pin

GitReader(p, t, pub, fet, lock) == GitReads(t, pub) /\ HoldsSource(p, t, lock) /\ HasFetched(t, fet, pub)

GitInv ==
    /\ BaseInv
    /\ \A s \in Sources : source[s] \in published[s]
    /\ \A p \in Procs : GitReader(p, task[p], published, fetched, sourceLock)

(* The invariant of Git sources holds initially.                           *)
LEMMA GitInit == CatalogInit => GitInv
  <1> SUFFICES ASSUME CatalogInit PROVE GitInv
    OBVIOUS
  <1>1. BaseInv
    BY BaseInit
  <1>2. \A s \in Sources : source[s] \in published[s]
    BY DEF CatalogInit
  <1>3. ASSUME NEW p \in Procs PROVE GitReader(p, NoTask, published, fetched, sourceLock)
    BY DEF GitReader, GitReads, HoldsSource, HasFetched, NoTask, Past, Unpacked, Directory
  <1> QED BY <1>1, <1>2, <1>3 DEF CatalogInit, GitInv

(* A workflow that has been loaded is one of the commit.                   *)
LEMMA FindsWhenLoaded ==
  ASSUME NEW t \in Task, NEW tree \in Tree, FindsOf(t, tree), t.pc = "snapshot"
  PROVE  FindsOf(Loaded(t), tree)
  <1> DEFINE u == Loaded(t)
             w == [ref |-> [catalog |-> t.name, id |-> IdOf[t.manifest], digest |-> t.digest],
                   manifest |-> t.manifest]
             f == [d \in DOMAIN t.found \cup {t.dir} |-> IF d = t.dir THEN w ELSE t.found[d]]
  <1>1. u.pc = "load" /\ u.todo = t.todo \ {t.dir} /\ u.found = f /\ u.name = t.name
    BY DEF Loaded, Task
  <1>2. w = Of(t.name, tree[t.dir]) /\ t.dir \in Holds(tree)
    BY DEF FindsOf, Of, Directory
  <1> HIDE DEF u, w
  <1>3. DOMAIN f = DOMAIN t.found \cup {t.dir}
          /\ \A d \in DOMAIN f : f[d] = Of(t.name, tree[d])
    BY <1>2 DEF FindsOf
  <1> HIDE DEF f
  <1>4. DOMAIN f \cup (t.todo \ {t.dir}) = Holds(tree)
    BY <1>2, <1>3 DEF FindsOf
  <1>5. FindsOf(u, tree)
    BY <1>1, <1>3, <1>4 DEF FindsOf, Unpacked, Directory
  <1> QED BY <1>5 DEF u

(* Whether a command is alone has no bearing on what it reads.             *)
LEMMA GitUnchanged ==
  ASSUME NEW p, NEW t \in Task, NEW u, Fellow(t, u), NEW pub, NEW fet, NEW lock,
         GitReader(p, t, pub, fet, lock)
  PROVE  GitReader(p, u, pub, fet, lock)
  BY FellowSame DEF GitReader, GitReads, HoldsSource, HasFetched, FindsOf

(* What a step of p makes of its own task.                                 *)
LEMMA GitOwn ==
  ASSUME GitInv, NEW p \in Procs, Step(p),
         NEW t, t = task[p], NEW u, u = task'[p]
  PROVE  GitReader(p, u, published, fetched', sourceLock')
  <1> DEFINE s == SourceOf[t.name]
  <1>1. /\ t \in Task /\ Sound(t, published, fetched) /\ CatalogTypes /\ BaseInv
        /\ task \in [Procs -> Task]
        /\ GitReader(p, t, published, fetched, sourceLock)
    BY DEF GitInv, BaseInv, CatalogTypes, TasksSound
  <1>2. t.name \in Git => s \in Sources
    BY CatalogAssumption DEF Sources
  <1>3. t.name \in Git /\ t.pc \in Unpacked => t.tree \in Tree /\ Reads(t) = t.tree
    BY <1>1, TreesAreTrees DEF Sound, Knows, Reads, Unpacked
  <1>4. Continues(p) => u.name = t.name /\ u.pin = t.pin
    BY <1>1, Continuing
  <1> USE DEF worldVars, gitVars, tableVars, settingsVars, OnlyTask
  <1>5. CASE Add(p) \/ Sync(p) \/ Validate(p) \/ Trust(p)
    <2>1. Fresh(u)
      BY <1>1, <1>5, Begun
    <2>2. u.pc = "lock" => u.name = None
      BY <2>1 DEF Fresh, Sound, Named
    <2>3. u.pc = "lock" => u.name \notin Git
      BY <2>2, CatalogAssumption
    <2>4. u.pc \in {"read", "lock"} /\ DOMAIN u.found = {}
      BY <2>1, NothingFound DEF Fresh
    <2> QED BY <2>3, <2>4 DEF GitReader, GitReads, HoldsSource, HasFetched, FindsOf, Past, Unpacked, Directory
  <1>6. CASE Interrupt(p) \/ AddDraft(p) \/ WriteConfig(p)
    <2>1. u = NoTask
      BY <1>1, <1>6, Ending
    <2>2. u.pc = "idle"
      BY <2>1 DEF NoTask
    <2> QED BY <2>2 DEF GitReader, GitReads, HoldsSource, HasFetched, FindsOf, Past, Unpacked, Directory
  <1>7. CASE LockSource(p)
    <2>1. u = [t EXCEPT !.pc = "fetch"] /\ sourceLock' = [sourceLock EXCEPT ![s] = p]
            /\ t.pc = "read" /\ t.name \in Git
      BY <1>1, <1>7 DEF LockSource, Goes
    <2>2. u.pc = "fetch" /\ u.found = t.found /\ u.name = t.name
      BY <1>1, <2>1 DEF Task
    <2>3. sourceLock'[s] = p
      BY <1>1, <1>2, <2>1 DEF CatalogTypes
    <2> QED BY <1>1, <2>1, <2>2, <2>3 DEF GitReader, GitReads, HoldsSource, HasFetched, FindsOf, Past, Unpacked, Directory, s
  <1>8. CASE Fetch(p)
    <2>1. u = [t EXCEPT !.pc = "archive"] /\ UNCHANGED sourceLock /\ t.pc = "fetch"
            /\ fetched' = [fetched EXCEPT ![s] = IF t.pin = Latest THEN source[s] ELSE t.pin]
      BY <1>1, <1>8 DEF Fetch, Goes
    <2>2. u.pc = "archive" /\ u.found = t.found /\ u.name = t.name /\ u.pin = t.pin
      BY <1>1, <2>1 DEF Task
    <2>3. t.name \in Git /\ t.pin \in published[s] \cup {Latest}
      BY <1>1, <2>1 DEF Sound, Points, Named, Reading
    <2>4. fetched'[s] \in published[s] /\ (t.pin # Latest => fetched'[s] = t.pin)
      BY <1>1, <1>2, <2>1, <2>3 DEF CatalogTypes, GitInv
    <2> QED BY <1>1, <2>1, <2>2, <2>3, <2>4 DEF GitReader, GitReads, HoldsSource, HasFetched, FindsOf, Past, Unpacked, Directory, s
  <1>9. CASE Archive(p)
    <2> DEFINE tree == fetched[s]
    <2>1. u = [t EXCEPT !.pc = "load", !.tree = tree, !.todo = Holds(tree)]
            /\ UNCHANGED <<fetched, sourceLock>> /\ t.pc = "archive"
      BY <1>1, <1>9 DEF Archive, Goes
    <2>2. u.pc = "load" /\ u.found = t.found /\ u.name = t.name /\ u.pin = t.pin
            /\ u.tree = tree /\ u.todo = Holds(tree)
      BY <1>1, <2>1 DEF Task
    <2> QED BY <1>1, <2>1, <2>2 DEF GitReader, GitReads, HoldsSource, HasFetched, FindsOf, Past, Unpacked, Directory, s
  <1>10. CASE Walk(p)
    <2>1. t.name \notin Git /\ Continues(p)
      BY <1>10 DEF Walk, Continues
    <2>2. u.pc = "load"
      BY <1>1, <1>10 DEF Walk, Goes, Task
    <2> QED BY <1>4, <2>1, <2>2 DEF GitReader, GitReads, HoldsSource, HasFetched, FindsOf, Past, Unpacked, Directory
  <1>11. CASE ReadManifest(p)
    <2>1. PICK d \in t.todo \cap Holds(Reads(t)) :
            u = [t EXCEPT !.pc = "digest", !.dir = d, !.manifest = Reads(t)[d]]
      BY <1>1, <1>11 DEF ReadManifest, Goes
    <2>2. t.pc = "load" /\ UNCHANGED <<fetched, sourceLock>>
      BY <1>11 DEF ReadManifest
    <2>3. u.pc = "digest" /\ u.found = t.found /\ u.name = t.name /\ u.pin = t.pin /\ u.tree = t.tree
            /\ u.todo = t.todo /\ u.dir = d /\ u.manifest = Reads(t)[d]
      BY <1>1, <2>1 DEF Task
    <2> QED BY <1>1, <1>3, <2>1, <2>2, <2>3 DEF GitReader, GitReads, HoldsSource, HasFetched, FindsOf, Past, Unpacked, Directory
  <1>12. CASE ReadDigest(p)
    <2>1. u = [t EXCEPT !.pc = "snapshot", !.digest = Reads(t)[t.dir]] /\ t.pc = "digest"
            /\ UNCHANGED <<fetched, sourceLock>>
      BY <1>1, <1>12 DEF ReadDigest, Goes
    <2>2. u.pc = "snapshot" /\ u.found = t.found /\ u.name = t.name /\ u.pin = t.pin /\ u.tree = t.tree
            /\ u.todo = t.todo /\ u.dir = t.dir /\ u.manifest = t.manifest /\ u.digest = Reads(t)[t.dir]
      BY <1>1, <2>1 DEF Task
    <2> QED BY <1>1, <1>3, <2>1, <2>2 DEF GitReader, GitReads, HoldsSource, HasFetched, FindsOf, Past, Unpacked, Directory
  <1>13. CASE Reuse(p)
    <2>1. u = Loaded(t) /\ t.pc = "snapshot" /\ UNCHANGED <<fetched, sourceLock>>
      BY <1>1, <1>13 DEF Reuse, Goes
    <2>2. u.pc = "load" /\ u.name = t.name /\ u.pin = t.pin /\ u.tree = t.tree
      BY <1>1, <2>1 DEF Loaded, Task
    <2>3. t.name \in Git => FindsOf(t, t.tree) /\ t.tree \in Tree
      BY <1>1, <1>3, <2>1 DEF GitReader, GitReads, Past, Unpacked, Directory
    <2>4. t.name \in Git => FindsOf(u, t.tree)
      BY <1>1, <2>1, <2>3, FindsWhenLoaded
    <2> QED BY <1>1, <2>1, <2>2, <2>4 DEF GitReader, GitReads, HoldsSource, HasFetched, Past, Unpacked, Directory
  <1>14. CASE Copy(p)
    <2>1. u = [t EXCEPT !.pc = "rename", !.copy = Reads(t)[t.dir]] /\ t.pc = "snapshot"
            /\ UNCHANGED <<fetched, sourceLock>>
      BY <1>1, <1>14 DEF Copy, Goes
    <2>2. u.pc = "rename" /\ u.found = t.found /\ u.name = t.name /\ u.pin = t.pin /\ u.tree = t.tree
            /\ u.todo = t.todo /\ u.dir = t.dir /\ u.manifest = t.manifest /\ u.digest = t.digest
      BY <1>1, <2>1 DEF Task
    <2> QED BY <1>1, <2>1, <2>2 DEF GitReader, GitReads, HoldsSource, HasFetched, FindsOf, Past, Unpacked, Directory
  <1>15. CASE Rename(p)
    <2>1. u = [t EXCEPT !.pc = "snapshot", !.copy = None] /\ t.pc = "rename"
            /\ UNCHANGED <<fetched, sourceLock>>
      BY <1>1, <1>15 DEF Rename, Goes
    <2>2. u.pc = "snapshot" /\ u.found = t.found /\ u.name = t.name /\ u.pin = t.pin /\ u.tree = t.tree
            /\ u.todo = t.todo /\ u.dir = t.dir /\ u.manifest = t.manifest /\ u.digest = t.digest
      BY <1>1, <2>1 DEF Task
    <2> QED BY <1>1, <2>1, <2>2 DEF GitReader, GitReads, HoldsSource, HasFetched, FindsOf, Past, Unpacked, Directory
  <1>16. CASE EndRead(p)
    <2>1. u = [t EXCEPT !.pc = IF t.op = "add" THEN "lock" ELSE "table"] /\ t.pc = "load"
            /\ t.todo = {}
      BY <1>1, <1>16 DEF EndRead, Goes
    <2>2. u.pc \in {"lock", "table"} /\ u.found = t.found /\ u.name = t.name /\ u.pin = t.pin
            /\ u.tree = t.tree /\ u.todo = t.todo
      BY <1>1, <2>1 DEF Task
    <2> QED BY <1>1, <2>1, <2>2 DEF GitReader, GitReads, HoldsSource, HasFetched, FindsOf, Past, Unpacked, Directory
  <1>17. CASE SyncTable(p)
    <2>1. u = [t EXCEPT !.pc = "lock"] /\ t.pc = "table"
      BY <1>1, <1>17 DEF SyncTable, Goes
    <2>2. u.pc = "lock" /\ u.found = t.found /\ u.name = t.name /\ u.pin = t.pin
            /\ u.tree = t.tree /\ u.todo = t.todo
      BY <1>1, <2>1 DEF Task
    <2> QED BY <1>1, <2>1, <2>2 DEF GitReader, GitReads, HoldsSource, HasFetched, FindsOf, Past, Unpacked, Directory
  <1>18. CASE LockConfig(p)
    <2>1. u = [t EXCEPT !.settings = config, !.pc = IF t.op = "add" THEN "change" ELSE "write"]
            /\ t.pc = "lock"
      BY <1>1, <1>18 DEF LockConfig, Goes
    <2>2. u.pc \in {"change", "write"} /\ u.found = t.found /\ u.name = t.name /\ u.pin = t.pin
            /\ u.tree = t.tree /\ u.todo = t.todo
      BY <1>1, <2>1 DEF Task
    <2> QED BY <1>1, <2>1, <2>2 DEF GitReader, GitReads, HoldsSource, HasFetched, FindsOf, Past, Unpacked, Directory
  <1>19. CASE AddTable(p)
    <2>1. u = [t EXCEPT !.pc = "write"] /\ t.pc = "change"
      BY <1>1, <1>19 DEF AddTable, Goes
    <2>2. u.pc = "write" /\ u.found = t.found /\ u.name = t.name /\ u.pin = t.pin
            /\ u.tree = t.tree /\ u.todo = t.todo
      BY <1>1, <2>1 DEF Task
    <2> QED BY <1>1, <2>1, <2>2 DEF GitReader, GitReads, HoldsSource, HasFetched, FindsOf, Past, Unpacked, Directory
  <1> QED BY <1>5, <1>6, <1>7, <1>8, <1>9, <1>10, <1>11, <1>12, <1>13, <1>14, <1>15, <1>16, <1>17,
             <1>18, <1>19 DEF Step

(* A step of p takes no cache from another command, nor changes what that  *)
(* fetched.                                                                *)
LEMMA GitOthers ==
  ASSUME GitInv, NEW p \in Procs, Step(p), NEW q \in Procs, q # p
  PROVE  GitReader(q, task'[q], published, fetched', sourceLock')
  <1> DEFINE t == task[q]
             s == SourceOf[t.name]
  <1>1. /\ t \in Task /\ Sound(t, published, fetched) /\ CatalogTypes
        /\ GitReader(q, t, published, fetched, sourceLock)
        /\ Sound(task[p], published, fetched)
        /\ GitReader(p, task[p], published, fetched, sourceLock)
    BY DEF GitInv, BaseInv, CatalogTypes, TasksSound
  <1>2. \A n \in Git : SourceOf[n] \in Sources
    BY CatalogAssumption DEF Sources
  <1>3. \A r \in Sources : sourceLock[r] = q => sourceLock'[r] = q
    <2> USE DEF worldVars, gitVars, OnlyTask
    <2>1. CASE sourceLock' = sourceLock
      BY <2>1
    <2>2. CASE LockSource(p)
      BY <1>1, <2>2, CatalogAssumption DEF LockSource, CatalogTypes
    <2>3. CASE Releases(p)
      BY <2>3 DEF Releases
    <2>4. sourceLock' = sourceLock \/ LockSource(p) \/ Releases(p)
      <3>1. CASE Add(p) \/ Sync(p) \/ Validate(p) \/ Trust(p)
        BY <3>1, Begun DEF GitInv
      <3>2. CASE \/ Interrupt(p) \/ LockSource(p) \/ Fetch(p) \/ Archive(p) \/ Walk(p)
                 \/ ReadManifest(p) \/ ReadDigest(p) \/ Reuse(p) \/ Copy(p)
        BY <3>2 DEF Interrupt, Fetch, Archive, Walk, ReadManifest, ReadDigest, Reuse, Copy
      <3>3. CASE Rename(p) \/ EndRead(p) \/ SyncTable(p) \/ AddDraft(p) \/ LockConfig(p)
                   \/ AddTable(p) \/ WriteConfig(p)
        BY <3>3 DEF Rename, EndRead, SyncTable, AddDraft, LockConfig, AddTable, WriteConfig
      <3> QED BY <3>1, <3>2, <3>3 DEF Step
    <2> QED BY <2>1, <2>2, <2>3, <2>4
  <1>4. t.pc = "archive" => fetched'[s] = fetched[s]
    <2> SUFFICES ASSUME t.pc = "archive" PROVE fetched'[s] = fetched[s]
      OBVIOUS
    <2>1. t.name \in Git /\ sourceLock[s] = q
      BY <1>1 DEF Sound, Points, GitReader, HoldsSource
    <2>2. CASE Fetch(p)
      <3>1. task[p].pc = "fetch" /\ task[p].name \in Git
        BY <1>1, <2>2 DEF Fetch, Sound, Points
      <3>2. sourceLock[SourceOf[task[p].name]] = p
        BY <1>1, <3>1 DEF GitReader, HoldsSource
      <3>3. SourceOf[task[p].name] # s
        BY <2>1, <3>2
      <3> QED BY <1>1, <1>2, <2>1, <2>2, <3>1, <3>3 DEF Fetch, CatalogTypes
    <2>3. CASE ~Fetch(p)
      <3> USE DEF worldVars, gitVars, OnlyTask
      <3>1. CASE Add(p) \/ Sync(p) \/ Validate(p) \/ Trust(p)
        BY <3>1, Begun DEF GitInv
      <3>2. CASE \/ Interrupt(p) \/ LockSource(p) \/ Archive(p) \/ Walk(p)
                 \/ ReadManifest(p) \/ ReadDigest(p) \/ Reuse(p) \/ Copy(p)
        BY <3>2 DEF Interrupt, LockSource, Archive, Walk, ReadManifest, ReadDigest, Reuse, Copy
      <3>3. CASE Rename(p) \/ EndRead(p) \/ SyncTable(p) \/ AddDraft(p) \/ LockConfig(p)
                   \/ AddTable(p) \/ WriteConfig(p)
        BY <3>3 DEF Rename, EndRead, SyncTable, AddDraft, LockConfig, AddTable, WriteConfig
      <3> QED BY <2>3, <3>1, <3>2, <3>3 DEF Step
    <2> QED BY <2>2, <2>3
  <1>5. GitReader(q, t, published, fetched', sourceLock')
    BY <1>1, <1>2, <1>3, <1>4 DEF GitReader, GitReads, HoldsSource, HasFetched
  <1> QED BY <1>1, <1>5, StepOthers, GitUnchanged

(* Commands change neither working trees nor remote repositories.          *)
LEMMA WorldStays ==
  ASSUME BaseInv, NEW p \in Procs, Step(p)
  PROVE  UNCHANGED worldVars
  <1>1. CASE Add(p) \/ Sync(p) \/ Validate(p) \/ Trust(p)
    BY <1>1, Begun
  <1>2. CASE \/ Interrupt(p) \/ LockSource(p) \/ Fetch(p) \/ Archive(p) \/ Walk(p)
             \/ ReadManifest(p) \/ ReadDigest(p) \/ Reuse(p) \/ Copy(p)
    BY <1>2 DEF Interrupt, LockSource, Fetch, Archive, Walk, ReadManifest, ReadDigest, Reuse, Copy,
       OnlyTask
  <1>3. CASE Rename(p) \/ EndRead(p) \/ SyncTable(p) \/ AddDraft(p) \/ LockConfig(p)
               \/ AddTable(p) \/ WriteConfig(p)
    BY <1>3 DEF Rename, EndRead, SyncTable, AddDraft, LockConfig, AddTable, WriteConfig
  <1> QED BY <1>1, <1>2, <1>3 DEF Step

(* Every step keeps the invariant of Git sources.                          *)
LEMMA GitStep == GitInv /\ [CatalogNext]_catalogVars => GitInv'
  <1> SUFFICES ASSUME GitInv, [CatalogNext]_catalogVars PROVE GitInv'
    OBVIOUS
  <1>1. BaseInv /\ BaseInv' /\ CatalogTypes
    BY BaseStep DEF GitInv, BaseInv
  <1>2. ASSUME NEW p \in Procs, Step(p) PROVE GitInv'
    <2>1. UNCHANGED <<source, published>>
      BY <1>1, <1>2, WorldStays DEF worldVars
    <2>2. \A q \in Procs : GitReader(q, task'[q], published, fetched', sourceLock')
      BY <1>2, GitOwn, GitOthers
    <2> QED BY <1>1, <2>1, <2>2 DEF GitInv
  <1>3. ASSUME NEW s \in Sources, NEW tree \in Trees, Edit(s, tree) PROVE GitInv'
    <2>1. UNCHANGED <<fetched, sourceLock, task>>
      BY <1>3 DEF Edit, gitVars
    <2>2. \A r \in Sources : published[r] \subseteq published'[r] /\ source'[r] \in published'[r]
      BY <1>1, <1>3 DEF Edit, CatalogTypes, GitInv
    <2>3. ASSUME NEW q \in Procs PROVE GitReader(q, task[q], published', fetched, sourceLock)
      <3>1. GitReader(q, task[q], published, fetched, sourceLock) /\ Sound(task[q], published, fetched)
        BY <1>1 DEF GitInv, BaseInv, TasksSound
      <3>2. task[q].name \in Git => SourceOf[task[q].name] \in Sources
        BY CatalogAssumption DEF Sources
      <3>3. task[q].pc = "archive" => task[q].name \in Git
        BY <3>1 DEF Sound, Points
      <3> QED BY <2>2, <3>1, <3>2, <3>3 DEF GitReader, GitReads, HoldsSource, HasFetched
    <2> QED BY <1>1, <2>1, <2>2, <2>3 DEF GitInv
  <1>4. CASE UNCHANGED catalogVars
    BY <1>1, <1>4 DEF GitInv, catalogVars, worldVars, gitVars
  <1> QED BY <1>2, <1>3, <1>4 DEF CatalogNext

-----------------------------------------------------------------------------
(* Bundles appear complete and stay, and what is found or recorded has one. *)
Bundled(t, b) ==
    \A d \in DOMAIN t.found :
        /\ b[t.found[d].ref.digest] = t.found[d].ref.digest
        /\ t.found[d].ref.catalog = t.name

BundleInv == BaseInv /\ BundlesAreTrue /\ \A p \in Procs : Bundled(task[p], bundles)

(* The invariant of bundles holds initially.                               *)
LEMMA BundleInit == CatalogInit => BundleInv
  <1> SUFFICES ASSUME CatalogInit PROVE BundleInv
    OBVIOUS
  <1>1. BaseInv
    BY BaseInit
  <1>2. BundlesAreTrue
    BY NothingFound DEF CatalogInit, BundlesAreTrue
  <1>3. Bundled(NoTask, bundles)
    BY NothingFound DEF Bundled, NoTask
  <1> QED BY <1>1, <1>2, <1>3 DEF CatalogInit, BundleInv

(* A bundle is only ever set to what it is named after, and stays.         *)
LEMMA BundlesStay ==
  ASSUME BundleInv, NEW p \in Procs, Step(p)
  PROVE  \A d \in Contents : bundles'[d] \in {None, d} /\ (bundles[d] = d => bundles'[d] = d)
  <1>1. BundlesAreTrue /\ CatalogTypes
    BY DEF BundleInv, BaseInv
  <1>2. CASE Rename(p)
    <2>1. /\ bundles \in [Contents -> Contents \cup {None}]
          /\ \A d \in Contents : bundles[d] \in {None, d}
          /\ bundles' = [bundles EXCEPT ![task[p].digest] = IF @ = None THEN task[p].copy ELSE @]
          /\ task[p].copy = task[p].digest
      BY <1>1, <1>2 DEF Rename, CatalogTypes, BundlesAreTrue
    <2>2. None \notin Contents
      BY CatalogAssumption
    <2> QED BY <2>1, <2>2
  <1>3. CASE bundles' = bundles
    BY <1>1, <1>3 DEF BundlesAreTrue
  <1>4. CASE Add(p) \/ Sync(p) \/ Validate(p) \/ Trust(p)
    BY <1>3, <1>4, Begun DEF BundleInv
  <1>5. CASE \/ Interrupt(p) \/ LockSource(p) \/ Fetch(p) \/ Archive(p) \/ Walk(p)
             \/ ReadManifest(p) \/ ReadDigest(p) \/ Reuse(p) \/ Copy(p)
    BY <1>3, <1>5 DEF Interrupt, LockSource, Fetch, Archive, Walk, ReadManifest, ReadDigest, Reuse,
       Copy, OnlyTask
  <1>6. CASE EndRead(p) \/ SyncTable(p) \/ AddDraft(p) \/ LockConfig(p) \/ AddTable(p) \/ WriteConfig(p)
    BY <1>3, <1>6 DEF EndRead, SyncTable, AddDraft, LockConfig, AddTable, WriteConfig
  <1> QED BY <1>2, <1>4, <1>5, <1>6 DEF Step

(* Three actions change the table or its index.                            *)
LEMMA TableSteps ==
  ASSUME BaseInv, NEW p \in Procs, Step(p)
  PROVE  \/ SyncTable(p) \/ AddTable(p) \/ AddDraft(p)
         \/ UNCHANGED tableVars
  <1> USE DEF tableVars
  <1>1. CASE Add(p) \/ Sync(p) \/ Validate(p) \/ Trust(p)
    BY <1>1, Begun
  <1>2. CASE \/ Interrupt(p) \/ LockSource(p) \/ Fetch(p) \/ Archive(p) \/ Walk(p)
             \/ ReadManifest(p) \/ ReadDigest(p) \/ Reuse(p) \/ Copy(p)
    BY <1>2 DEF Interrupt, LockSource, Fetch, Archive, Walk, ReadManifest, ReadDigest, Reuse, Copy,
       OnlyTask
  <1>3. CASE Rename(p) \/ EndRead(p) \/ LockConfig(p) \/ WriteConfig(p)
    BY <1>3 DEF Rename, EndRead, LockConfig, WriteConfig
  <1> QED BY <1>1, <1>2, <1>3 DEF Step

(* The references of the table after each of its changes.                  *)
LEMMA TableRefs ==
  ASSUME BaseInv, NEW p \in Procs, SyncTable(p) \/ AddTable(p) \/ AddDraft(p)
  PROVE  DOMAIN rows' = DOMAIN rows \cup {task[p].found[d].ref : d \in DOMAIN task[p].found}
  <1> DEFINE t == task[p]
             new == {t.found[d] : d \in DOMAIN t.found}
  <1>1. DOMAIN rows' = DOMAIN rows \cup {w.ref : w \in new}
    <2>1. \A n : DOMAIN Replaced(n, new) = DOMAIN rows \cup {w.ref : w \in new}
      BY DEF Replaced
    <2>2. CASE SyncTable(p) \/ AddTable(p)
      BY <2>1, <2>2 DEF SyncTable, AddTable, ReplaceCatalog
    <2>3. CASE AddDraft(p)
      BY <2>3 DEF AddDraft
    <2> QED BY <2>2, <2>3
  <1>2. {w.ref : w \in new} = {t.found[d].ref : d \in DOMAIN t.found}
    OBVIOUS
  <1> QED BY <1>1, <1>2

(* Every step keeps the invariant of bundles.                              *)
LEMMA BundleStep == BundleInv /\ [CatalogNext]_catalogVars => BundleInv'
  <1> SUFFICES ASSUME BundleInv, [CatalogNext]_catalogVars PROVE BundleInv'
    OBVIOUS
  <1>1. BaseInv /\ BaseInv' /\ CatalogTypes /\ BundlesAreTrue
    BY BaseStep DEF BundleInv, BaseInv
  <1>2. ASSUME NEW p \in Procs, Step(p) PROVE BundleInv'
    <2>1. \A d \in Contents : bundles'[d] \in {None, d} /\ (bundles[d] = d => bundles'[d] = d)
      BY <1>2, BundlesStay
    <2>2. ASSUME NEW q \in Procs PROVE Bundled(task[q], bundles')
      <3>1. task[q] \in Task /\ Bundled(task[q], bundles)
        BY <1>1 DEF BundleInv, CatalogTypes
      <3>2. \A d \in DOMAIN task[q].found : task[q].found[d].ref.digest \in Contents
        BY <3>1, FoundIs DEF Task, Workflow, Refs
      <3> QED BY <2>1, <3>1, <3>2 DEF Bundled
    <2>3. ASSUME NEW q \in Procs PROVE Bundled(task'[q], bundles')
      <3>1. CASE q # p
        BY <1>1, <1>2, <2>2, <3>1, StepOthers, FellowSame DEF Bundled
      <3>2. CASE q = p
        <4>1. CASE Add(p) \/ Sync(p) \/ Validate(p) \/ Trust(p)
          BY <1>1, <3>2, <4>1, Begun, NothingFound DEF Fresh, Bundled
        <4>2. CASE Interrupt(p) \/ AddDraft(p) \/ WriteConfig(p)
          <5>1. task'[q] = NoTask
            BY <1>1, <3>2, <4>2, Ending
          <5> QED BY <5>1, NothingFound DEF NoTask, Bundled
        <4>3. CASE Continues(p) /\ ~Reuse(p)
          BY <1>1, <2>2, <3>2, <4>3, Continuing DEF Bundled
        <4>4. CASE Reuse(p)
          <5> DEFINE t == task[p]
                     w == [ref |-> [catalog |-> t.name, id |-> IdOf[t.manifest], digest |-> t.digest],
                           manifest |-> t.manifest]
                     f == [d \in DOMAIN t.found \cup {t.dir} |-> IF d = t.dir THEN w ELSE t.found[d]]
          <5>1. t \in Task /\ task' = [task EXCEPT ![p] = Loaded(t)] /\ task \in [Procs -> Task]
                  /\ t.pc = "snapshot" /\ bundles[t.digest] = t.digest /\ Sound(t, published, fetched)
            BY <1>1, <4>4 DEF Reuse, Goes, CatalogTypes, BaseInv, TasksSound
          <5>2. task'[p].found = f /\ task'[p].name = t.name
            BY <5>1 DEF Loaded, Task
          <5>3. t.digest \in Contents
            BY <5>1 DEF Sound, Knows
          <5>4. bundles'[t.digest] = t.digest
            BY <2>1, <5>1, <5>3
          <5>5. w.ref.digest = t.digest /\ w.ref.catalog = t.name
            OBVIOUS
          <5>6. Bundled(t, bundles')
            BY <2>2
          <5> HIDE DEF t, w
          <5>7. DOMAIN f = DOMAIN t.found \cup {t.dir}
                  /\ \A d \in DOMAIN f : f[d] = w \/ (d \in DOMAIN t.found /\ f[d] = t.found[d])
            OBVIOUS
          <5> HIDE DEF f
          <5> QED BY <3>2, <5>2, <5>4, <5>5, <5>6, <5>7 DEF Bundled
        <4> QED BY <1>2, <4>1, <4>2, <4>3, <4>4, StepKinds
      <3> QED BY <3>1, <3>2
    <2>4. ASSUME NEW r \in DOMAIN rows' PROVE bundles'[r.digest] = r.digest
      <3>1. r \in Refs
        BY <1>1 DEF BaseInv, CatalogTypes
      <3>2. CASE r \in DOMAIN rows
        <4>1. bundles[r.digest] = r.digest
          BY <1>1, <3>2 DEF BundlesAreTrue
        <4> QED BY <2>1, <3>1, <4>1 DEF Refs
      <3>3. CASE r \notin DOMAIN rows
        <4>1. PICK d \in DOMAIN task[p].found : r = task[p].found[d].ref
          BY <1>1, <1>2, <3>3, TableSteps, TableRefs DEF tableVars
        <4> QED BY <2>2, <4>1 DEF Bundled
      <3> QED BY <3>2, <3>3
    <2> QED BY <1>1, <2>1, <2>3, <2>4 DEF BundleInv, BundlesAreTrue
  <1>3. CASE UNCHANGED <<task, bundles, rows>>
    BY <1>1, <1>3 DEF BundleInv, BundlesAreTrue
  <1>4. ASSUME NEW s \in Sources, NEW tree \in Trees, Edit(s, tree) PROVE BundleInv'
    BY <1>3, <1>4 DEF Edit, tableVars
  <1>5. CASE UNCHANGED catalogVars
    BY <1>3, <1>5 DEF catalogVars, tableVars
  <1> QED BY <1>2, <1>4, <1>5 DEF CatalogNext

(* A bundle is what it is named after, and every workflow on record has    *)
(* its own (property BundlesAreTrue).                                      *)
THEOREM BundlesInvariant == CatalogSpec => []BundlesAreTrue
  <1>1. BundleInv => BundlesAreTrue
    BY DEF BundleInv
  <1> QED BY <1>1, BundleInit, BundleStep, PTL DEF CatalogSpec

-----------------------------------------------------------------------------
(* What is offered.  Of the table: a workflow of a Git catalogue has the   *)
(* manifest its digest stands for, and the index lists what is active.     *)
GitRows == \A r \in DOMAIN rows : r.catalog \in Git => rows[r].manifest = r.digest
IndexAgrees == \A r \in Refs : index[r] = IF r \in Offered(r.catalog) THEN 1 ELSE 0

KnownInv == ConfigInv /\ GitInv /\ BundleInv

(* The three invariants hold initially.                                    *)
LEMMA KnownInit == CatalogInit => KnownInv
  BY ConfigInit, GitInit, BundleInit DEF KnownInv

(* Every step keeps the three invariants.                                  *)
LEMMA KnownStep == KnownInv /\ [CatalogNext]_catalogVars => KnownInv'
  BY ConfigStepInv, GitStep, BundleStep DEF KnownInv

(* All that a command has found, once it has unpacked a commit.            *)
LEMMA FindsAll ==
  ASSUME KnownInv, NEW p \in Procs, task[p].name \in Git,
         task[p].pc \in {"table", "lock", "change", "write"}
  PROVE  LET t == task[p] IN
         /\ {t.found[d].ref : d \in DOMAIN t.found} = RefsOf(t.name, t.tree)
         /\ \A d \in DOMAIN t.found : t.found[d].manifest = t.found[d].ref.digest
         /\ t.tree \in published[SourceOf[t.name]]
         /\ t.pin # Latest => t.tree = t.pin
  <1> DEFINE t == task[p]
  <1>1. GitReads(t, published)
    BY DEF KnownInv, GitInv, GitReader
  <1>2. /\ t.tree \in published[SourceOf[t.name]]
        /\ t.pin # Latest => t.tree = t.pin
        /\ FindsOf(t, t.tree) /\ t.todo = {}
    BY <1>1 DEF GitReads, Past, FindsOf, Unpacked, Directory
  <1> HIDE DEF t
  <1>3. DOMAIN t.found = Holds(t.tree) /\ \A d \in DOMAIN t.found : t.found[d] = Of(t.name, t.tree[d])
    BY <1>2 DEF FindsOf
  <1>4. \A d \in DOMAIN t.found :
          /\ t.found[d].ref = [catalog |-> t.name, id |-> IdOf[t.tree[d]], digest |-> t.tree[d]]
          /\ t.found[d].manifest = t.found[d].ref.digest
    <2> SUFFICES ASSUME NEW d \in DOMAIN t.found
                 PROVE  /\ t.found[d].ref = [catalog |-> t.name, id |-> IdOf[t.tree[d]], digest |-> t.tree[d]]
                        /\ t.found[d].manifest = t.found[d].ref.digest
      OBVIOUS
    <2>1. t.found[d] = Of(t.name, t.tree[d])
      BY <1>3
    <2> QED BY <2>1 DEF Of
  <1>5. {t.found[d].ref : d \in DOMAIN t.found} = RefsOf(t.name, t.tree)
    <2> DEFINE R(d) == [catalog |-> t.name, id |-> IdOf[t.tree[d]], digest |-> t.tree[d]]
    <2>1. RefsOf(t.name, t.tree) = {R(d) : d \in Holds(t.tree)}
      BY DEF RefsOf
    <2>2. \A d \in Holds(t.tree) : t.found[d].ref = R(d)
      BY <1>3, <1>4
    <2> HIDE DEF R
    <2> QED BY <1>3, <2>1, <2>2
  <1>6. t.todo = {}
    BY <1>2
  <1> QED BY ONLY <1>2, <1>4, <1>5, <1>6 DEF t

(* After replace_catalog the catalogue of p offers what p found, for a Git *)
(* catalogue its commit, and every other catalogue what it did.            *)
LEMMA AfterReplace ==
  ASSUME KnownInv, GitRows, IndexAgrees, NEW p \in Procs, SyncTable(p) \/ AddTable(p)
  PROVE  LET t == task[p] IN
         /\ \A n \in Names : n # t.name => Offered(n)' = Offered(n)
         /\ \A n \in Git : n = t.name => Offered(n)' = RefsOf(n, t.tree)
         /\ GitRows' /\ IndexAgrees'
  <1> DEFINE t == task[p]
             new == {t.found[d] : d \in DOMAIN t.found}
             fresh == {w.ref : w \in new}
  <1>1. /\ t \in Task /\ CatalogTypes /\ CatalogTypes' /\ ReplaceCatalog(t)
        /\ t.pc \in {"table", "change"} /\ Bundled(t, bundles)
    <2>1. BaseInv /\ BaseInv'
      BY BaseStep DEF KnownInv, ConfigInv, CatalogNext, Step
    <2> QED BY <2>1 DEF KnownInv, BundleInv, BaseInv, CatalogTypes, SyncTable, AddTable
  <1>2. rows' = Replaced(t.name, new) /\ index' = Reindexed(t.name, new)
    BY <1>1 DEF ReplaceCatalog
  <1>3. \A w \in new : w.ref.catalog = t.name
    BY <1>1 DEF Bundled
  <1>4. fresh = {t.found[d].ref : d \in DOMAIN t.found}
    OBVIOUS
  <1>5. DOMAIN rows \subseteq Refs /\ \A r \in DOMAIN rows : rows[r] \in Rows
    BY <1>1 DEF CatalogTypes
  <1>6. \A r \in fresh : r.catalog = t.name
    BY <1>3
  <1>7. t.name \in Git => /\ fresh = RefsOf(t.name, t.tree)
                          /\ \A w \in new : w.manifest = w.ref.digest
    BY <1>1, <1>4, FindsAll
  <1> HIDE DEF t, new
  <1>8. /\ DOMAIN rows' = DOMAIN rows \cup fresh
        /\ \A r \in fresh : rows'[r] = [manifest |-> (CHOOSE w \in new : w.ref = r).manifest, active |-> TRUE]
        /\ \A r \in DOMAIN rows \ fresh :
             rows'[r] = IF r.catalog = t.name THEN [rows[r] EXCEPT !.active = FALSE] ELSE rows[r]
    BY <1>2 DEF Replaced
  <1>9. ASSUME NEW r \in fresh PROVE rows'[r].active = TRUE
    <2>1. rows'[r] = [manifest |-> (CHOOSE w \in new : w.ref = r).manifest, active |-> TRUE]
      BY <1>8
    <2> QED BY <2>1
  <1>10. \A r \in DOMAIN rows \ fresh : rows'[r].manifest = rows[r].manifest
    BY <1>5, <1>8 DEF Rows
  <1>11. \A r \in DOMAIN rows \ fresh : r.catalog = t.name => rows'[r].active = FALSE
    BY <1>5, <1>8 DEF Rows
  <1> HIDE DEF fresh
  <1>12. ASSUME NEW n, n # t.name PROVE Offered(n)' = Offered(n)
    BY <1>6, <1>8, <1>12 DEF Offered
  <1>13. ASSUME NEW n, n = t.name PROVE Offered(n)' = fresh
    <2>1. \A r \in fresh : r \in DOMAIN rows' /\ r.catalog = n /\ rows'[r].active
      BY <1>6, <1>8, <1>9, <1>13
    <2>2. \A r \in DOMAIN rows' : r.catalog = n /\ r \notin fresh => ~rows'[r].active
      BY <1>8, <1>11, <1>13
    <2> QED BY <2>1, <2>2 DEF Offered
  <1>14. GitRows'
    <2> SUFFICES ASSUME NEW r \in DOMAIN rows', r.catalog \in Git PROVE rows'[r].manifest = r.digest
      BY DEF GitRows
    <2>1. CASE r \in fresh
      <3>1. t.name \in Git
        BY <1>6, <2>1
      <3>2. PICK w \in new : w = (CHOOSE v \in new : v.ref = r) /\ w.ref = r
        BY <2>1 DEF fresh
      <3>3. w.manifest = r.digest
        BY <1>7, <3>1, <3>2
      <3> QED BY <1>8, <2>1, <3>2, <3>3
    <2>2. CASE r \notin fresh
      BY <1>8, <1>10, <2>2 DEF GitRows
    <2> QED BY <2>1, <2>2
  <1>15. ASSUME NEW r \in Refs
         PROVE  index'[r] = IF r \in Offered(r.catalog)' THEN 1 ELSE 0
    <2>0. index'[r] = (IF r \in DOMAIN rows /\ r.catalog = t.name THEN 0 ELSE index[r])
                      + IF \E w \in new : w.ref = r THEN 1 ELSE 0
      BY <1>2 DEF Reindexed
    <2>1. (\E w \in new : w.ref = r) <=> r \in fresh
      BY DEF fresh
    <2>2. CASE r.catalog = t.name
      <3>1. r \notin DOMAIN rows => index[r] = 0
        BY DEF IndexAgrees, Offered
      <3>2. index'[r] = IF r \in fresh THEN 1 ELSE 0
        BY <2>0, <2>1, <2>2, <3>1
      <3> QED BY <1>13, <2>2, <3>2
    <2>3. CASE r.catalog # t.name
      <3>1. r \notin fresh
        BY <1>6, <2>3
      <3>2. index[r] \in Nat
        BY <1>1 DEF CatalogTypes
      <3>3. index'[r] = index[r]
        BY <2>0, <2>1, <2>3, <3>1, <3>2
      <3>4. Offered(r.catalog)' = Offered(r.catalog)
        BY <1>12, <2>3
      <3> QED BY <3>3, <3>4 DEF IndexAgrees
    <2> QED BY <2>2, <2>3
  <1> QED BY <1>7, <1>12, <1>13, <1>14, <1>15 DEF t, IndexAgrees

(* Recording a draft changes nothing that is offered.                      *)
LEMMA AfterDraft ==
  ASSUME KnownInv, GitRows, IndexAgrees, NEW p \in Procs, AddDraft(p)
  PROVE  /\ \A n \in Names : Offered(n)' = Offered(n)
         /\ GitRows' /\ IndexAgrees'
  <1> DEFINE t == task[p]
             new == {t.found[d] : d \in DOMAIN t.found}
             fresh == {w.ref : w \in new}
  <1>1. /\ t \in Task /\ Bundled(t, bundles) /\ Sound(t, published, fetched)
        /\ t.op = "validate" /\ t.pc = "table" /\ UNCHANGED index
    BY DEF KnownInv, BundleInv, BaseInv, TasksSound, CatalogTypes, AddDraft
  <1>2. t.name = Draft /\ Draft \notin Git
    BY <1>1, CatalogAssumption DEF Sound, Named
  <1>3. \A r \in fresh : r.catalog = Draft
    BY <1>1, <1>2 DEF Bundled
  <1>4. /\ DOMAIN rows' = DOMAIN rows \cup fresh
        /\ \A r \in DOMAIN rows : rows'[r] = rows[r]
        /\ \A r \in fresh \ DOMAIN rows :
             rows'[r] = [manifest |-> (CHOOSE w \in new : w.ref = r).manifest, active |-> FALSE]
    BY DEF AddDraft
  <1> HIDE DEF fresh, new, t
  <1>5. ASSUME NEW r \in fresh \ DOMAIN rows PROVE ~rows'[r].active
    <2>1. rows'[r] = [manifest |-> (CHOOSE w \in new : w.ref = r).manifest, active |-> FALSE]
      BY <1>4
    <2> QED BY <2>1
  <1>6. \A n : Offered(n)' = Offered(n)
    BY <1>4, <1>5 DEF Offered
  <1>7. GitRows'
    BY <1>2, <1>3, <1>4 DEF GitRows
  <1> QED BY <1>1, <1>6, <1>7 DEF IndexAgrees

(* A step that is no change of the table leaves what is offered.           *)
LEMMA OfferSteps ==
  ASSUME KnownInv, GitRows, IndexAgrees, NEW p \in Procs, Step(p)
  PROVE  /\ GitRows' /\ IndexAgrees'
         /\ \A n \in Names : \/ Offered(n)' = Offered(n)
                             \/ n = task[p].name /\ (SyncTable(p) \/ AddTable(p))
  <1>1. CASE SyncTable(p) \/ AddTable(p)
    BY <1>1, AfterReplace
  <1>2. CASE AddDraft(p)
    BY <1>2, AfterDraft
  <1>3. CASE UNCHANGED tableVars
    BY <1>3 DEF tableVars, GitRows, IndexAgrees, Offered
  <1> QED BY <1>1, <1>2, <1>3, TableSteps DEF KnownInv, ConfigInv

(* A command that has replaced the table and will record its revision.     *)
Placed(t) ==
    t.name \in Git =>
        /\ t.pc = "write" /\ t.op = "add" => Offered(t.name) = RefsOf(t.name, t.tree)
        /\ t.pc \in {"lock", "write"} /\ t.op = "sync" /\ t.alone =>
             Offered(t.name) = RefsOf(t.name, t.tree)

AreAlone ==
    \A p \in Procs : task[p].alone =>
        task[p].name \in Names /\ \A q \in Procs \ {p} : task[q].name # task[p].name
SettledAlone == \A n \in Names : settled[n] => \A p \in Procs : task[p].name # n

OfferInv ==
    /\ KnownInv /\ GitRows /\ IndexAgrees
    /\ OffersOneCommit /\ PinnedInForce /\ SettledAgrees
    /\ \A p \in Procs : Placed(task[p])
    /\ AreAlone /\ SettledAlone

(* A command without a catalogue has the name of none.                     *)
LEMMA NamesAreNot == None \notin Names /\ Git \subseteq Names
  BY CatalogAssumption

(* The invariant of offers holds initially.                                *)
LEMMA OfferInit == CatalogInit => OfferInv
  <1> SUFFICES ASSUME CatalogInit PROVE OfferInv
    OBVIOUS
  <1>1. KnownInv
    BY KnownInit
  <1>2. \A n : Offered(n) = {}
    BY NothingFound DEF CatalogInit, Offered
  <1>3. GitRows /\ IndexAgrees
    BY <1>2, NothingFound DEF CatalogInit, GitRows, IndexAgrees
  <1>4. OffersOneCommit
    BY <1>2, NamesAreNot DEF CatalogInit, OffersOneCommit
  <1>5. PinnedInForce /\ SettledAgrees /\ SettledAlone
    BY NamesAreNot DEF CatalogInit, PinnedInForce, SettledAgrees, SettledAlone
  <1>6. AreAlone /\ \A p \in Procs : Placed(task[p])
    BY NamesAreNot DEF CatalogInit, AreAlone, Placed, NoTask
  <1> QED BY <1>1, <1>3, <1>4, <1>5, <1>6 DEF OfferInv

(* Who is alone, and what is settled.                                      *)
LEMMA AloneOwn ==
  ASSUME BaseInv, NEW p \in Procs, Step(p)
  PROVE  \/ task[p].pc = "idle" /\ task[p].name = None
         \/ task'[p] = NoTask
         \/ task'[p].name = task[p].name /\ task'[p].alone = task[p].alone
  <1>1. CatalogTypes /\ Points(task[p])
    BY DEF BaseInv, TasksSound, Sound
  <1>2. CASE Add(p) \/ Sync(p) \/ Validate(p) \/ Trust(p)
    <2>1. task[p].pc = "idle"
      BY <1>2 DEF Add, Sync, Validate, Trust, Begin
    <2> QED BY <1>1, <2>1 DEF Points, NoTask
  <1>3. CASE Interrupt(p) \/ AddDraft(p) \/ WriteConfig(p)
    BY <1>1, <1>3, Ending
  <1>4. CASE Continues(p)
    BY <1>1, <1>4, Continuing
  <1> QED BY <1>2, <1>3, <1>4, StepKinds

(* A beginning keeps the account of who is alone and what is settled.      *)
LEMMA AloneBegin ==
  ASSUME BaseInv, AreAlone, SettledAlone, NEW p \in Procs, NEW t \in Task, Begin(p, t),
         t.name \in Names \cup {None}
  PROVE  AreAlone' /\ SettledAlone'
  <1> DEFINE fresh == t.name # None /\ \A r \in Procs : task[r].name # t.name
             old(q) == task[q].alone /\ task[q].name # t.name
  <1>1. CatalogTypes
    BY DEF BaseInv
  <1>2. /\ task' = [q \in Procs |-> IF q = p THEN [t EXCEPT !.alone = fresh]
                                    ELSE [task[q] EXCEPT !.alone = old(q)]]
        /\ settled' = [n \in Names |-> settled[n] /\ n # t.name]
        /\ task[p].pc = "idle"
    BY DEF Begin
  <1>3. task'[p].name = t.name /\ (task'[p].alone => fresh)
    BY <1>2 DEF Task
  <1>4. ASSUME NEW q \in Procs \ {p} PROVE task'[q].name = task[q].name /\ (task'[q].alone => old(q))
    <2>1. task[q] \in Task
      BY <1>1 DEF CatalogTypes
    <2> QED BY <1>2, <2>1 DEF Task
  <1> HIDE DEF fresh, old
  <1>5. AreAlone'
    BY <1>3, <1>4 DEF AreAlone, fresh, old
  <1>6. SettledAlone'
    <2> SUFFICES ASSUME NEW n \in Names, settled'[n], NEW q \in Procs
                 PROVE  task'[q].name # n
      BY DEF SettledAlone
    <2>1. settled[n] /\ n # t.name
      BY <1>2
    <2>2. task[q].name # n
      BY <2>1 DEF SettledAlone
    <2>3. CASE q = p
      BY <1>3, <2>1, <2>3
    <2>4. CASE q # p
      BY <1>4, <2>2, <2>4
    <2> QED BY <2>3, <2>4
  <1> QED BY <1>5, <1>6

(* When commands go on or end, settled changes only as one is written.     *)
LEMMA SettledSteps ==
  ASSUME BaseInv, NEW p \in Procs, Step(p), ~(Add(p) \/ Sync(p) \/ Validate(p) \/ Trust(p))
  PROVE  /\ ~WriteConfig(p) => settled' = settled
         /\ task' = [task EXCEPT ![p] = task'[p]]
  <1> USE DEF OnlyTask
  <1>0. task \in [Procs -> Task]
    BY DEF BaseInv, CatalogTypes
  <1>1. CASE \/ Interrupt(p) \/ LockSource(p) \/ Fetch(p) \/ Archive(p) \/ Walk(p)
             \/ ReadManifest(p) \/ ReadDigest(p) \/ Reuse(p) \/ Copy(p)
    <2>1. settled' = settled
      BY <1>1 DEF Interrupt, LockSource, Fetch, Archive, Walk, ReadManifest, ReadDigest, Reuse, Copy
    <2>2. \E t : Goes(p, t)
      BY <1>1 DEF Interrupt, LockSource, Fetch, Archive, Walk, ReadManifest, ReadDigest, Reuse, Copy
    <2> QED BY <1>0, <2>1, <2>2 DEF Goes
  <1>2. CASE Rename(p) \/ EndRead(p) \/ SyncTable(p) \/ AddDraft(p) \/ LockConfig(p)
               \/ AddTable(p) \/ WriteConfig(p)
    <2>1. ~WriteConfig(p) => settled' = settled
      BY <1>2 DEF Rename, EndRead, SyncTable, AddDraft, LockConfig, AddTable, WriteConfig
    <2>2. \E t : Goes(p, t)
      BY <1>2 DEF Rename, EndRead, SyncTable, AddDraft, LockConfig, AddTable, WriteConfig
    <2> QED BY <1>0, <2>1, <2>2 DEF Goes
  <1> QED BY <1>1, <1>2 DEF Step

(* Every step keeps the account of who is alone and what is settled.       *)
LEMMA AloneStep ==
  ASSUME BaseInv, AreAlone, SettledAlone, NEW p \in Procs, Step(p)
  PROVE  AreAlone' /\ SettledAlone'
  <1>0. CatalogTypes /\ TasksSound /\ task \in [Procs -> Task]
    BY DEF BaseInv, CatalogTypes
  <1>1. CASE Add(p) \/ Sync(p) \/ Validate(p) \/ Trust(p)
    <2>1. PICK t \in Task : Fresh(t) /\ Begin(p, t)
      BY <1>1, Beginning
    <2>2. t.name \in Names \cup {None}
      BY <2>1 DEF Fresh, Sound, Points, Named, Reading
    <2> QED BY <2>1, <2>2, AloneBegin
  <1>2. CASE ~(Add(p) \/ Sync(p) \/ Validate(p) \/ Trust(p))
    <2>1. /\ \A q \in Procs \ {p} : task'[q] = task[q]
          /\ ~WriteConfig(p) => settled' = settled
      BY <1>0, <1>2, SettledSteps
    <2>2. \/ task'[p].name = None /\ task'[p].alone = FALSE
          \/ task'[p].name = task[p].name /\ task'[p].alone = task[p].alone
      <3>1. NoTask.name = None /\ NoTask.alone = FALSE
        BY DEF NoTask
      <3>2. task'[p] = NoTask \/ Continues(p)
        BY <1>0, <1>2, StepKinds, Ending
      <3> QED BY <1>0, <3>1, <3>2, Continuing
    <2>3. AreAlone'
      BY <2>1, <2>2, NamesAreNot DEF AreAlone
    <2>4. SettledAlone'
      <3>1. CASE WriteConfig(p)
        <4>1. settled' = [n \in Names |-> settled[n] \/ (n = task[p].name /\ task[p].alone)]
          BY <3>1 DEF WriteConfig
        <4>2. task'[p].name = None
          BY <1>0, <3>1, Ending DEF NoTask
        <4> SUFFICES ASSUME NEW n \in Names, settled'[n], NEW q \in Procs PROVE task'[q].name # n
          BY DEF SettledAlone
        <4>3. settled[n] \/ (n = task[p].name /\ task[p].alone)
          BY <4>1
        <4>4. CASE q = p
          BY <4>2, <4>4, NamesAreNot
        <4>5. CASE q # p
          <5>1. task'[q] = task[q]
            BY <2>1, <4>5
          <5>2. task[q].name # n
            BY <4>3, <4>5 DEF SettledAlone, AreAlone
          <5> QED BY <5>1, <5>2
        <4> QED BY <4>4, <4>5
      <3>2. CASE ~WriteConfig(p)
        BY <2>1, <2>2, <3>2, NamesAreNot DEF SettledAlone
      <3> QED BY <3>1, <3>2
    <2> QED BY <2>3, <2>4
  <1> QED BY <1>1, <1>2

(* A command whose table is replaced keeps it until its revision is        *)
(* recorded: nobody else replaces the table of its catalogue meanwhile.    *)
PlacedNow(t, offered) ==
    \/ ~(t.pc = "write" /\ t.op = "add") /\ ~(t.pc \in {"lock", "write"} /\ t.op = "sync" /\ t.alone)
    \/ offered = RefsOf(t.name, t.tree)

(* Placed in terms of the name of the task, before and after a step.       *)
LEMMA PlacedIs ==
  ASSUME NEW q \in Procs
  PROVE  /\ Placed(task[q]) <=> (task[q].name \in Git => PlacedNow(task[q], Offered(task[q].name)))
         /\ \A n : n = task'[q].name =>
              (Placed(task[q])' <=> (n \in Git => PlacedNow(task'[q], Offered(n)')))
  BY DEF Placed, PlacedNow, Offered

(* A step of p leaves what another has placed.                             *)
LEMMA PlacedOthers ==
  ASSUME OfferInv, NEW p \in Procs, Step(p), NEW q \in Procs, q # p
  PROVE  Placed(task[q])'
  <1>0. /\ KnownInv /\ ConfigInv /\ BaseInv /\ CatalogTypes /\ GitRows /\ IndexAgrees
        /\ AreAlone /\ Placed(task[q]) /\ task[q] \in Task
        /\ Configured(task[p]) /\ Configured(task[q])
        /\ HoldersKnow
    BY DEF OfferInv, KnownInv, ConfigInv, BaseInv, CatalogTypes
  <1>1. /\ task'[q].pc = task[q].pc /\ task'[q].op = task[q].op /\ task'[q].name = task[q].name
        /\ task'[q].tree = task[q].tree
    BY <1>0, StepOthers, FellowSame
  <1>2. task'[q].alone => task[q].alone
    <2>1. CASE Add(p) \/ Sync(p) \/ Validate(p) \/ Trust(p)
      <3>1. PICK t : Begin(p, t)
        BY <1>0, <2>1, Beginning
      <3>2. task'[q] = [task[q] EXCEPT !.alone = task[q].alone /\ task[q].name # t.name]
        BY <3>1 DEF Begin
      <3> QED BY <1>0, <3>2 DEF Task
    <2>2. CASE ~(Add(p) \/ Sync(p) \/ Validate(p) \/ Trust(p))
      BY <1>0, <2>2, SettledSteps DEF CatalogTypes
    <2> QED BY <2>1, <2>2
  <1> SUFFICES ASSUME NEW n, n = task'[q].name, n \in Git PROVE PlacedNow(task'[q], Offered(n)')
    BY PlacedIs
  <1>3. PlacedNow(task[q], Offered(n))
    BY <1>0, <1>1, PlacedIs
  <1>4. \/ Offered(n)' = Offered(n)
        \/ n = task[p].name /\ (SyncTable(p) \/ AddTable(p))
    BY <1>0, OfferSteps, NamesAreNot
  <1>5. CASE Offered(n)' = Offered(n)
    BY <1>1, <1>2, <1>3, <1>5 DEF PlacedNow
  <1>6. CASE n = task[p].name /\ SyncTable(p)
    <2>1. task[p].pc # "idle" /\ task[p].op = "sync"
      BY <1>6 DEF SyncTable
    <2>2. ~(task[q].pc = "write" /\ task[q].op = "add")
      BY <1>0, <1>1, <1>6, <2>1 DEF Configured, Registered
    <2>3. ~task[q].alone
      BY <1>0, <1>1, <1>6 DEF AreAlone
    <2> QED BY <1>1, <1>2, <2>2, <2>3 DEF PlacedNow
  <1>7. CASE n = task[p].name /\ AddTable(p)
    <2>1. ~(task[q].pc = "write" /\ task[q].op = "add")
      BY <1>0, <1>7 DEF AddTable, HoldersKnow
    <2>2. ~task[q].alone
      BY <1>0, <1>1, <1>7 DEF AreAlone
    <2> QED BY <1>1, <1>2, <2>1, <2>2 DEF PlacedNow
  <1> QED BY <1>4, <1>5, <1>6, <1>7

(* A step of p keeps what p has placed, or places it.                      *)
LEMMA PlacedOwn ==
  ASSUME OfferInv, NEW p \in Procs, Step(p)
  PROVE  Placed(task[p])'
  <1>0. /\ KnownInv /\ BaseInv /\ CatalogTypes /\ GitRows /\ IndexAgrees
        /\ Placed(task[p]) /\ task[p] \in Task /\ task \in [Procs -> Task]
    BY DEF OfferInv, KnownInv, ConfigInv, BaseInv, CatalogTypes
  <1> SUFFICES ASSUME NEW n, n = task'[p].name, n \in Git, NEW u, u = task'[p]
               PROVE  PlacedNow(u, Offered(n)')
    BY PlacedIs
  <1> DEFINE t == task[p]
  <1>1. CASE SyncTable(p) \/ AddTable(p)
    <2>1. n = t.name
      BY <1>0, <1>1, Continuing DEF Continues
    <2>2. Offered(n)' = RefsOf(n, t.tree)
      BY <1>0, <1>1, <2>1, AfterReplace
    <2>3. u.tree = t.tree
      <3>1. CASE SyncTable(p)
        BY <1>0, <3>1 DEF SyncTable, Goes, Task
      <3>2. CASE AddTable(p)
        BY <1>0, <3>2 DEF AddTable, Goes, Task
      <3> QED BY <1>1, <3>1, <3>2
    <2> QED BY <2>1, <2>2, <2>3 DEF PlacedNow
  <1>2. CASE LockConfig(p)
    <2>1. u = [t EXCEPT !.settings = config, !.pc = IF t.op = "add" THEN "change" ELSE "write"]
            /\ t.pc = "lock"
      BY <1>0, <1>2 DEF LockConfig, Goes
    <2>2. u.op = t.op /\ u.name = t.name /\ u.tree = t.tree /\ u.alone = t.alone
            /\ u.pc = IF t.op = "add" THEN "change" ELSE "write"
      BY <1>0, <2>1 DEF Task
    <2>3. Offered(n)' = Offered(n)
      BY <1>2, <2>2 DEF LockConfig, tableVars, Offered
    <2>4. PlacedNow(t, Offered(n))
      BY <1>0, <2>2, PlacedIs
    <2> HIDE DEF t
    <2> QED BY <2>1, <2>2, <2>3, <2>4 DEF PlacedNow
  <1>3. CASE Add(p) \/ Sync(p) \/ Validate(p) \/ Trust(p)
    <2>1. Fresh(u)
      BY <1>0, <1>3, Begun
    <2> QED BY <2>1 DEF Fresh, PlacedNow
  <1>4. CASE Interrupt(p) \/ AddDraft(p) \/ WriteConfig(p)
    <2>1. u.name = None
      BY <1>0, <1>4, Ending DEF NoTask
    <2> QED BY <2>1, NamesAreNot
  <1>5. CASE LockSource(p) \/ Fetch(p) \/ Archive(p) \/ Walk(p) \/ ReadManifest(p) \/ ReadDigest(p)
               \/ Reuse(p) \/ Copy(p) \/ Rename(p) \/ EndRead(p)
    <2>1. ASSUME NEW pc \in {"fetch", "archive", "load", "digest", "snapshot", "rename"}, u.pc = pc
          PROVE  PlacedNow(u, Offered(n)')
      BY <2>1 DEF PlacedNow
    <2>2. CASE LockSource(p)
      BY <1>0, <2>1, <2>2 DEF LockSource, Goes, Task
    <2>3. CASE Fetch(p)
      BY <1>0, <2>1, <2>3 DEF Fetch, Goes, Task
    <2>4. CASE Archive(p)
      BY <1>0, <2>1, <2>4 DEF Archive, Goes, Task
    <2>5. CASE Walk(p)
      BY <1>0, <2>1, <2>5 DEF Walk, Goes, Task
    <2>6. CASE ReadManifest(p)
      BY <1>0, <2>1, <2>6 DEF ReadManifest, Goes, Task
    <2>7. CASE ReadDigest(p)
      BY <1>0, <2>1, <2>7 DEF ReadDigest, Goes, Task
    <2>8. CASE Reuse(p)
      BY <1>0, <2>1, <2>8 DEF Reuse, Loaded, Goes, Task
    <2>9. CASE Copy(p)
      BY <1>0, <2>1, <2>9 DEF Copy, Goes, Task
    <2>10. CASE Rename(p)
      BY <1>0, <2>1, <2>10 DEF Rename, Goes, Task
    <2>11. CASE EndRead(p)
      <3>1. u = [t EXCEPT !.pc = IF t.op = "add" THEN "lock" ELSE "table"]
        BY <1>0, <2>11 DEF EndRead, Goes
      <3>2. u.op = t.op /\ u.pc = IF t.op = "add" THEN "lock" ELSE "table"
        BY <1>0, <3>1 DEF Task
      <3> QED BY <3>2 DEF PlacedNow
    <2> QED BY <1>5, <2>2, <2>3, <2>4, <2>5, <2>6, <2>7, <2>8, <2>9, <2>10, <2>11
  <1> QED BY <1>1, <1>2, <1>3, <1>4, <1>5 DEF Step

-----------------------------------------------------------------------------
(* With distinct names, EntryOf yields the one entry of a name.            *)
LEMMA EntryUnique ==
  ASSUME NEW s, Distinct(s.catalogs), NEW i \in DOMAIN s.catalogs
  PROVE  Registered(s.catalogs[i].name, s) /\ EntryOf(s.catalogs[i].name, s) = s.catalogs[i]
  <1> DEFINE n == s.catalogs[i].name
             j == CHOOSE j \in DOMAIN s.catalogs : s.catalogs[j].name = n
  <1>1. j \in DOMAIN s.catalogs /\ s.catalogs[j].name = n
    OBVIOUS
  <1>2. j = i
    BY <1>1 DEF Distinct
  <1> QED BY <1>2 DEF Registered, EntryOf

(* What the table offers of Git catalogues stays one commit.               *)
LEMMA OneCommitStep ==
  ASSUME OfferInv, NEW p \in Procs, Step(p)
  PROVE  OffersOneCommit'
  <1>0. /\ KnownInv /\ BaseInv /\ CatalogTypes /\ GitRows /\ IndexAgrees /\ OffersOneCommit
        /\ IndexAgrees' /\ published' = published
    BY OfferSteps, WorldStays DEF OfferInv, KnownInv, ConfigInv, BaseInv, worldVars
  <1> SUFFICES ASSUME NEW n \in Git
               PROVE  /\ \/ Offered(n)' = {}
                         \/ \E tree \in published[SourceOf[n]] : Offered(n)' = RefsOf(n, tree)
                      /\ \A r \in Refs : r.catalog = n => index'[r] = IF r \in Offered(n)' THEN 1 ELSE 0
    BY <1>0 DEF OffersOneCommit
  <1>1. \A r \in Refs : r.catalog = n => index'[r] = IF r \in Offered(n)' THEN 1 ELSE 0
    BY <1>0 DEF IndexAgrees
  <1>2. CASE Offered(n)' = Offered(n)
    BY <1>0, <1>1, <1>2 DEF OffersOneCommit
  <1>3. CASE n = task[p].name /\ (SyncTable(p) \/ AddTable(p))
    <2>1. Offered(n)' = RefsOf(n, task[p].tree)
      BY <1>0, <1>3, AfterReplace
    <2>2. task[p].pc \in {"table", "change"}
      BY <1>3 DEF SyncTable, AddTable
    <2>3. task[p].tree \in published[SourceOf[n]]
      BY <1>0, <1>3, <2>2, FindsAll
    <2> QED BY <1>1, <2>1, <2>3
  <1> QED BY <1>0, <1>2, <1>3, OfferSteps, NamesAreNot

(* What a task says of a registered catalogue with the name of its sync.   *)
LEMMA SyncPin ==
  ASSUME ConfigInv, NEW p \in Procs, task[p].pc # "idle", task[p].op = "sync",
         NEW i \in DOMAIN config.catalogs, config.catalogs[i].name = task[p].name
  PROVE  config.catalogs[i].pin = task[p].pin
  BY DEF ConfigInv, Configured, Distinct

(* Every step of a command keeps pinned catalogues at their commit.        *)
LEMMA PinnedStep ==
  ASSUME OfferInv, NEW p \in Procs, Step(p)
  PROVE  PinnedInForce'
  <1>0. /\ KnownInv /\ ConfigInv /\ BaseInv /\ CatalogTypes /\ GitRows /\ IndexAgrees /\ PinnedInForce
        /\ EntriesSound /\ Placed(task[p]) /\ HoldersKnow
    BY DEF OfferInv, KnownInv, ConfigInv, BaseInv
  <1>1. \A i \in DOMAIN config.catalogs : config.catalogs[i] \in Entry
    BY <1>0, LenProperties DEF CatalogTypes, Settings
  <1>2. CASE WriteConfig(p)
    <2> DEFINE t == task[p]
               old == config.catalogs
               new == config'.catalogs
    <2>1. /\ t.pc = "write" /\ t.op \in {"add", "sync", "trust", "revoke"} /\ t \in Task
          /\ Sound(t, published, fetched)
          /\ DOMAIN old = 1..Len(old) /\ Len(old) \in Nat /\ DOMAIN new = 1..Len(new)
      BY <1>0, <1>2, Written
    <2>2. \A n : Offered(n)' = Offered(n)
      BY <1>2 DEF WriteConfig, tableVars, Offered
    <2>3. t.name \in Git /\ t.pin # Latest => t.tree = t.pin
      BY <1>0, <2>1, FindsAll
    <2> SUFFICES ASSUME NEW i \in DOMAIN new, NEW c, c = new[i], c.pin # Latest
                 PROVE  c.resolved = c.pin /\ Offered(c.name) = RefsOf(c.name, c.pin)
      BY <2>2 DEF PinnedInForce
    <2>4. ASSUME i \in DOMAIN old, c = old[i]
          PROVE  c.resolved = c.pin /\ Offered(c.name) = RefsOf(c.name, c.pin)
      BY <1>0, <2>4 DEF PinnedInForce
    <2>5. CASE t.op = "add"
      <3>1. CASE i \in DOMAIN old
        <4>1. c = old[i]
          BY <1>0, <1>2, <2>5, <3>1, Written
        <4> QED BY <2>4, <3>1, <4>1
      <3>2. CASE i \notin DOMAIN old
        <4>1. Len(new) = Len(old) + 1
                /\ new[Len(old) + 1] = [name |-> t.name, pin |-> t.pin, resolved |-> t.tree]
          BY <1>0, <1>2, <2>5, Written
        <4>2. i = Len(old) + 1
          <5> HIDE DEF new, old
          <5> QED BY <2>1, <3>2, <4>1
        <4>3. c.name = t.name /\ c.pin = t.pin /\ c.resolved = t.tree
          BY <4>1, <4>2
        <4>4. t.name \in Git
          BY <2>1, <2>5, <4>3 DEF Sound, Named
        <4>5. Offered(t.name) = RefsOf(t.name, t.tree)
          BY <1>0, <2>1, <2>5, <4>4 DEF Placed
        <4> QED BY <2>3, <4>3, <4>4, <4>5
      <3> QED BY <3>1, <3>2
    <2>6. CASE t.op = "sync"
      <3>1. /\ i \in DOMAIN old
            /\ c = IF old[i].name = t.name THEN [old[i] EXCEPT !.resolved = t.tree] ELSE old[i]
        BY <1>0, <1>2, <2>6, Written
      <3>2. CASE old[i].name # t.name
        BY <2>4, <3>1, <3>2
      <3>3. CASE old[i].name = t.name
        <4>1. old[i].pin = t.pin
          BY <1>0, <2>1, <2>6, <3>1, <3>3, SyncPin
        <4>2. c.name = t.name /\ c.pin = t.pin /\ c.resolved = t.tree
          BY <1>1, <3>1, <3>3, <4>1 DEF Entry
        <4>3. t.name \in Git
          BY <2>1, <2>6, <4>2 DEF Sound, Named
        <4>4. Offered(t.name) = RefsOf(t.name, t.pin)
          BY <1>0, <3>1, <3>3, <4>1, <4>2 DEF PinnedInForce
        <4> QED BY <2>3, <4>2, <4>3, <4>4
      <3> QED BY <3>2, <3>3
    <2>7. CASE t.op \in {"trust", "revoke"}
      <3>1. new = old
        BY <1>0, <1>2, <2>7, Written
      <3> QED BY <2>4, <3>1
    <2> QED BY <2>1, <2>5, <2>6, <2>7
  <1>3. CASE ~WriteConfig(p)
    <2>1. config' = config
      BY <1>0, <1>3, ConfigUnchanged
    <2> SUFFICES ASSUME NEW i \in DOMAIN config.catalogs, NEW c, c = config.catalogs[i], c.pin # Latest
                 PROVE  c.resolved = c.pin /\ Offered(c.name)' = RefsOf(c.name, c.pin)
      BY <2>1 DEF PinnedInForce
    <2>2. c.resolved = c.pin /\ Offered(c.name) = RefsOf(c.name, c.pin)
      BY <1>0 DEF PinnedInForce
    <2>3. c.name \in Git
      BY <1>0 DEF EntriesSound, EntrySound
    <2>4. CASE Offered(c.name)' = Offered(c.name)
      BY <2>2, <2>4
    <2>5. CASE c.name = task[p].name /\ SyncTable(p)
      <3>1. task[p].pc = "table" /\ task[p].op = "sync"
        BY <2>5 DEF SyncTable
      <3>2. c.pin = task[p].pin
        BY <1>0, <2>5, <3>1, SyncPin
      <3>3. task[p].tree = task[p].pin
        BY <1>0, <2>3, <2>5, <3>1, <3>2, FindsAll
      <3>4. Offered(c.name)' = RefsOf(c.name, task[p].tree)
        BY <1>0, <2>3, <2>5, AfterReplace
      <3> QED BY <2>2, <3>2, <3>3, <3>4
    <2>6. CASE c.name = task[p].name /\ AddTable(p)
      <3>1. ~Registered(c.name, config)
        BY <1>0, <2>6 DEF AddTable, HoldersKnow
      <3> QED BY <3>1 DEF Registered
    <2> QED BY <1>0, <2>3, <2>4, <2>5, <2>6, OfferSteps, NamesAreNot
  <1> QED BY <1>2, <1>3

(* Every step of a command keeps settled catalogues in agreement.          *)
LEMMA SettledStep ==
  ASSUME OfferInv, NEW p \in Procs, Step(p)
  PROVE  SettledAgrees'
  <1>0. /\ KnownInv /\ ConfigInv /\ ConfigInv' /\ BaseInv /\ CatalogTypes /\ GitRows /\ IndexAgrees
        /\ SettledAgrees /\ SettledAlone /\ Placed(task[p]) /\ Distinct(config.catalogs)
        /\ Distinct(config'.catalogs)
    <2>1. KnownInv'
      BY KnownStep DEF OfferInv, CatalogNext
    <2> QED BY <2>1 DEF OfferInv, KnownInv, ConfigInv, BaseInv
  <1> SUFFICES ASSUME NEW n \in Git, settled'[n]
               PROVE  /\ Registered(n, config')
                      /\ Offered(n)' = RefsOf(n, EntryOf(n, config').resolved)
    BY DEF SettledAgrees, Registered, EntryOf
  <1>1. n \in Names
    BY NamesAreNot
  <1>2. ASSUME settled[n]
        PROVE  /\ Registered(n, config')
               /\ Offered(n)' = RefsOf(n, EntryOf(n, config').resolved)
    <2>1. task[p].name # n
      BY <1>0, <1>1, <1>2 DEF SettledAlone
    <2>2. Offered(n)' = Offered(n)
      BY <1>0, <1>1, <2>1, OfferSteps
    <2>3. PICK i \in DOMAIN config.catalogs : config.catalogs[i].name = n
      BY <1>0, <1>2 DEF SettledAgrees, Registered
    <2>4. Offered(n) = RefsOf(n, config.catalogs[i].resolved)
      BY <1>0, <1>2, <2>3, EntryUnique DEF SettledAgrees
    <2>5. i \in DOMAIN config'.catalogs /\ config'.catalogs[i] = config.catalogs[i]
      <3>1. CASE WriteConfig(p)
        <4>1. ConfigStep
          BY <1>0, <3>1, ConfigWrite
        <4>2. \A q \in Procs : Writes(q, {"sync"}) => task[q].name # n
          BY <1>0, <1>1, <1>2 DEF SettledAlone
        <4> QED BY <2>3, <4>1, <4>2 DEF ConfigStep
      <3>2. CASE ~WriteConfig(p)
        BY <1>0, <3>2, ConfigUnchanged
      <3> QED BY <3>1, <3>2
    <2> QED BY <1>0, <2>2, <2>3, <2>4, <2>5, EntryUnique
  <1>3. ASSUME ~settled[n]
        PROVE  /\ Registered(n, config')
               /\ Offered(n)' = RefsOf(n, EntryOf(n, config').resolved)
    <2> DEFINE t == task[p]
               old == config.catalogs
               new == config'.catalogs
    <2>1. WriteConfig(p)
      <3>1. CASE Add(p) \/ Sync(p) \/ Validate(p) \/ Trust(p)
        <4>1. PICK u : Begin(p, u)
          BY <1>0, <3>1, Beginning
        <4>2. settled'[n] = (settled[n] /\ n # u.name)
          BY <1>1, <4>1 DEF Begin
        <4> QED BY <1>3, <4>2
      <3>2. CASE ~(Add(p) \/ Sync(p) \/ Validate(p) \/ Trust(p))
        BY <1>0, <1>3, <3>2, SettledSteps
      <3> QED BY <3>1, <3>2
    <2>2. n = t.name /\ t.alone
      <3>1. settled'[n] = (settled[n] \/ (n = t.name /\ t.alone))
        BY <1>1, <2>1 DEF WriteConfig
      <3> QED BY <1>3, <3>1
    <2>3. /\ t.pc = "write" /\ t.op \in {"add", "sync", "trust", "revoke"} /\ t \in Task
          /\ Sound(t, published, fetched)
          /\ DOMAIN old = 1..Len(old) /\ Len(old) \in Nat /\ DOMAIN new = 1..Len(new)
          /\ \A i \in DOMAIN old : old[i] \in Entry
      BY <1>0, <2>1, Written
    <2>4. t.op \in {"add", "sync"}
      BY <1>1, <2>2, <2>3, NamesAreNot DEF Sound, Named
    <2>5. Offered(n)' = RefsOf(n, t.tree)
      <3>1. Offered(n)' = Offered(n)
        BY <2>1 DEF WriteConfig, tableVars, Offered
      <3>2. Offered(n) = RefsOf(n, t.tree)
        BY <1>0, <2>2, <2>3, <2>4 DEF Placed
      <3> QED BY <3>1, <3>2
    <2>6. \E i \in DOMAIN new : new[i].name = n /\ new[i].resolved = t.tree
      <3>1. CASE t.op = "add"
        <4>1. Len(new) = Len(old) + 1
                /\ new[Len(old) + 1] = [name |-> t.name, pin |-> t.pin, resolved |-> t.tree]
          BY <1>0, <2>1, <3>1, Written
        <4>2. Len(old) + 1 \in DOMAIN new
          <5> HIDE DEF new, old
          <5> QED BY <2>3, <4>1
        <4>3. new[Len(old) + 1].name = t.name /\ new[Len(old) + 1].resolved = t.tree
          BY <4>1
        <4> QED BY <2>2, <4>2, <4>3
      <3>2. CASE t.op = "sync"
        <4>1. PICK i \in DOMAIN old : old[i].name = t.name
          BY <1>0, <2>3, <3>2 DEF ConfigInv, Configured
        <4>2. i \in DOMAIN new /\ new[i] = [old[i] EXCEPT !.resolved = t.tree]
          BY <1>0, <2>1, <3>2, <4>1, Written
        <4>3. new[i].name = t.name /\ new[i].resolved = t.tree
          BY <2>3, <4>1, <4>2 DEF Entry
        <4> QED BY <2>2, <4>2, <4>3
      <3> QED BY <2>4, <3>1, <3>2
    <2> QED BY <1>0, <2>5, <2>6, EntryUnique
  <1> QED BY <1>2, <1>3

(* Every step keeps the invariant of offers.                               *)
LEMMA OfferStep == OfferInv /\ [CatalogNext]_catalogVars => OfferInv'
  <1> SUFFICES ASSUME OfferInv, [CatalogNext]_catalogVars PROVE OfferInv'
    OBVIOUS
  <1>1. KnownInv /\ KnownInv' /\ BaseInv /\ CatalogTypes
    BY KnownStep DEF OfferInv, KnownInv, ConfigInv, BaseInv
  <1>2. ASSUME NEW p \in Procs, Step(p) PROVE OfferInv'
    <2>1. GitRows' /\ IndexAgrees'
      BY <1>2, OfferSteps DEF OfferInv
    <2>2. OffersOneCommit' /\ PinnedInForce' /\ SettledAgrees'
      BY <1>2, OneCommitStep, PinnedStep, SettledStep
    <2>3. ASSUME NEW q \in Procs PROVE Placed(task[q])'
      BY <1>2, PlacedOwn, PlacedOthers
    <2>4. AreAlone' /\ SettledAlone'
      BY <1>1, <1>2, AloneStep DEF OfferInv
    <2> QED BY <1>1, <2>1, <2>2, <2>3, <2>4 DEF OfferInv
  <1>3. ASSUME UNCHANGED <<tableVars, config, task, settled>>,
               \A s \in Sources : published[s] \subseteq published'[s]
        PROVE  OfferInv'
    <2>1. \A n : Offered(n)' = Offered(n)
      BY <1>3 DEF tableVars, Offered
    <2>2. GitRows' /\ IndexAgrees' /\ PinnedInForce' /\ SettledAgrees'
      BY <1>3, <2>1 DEF OfferInv, tableVars, GitRows, IndexAgrees, PinnedInForce, SettledAgrees,
         Registered, EntryOf
    <2>3. OffersOneCommit'
      <3>1. \A n \in Git : SourceOf[n] \in Sources
        BY NamesAreNot DEF Sources
      <3> QED BY <1>3, <2>1, <3>1 DEF OfferInv, tableVars, OffersOneCommit
    <2>4. \A q \in Procs : Placed(task[q])'
      BY <1>3, <2>1 DEF OfferInv, Placed
    <2>5. AreAlone' /\ SettledAlone'
      BY <1>3 DEF OfferInv, AreAlone, SettledAlone
    <2> QED BY <1>1, <2>2, <2>3, <2>4, <2>5 DEF OfferInv
  <1>4. ASSUME NEW s \in Sources, NEW tree \in Trees, Edit(s, tree) PROVE OfferInv'
    <2>1. \A r \in Sources : published[r] \subseteq published'[r]
      BY <1>1, <1>4 DEF Edit, CatalogTypes
    <2> QED BY <1>3, <1>4, <2>1 DEF Edit, settingsVars
  <1>5. CASE UNCHANGED catalogVars
    BY <1>3, <1>5 DEF catalogVars, worldVars, settingsVars
  <1> QED BY <1>2, <1>4, <1>5 DEF CatalogNext

(* The invariant of offers holds.                                          *)
LEMMA OfferInvariant == CatalogSpec => []OfferInv
  BY OfferInit, OfferStep, PTL DEF CatalogSpec

(* A catalogue at a commit stays at it (property PinnedInForce).           *)
THEOREM PinsHold == CatalogSpec => []PinnedInForce
  <1>1. OfferInv => PinnedInForce
    BY DEF OfferInv
  <1> QED BY <1>1, OfferInvariant, PTL

(* A Git catalogue offers one commit, as indexed (property                 *)
(* OffersOneCommit).                                                       *)
THEOREM OneCommitIsOffered == CatalogSpec => []OffersOneCommit
  <1>1. OfferInv => OffersOneCommit
    BY DEF OfferInv
  <1> QED BY <1>1, OfferInvariant, PTL

(* A command that ran alone to its end has put its catalogue right         *)
(* (property SettledAgrees).                                               *)
THEOREM RepairsSettle == CatalogSpec => []SettledAgrees
  <1>1. OfferInv => SettledAgrees
    BY DEF OfferInv
  <1> QED BY <1>1, OfferInvariant, PTL

(* What is on record under a granted reference of a Git catalogue does not *)
(* change (property GitGrantsAreImmutable).                                *)
THEOREM GitGrantsStay == CatalogSpec => GitGrantsAreImmutable
  <1>1. OfferInv /\ OfferInv' /\ [CatalogNext]_catalogVars
          => [StaysAsGranted({r \in Refs : r.catalog \in Git})]_catalogVars
    <2> SUFFICES ASSUME OfferInv, OfferInv', [CatalogNext]_catalogVars,
                        NEW r \in DOMAIN rows, r.catalog \in Git
                 PROVE  r \in DOMAIN rows' /\ rows'[r].manifest = rows[r].manifest
      BY DEF StaysAsGranted
    <2>1. DOMAIN rows \subseteq DOMAIN rows'
      <3>1. BaseInv
        BY DEF OfferInv, KnownInv, ConfigInv
      <3>2. ASSUME NEW p \in Procs, Step(p) PROVE DOMAIN rows \subseteq DOMAIN rows'
        BY <3>1, <3>2, TableSteps, TableRefs DEF tableVars
      <3>3. CASE UNCHANGED rows
        BY <3>3
      <3>4. ASSUME NEW s \in Sources, NEW tree \in Trees, Edit(s, tree)
            PROVE  DOMAIN rows \subseteq DOMAIN rows'
        BY <3>4 DEF Edit, tableVars
      <3>5. CASE UNCHANGED catalogVars
        BY <3>3, <3>5 DEF catalogVars, tableVars
      <3> QED BY <3>2, <3>4, <3>5 DEF CatalogNext
    <2>2. rows[r].manifest = r.digest
      BY DEF OfferInv, GitRows
    <2>3. rows'[r].manifest = r.digest
      BY <2>1 DEF OfferInv, GitRows
    <2> QED BY <2>1, <2>2, <2>3
  <1> QED BY <1>1, OfferInvariant, PTL DEF CatalogSpec, GitGrantsAreImmutable
=============================================================================
