------------------------------ MODULE Catalog ------------------------------
(***************************************************************************)
(* Catalogues, bundles and grants of one data directory, changed by any    *)
(* number of command processes at once: CatalogService (add, sync, trust,  *)
(* revoke) and the part of AuthoringService.validate that registers a      *)
(* draft, over FileCatalogSource, FileBundles, SqliteWorkflows and         *)
(* FileSettings.  There is no common transaction: config.json is replaced  *)
(* under config.lock, the workflows table in its own transaction, a Git    *)
(* cache is used under the lock of its source, bundles appear by rename.   *)
(* A command may stop between any two of those (Interrupt).  A digest is   *)
(* its content and a commit is its tree; one profile is modelled.          *)
(***************************************************************************)
EXTENDS Naturals, Sequences, FiniteSets

CONSTANTS
    Procs, None,
    Names,              \* catalogues, the drafts' included
    Draft,              \* the catalogue name of drafts
    Git,                \* the catalogues of kind "git"; the others are local
    SourceOf,           \* where each catalogue is read from
    Dirs, Contents,     \* workflow directories, and what they may hold
    IdOf,               \* the id a manifest declares
    Latest,               \* no revision chosen
    Trees,              \* the trees a source goes through
    MaxEdits, MaxCommands   \* bounds of the model

Sources == {SourceOf[n] : n \in Names}
Tree == [Dirs -> Contents \cup {None}]

ASSUME CatalogAssumption ==
    /\ Draft \in Names /\ Git \subseteq Names \ {Draft}
    /\ Trees \subseteq Tree /\ Trees # {}
    /\ None \notin Contents \cup Procs \cup Dirs \cup Names \cup Tree
    /\ Latest \notin Tree \cup {None}
    /\ DOMAIN SourceOf = Names /\ DOMAIN IdOf = Contents
    /\ MaxEdits \in Nat /\ MaxCommands \in Nat

VARIABLES
    source,         \* the tree of each source: working tree, or HEAD
    published,      \* the commits of each source
    fetched,        \* FETCH_HEAD of the Git cache of each source
    sourceLock,     \* who holds <source-hash>.lock
    bundles,        \* bundles/<digest>
    rows,           \* the table workflows
    index,          \* how often the search index lists each reference
    config,         \* config.json
    configLock,     \* who holds config.lock
    task,           \* what each process is doing
    settled,        \* history: the last command on a catalogue ran alone
    edits, commands

worldVars == <<source, published, edits>>
gitVars == <<fetched, sourceLock>>
tableVars == <<rows, index>>
settingsVars == <<config, configLock>>
catalogVars == <<worldVars, gitVars, bundles, tableVars, settingsVars, task, settled, commands>>

Ids == {IdOf[c] : c \in Contents}
Refs == [catalog: Names, id: Ids, digest: Contents]
Rows == [manifest: Contents, active: BOOLEAN]
Entry == [name: Names, pin: Tree \cup {Latest}, resolved: Tree \cup {None}]
Settings == [catalogs: Seq(Entry), grants: SUBSET Refs]
Workflow == [ref: Refs, manifest: Contents]
Found == UNION {[D -> Workflow] : D \in SUBSET Dirs}

(* One command: its arguments, and what it has read so far.                *)
Task == [pc: {"idle", "read", "fetch", "archive", "load", "digest", "snapshot",
              "rename", "table", "lock", "change", "write"},
         op: {None, "add", "sync", "validate", "trust", "revoke"},
         name: Names \cup {None}, pin: Tree \cup {Latest, None}, ref: Refs \cup {None},
         tree: Tree \cup {None}, todo: SUBSET Dirs, dir: Dirs \cup {None},
         manifest: Contents \cup {None}, digest: Contents \cup {None},
         copy: Contents \cup {None}, settings: Settings \cup {None}, alone: BOOLEAN,
         found: Found]
Nothing == [x \in {} |-> None]
NoTask == [pc |-> "idle", op |-> None, name |-> None, pin |-> None, ref |-> None,
           tree |-> None, todo |-> {}, dir |-> None, manifest |-> None, digest |-> None,
           copy |-> None, settings |-> None, alone |-> FALSE, found |-> Nothing]

CatalogInit ==
    /\ source \in [Sources -> Trees]
    /\ published = [s \in Sources |-> {source[s]}]
    /\ fetched = [s \in Sources |-> None]
    /\ sourceLock = [s \in Sources |-> None]
    /\ bundles = [d \in Contents |-> None]
    /\ rows = Nothing
    /\ index = [r \in Refs |-> 0]
    /\ config = [catalogs |-> <<>>, grants |-> {}]
    /\ configLock = None
    /\ task = [p \in Procs |-> NoTask]
    /\ settled = [n \in Names |-> FALSE]
    /\ edits = 0 /\ commands = 0

Registered(n, settings) ==
    \E i \in DOMAIN settings.catalogs : settings.catalogs[i].name = n
EntryOf(n, settings) ==
    settings.catalogs[CHOOSE i \in DOMAIN settings.catalogs : settings.catalogs[i].name = n]

Goes(p, t) == task' = [task EXCEPT ![p] = t]
OnlyTask == UNCHANGED <<worldVars, gitVars, bundles, tableVars, settingsVars, settled, commands>>
Releases(p) == sourceLock' = [s \in Sources |-> IF sourceLock[s] = p THEN None ELSE sourceLock[s]]

(* The author edits a local catalogue, or a commit becomes the HEAD of a   *)
(* remote one.                                                             *)
Edit(s, tree) ==
    /\ edits < MaxEdits
    /\ source[s] # tree
    /\ source' = [source EXCEPT ![s] = tree]
    /\ published' = [published EXCEPT ![s] = @ \cup {tree}]
    /\ edits' = edits + 1
    /\ UNCHANGED <<gitVars, bundles, tableVars, settingsVars, task, settled, commands>>

-----------------------------------------------------------------------------
(* Beginning a command, after the checks its service makes without a lock. *)
Begin(p, t) ==
    /\ task[p].pc = "idle"
    /\ commands < MaxCommands
    /\ commands' = commands + 1
    /\ task' = [q \in Procs |->
                  IF q = p THEN [t EXCEPT !.alone = /\ t.name # None
                                                    /\ \A r \in Procs : task[r].name # t.name]
                  ELSE [task[q] EXCEPT !.alone = @ /\ task[q].name # t.name]]
    /\ settled' = [n \in Names |-> settled[n] /\ n # t.name]
    /\ UNCHANGED <<worldVars, gitVars, bundles, tableVars, settingsVars>>

Add(p) ==
    \E n \in Names \ {Draft} : \E pin \in {Latest} \cup published[SourceOf[n]] :
        /\ ~Registered(n, config)
        /\ n \in Git \/ pin = Latest
        /\ Begin(p, [NoTask EXCEPT !.pc = "read", !.op = "add", !.name = n, !.pin = pin])

Sync(p) ==
    \E n \in Names :
        /\ Registered(n, config)
        /\ Begin(p, [NoTask EXCEPT !.pc = "read", !.op = "sync", !.name = n,
                                   !.pin = EntryOf(n, config).pin])

Validate(p) ==
    Begin(p, [NoTask EXCEPT !.pc = "read", !.op = "validate", !.name = Draft, !.pin = Latest])

Trust(p) ==
    \E r \in DOMAIN rows : \E op \in {"trust", "revoke"} :
        Begin(p, [NoTask EXCEPT !.pc = "lock", !.op = op, !.ref = r])

(* A failing read, a busy or failing storage, a refused value, a full      *)
(* disk, or the end of the process: the locks go, what was written stays.  *)
Interrupt(p) ==
    /\ task[p].pc # "idle"
    /\ Goes(p, NoTask)
    /\ Releases(p)
    /\ configLock' = IF configLock = p THEN None ELSE configLock
    /\ UNCHANGED <<worldVars, fetched, bundles, tableVars, config, settled, commands>>

-----------------------------------------------------------------------------
(* Reading a catalogue.  A Git source is fetched into a cache shared by    *)
(* all catalogues with that source, and unpacked into a private directory; *)
(* a local one is read where its author may be editing it.                 *)
Holds(tree) == {d \in Dirs : tree[d] # None}
(* Mutation: a Git source unpacked into a directory that others update.    *)
ReadsInPlace(t) == source[SourceOf[t.name]]

Reads(t) == IF t.name \in Git THEN t.tree ELSE source[SourceOf[t.name]]

(* Mutation: the lock of the cache is not waited for.                      *)
LockSourceAnyway(p) ==
    LET t == task[p] s == SourceOf[t.name] IN
    /\ t.pc = "read" /\ t.name \in Git
    /\ sourceLock' = [sourceLock EXCEPT ![s] = p]
    /\ Goes(p, [t EXCEPT !.pc = "fetch"])
    /\ UNCHANGED <<worldVars, fetched, bundles, tableVars, settingsVars, settled, commands>>

LockSource(p) ==
    LET t == task[p] s == SourceOf[t.name] IN
    /\ t.pc = "read" /\ t.name \in Git
    /\ sourceLock[s] = None
    /\ sourceLock' = [sourceLock EXCEPT ![s] = p]
    /\ Goes(p, [t EXCEPT !.pc = "fetch"])
    /\ UNCHANGED <<worldVars, fetched, bundles, tableVars, settingsVars, settled, commands>>

Fetch(p) ==
    LET t == task[p] s == SourceOf[t.name] IN
    /\ t.pc = "fetch"
    /\ fetched' = [fetched EXCEPT ![s] = IF t.pin = Latest THEN source[s] ELSE t.pin]
    /\ Goes(p, [t EXCEPT !.pc = "archive"])
    /\ UNCHANGED <<worldVars, sourceLock, bundles, tableVars, settingsVars, settled, commands>>

Archive(p) ==
    LET t == task[p] tree == fetched[SourceOf[t.name]] IN
    /\ t.pc = "archive"
    /\ Goes(p, [t EXCEPT !.pc = "load", !.tree = tree, !.todo = Holds(tree)])
    /\ OnlyTask

(* All directories of a local catalogue, the one of a draft.               *)
Walk(p) ==
    LET t == task[p] present == Holds(source[SourceOf[t.name]]) IN
    /\ t.pc = "read" /\ t.name \notin Git
    /\ \E todo \in IF t.op = "validate" THEN {{d} : d \in present} ELSE {present} :
         Goes(p, [t EXCEPT !.pc = "load", !.todo = todo])
    /\ OnlyTask

(* load: the manifest first, the digest of the whole directory afterwards. *)
ReadManifest(p) ==
    LET t == task[p] IN
    /\ t.pc = "load"
    /\ \E d \in t.todo \cap Holds(Reads(t)) :
         Goes(p, [t EXCEPT !.pc = "digest", !.dir = d, !.manifest = Reads(t)[d]])
    /\ OnlyTask

ReadDigest(p) ==
    LET t == task[p] IN
    /\ t.pc = "digest"
    /\ t.dir \in Holds(Reads(t))
    /\ Goes(p, [t EXCEPT !.pc = "snapshot", !.digest = Reads(t)[t.dir]])
    /\ OnlyTask

Loaded(t) ==
    LET ref == [catalog |-> t.name, id |-> IdOf[t.manifest], digest |-> t.digest] IN
    [t EXCEPT !.pc = "load", !.todo = @ \ {t.dir}, !.dir = None, !.manifest = None,
              !.digest = None, !.copy = None,
              !.found = [d \in DOMAIN @ \cup {t.dir} |->
                           IF d = t.dir THEN [ref |-> ref, manifest |-> t.manifest] ELSE @[d]]]

(* snapshot: the bundle is there already, or a copy is made beside it,     *)
(* compared with the digest and renamed, unless another copy came first.   *)
Reuse(p) ==
    LET t == task[p] IN
    /\ t.pc = "snapshot"
    /\ bundles[t.digest] = t.digest
    /\ Goes(p, Loaded(t))
    /\ OnlyTask

Copy(p) ==
    LET t == task[p] IN
    /\ t.pc = "snapshot"
    /\ bundles[t.digest] = None
    /\ t.dir \in Holds(Reads(t))
    /\ Goes(p, [t EXCEPT !.pc = "rename", !.copy = Reads(t)[t.dir]])
    /\ OnlyTask

(* Mutation: the copy is not compared with the digest.                     *)
RenameUncompared(p) ==
    LET t == task[p] IN
    /\ t.pc = "rename"
    /\ bundles' = [bundles EXCEPT ![t.digest] = IF @ = None THEN t.copy ELSE @]
    /\ Goes(p, [t EXCEPT !.pc = "snapshot", !.copy = None])
    /\ UNCHANGED <<worldVars, gitVars, tableVars, settingsVars, settled, commands>>

Rename(p) ==
    LET t == task[p] IN
    /\ t.pc = "rename"
    /\ t.copy = t.digest
    /\ bundles' = [bundles EXCEPT ![t.digest] = IF @ = None THEN t.copy ELSE @]
    /\ Goes(p, [t EXCEPT !.pc = "snapshot", !.copy = None])
    /\ UNCHANGED <<worldVars, gitVars, tableVars, settingsVars, settled, commands>>

Unique(found) ==
    \A d, e \in DOMAIN found : found[d].ref.id = found[e].ref.id => d = e

EndRead(p) ==
    LET t == task[p] IN
    /\ t.pc = "load" /\ t.todo = {}
    /\ Unique(t.found)
    /\ Releases(p)
    /\ Goes(p, [t EXCEPT !.pc = IF t.op = "add" THEN "lock" ELSE "table"])
    /\ UNCHANGED <<worldVars, fetched, bundles, tableVars, settingsVars, settled, commands>>

-----------------------------------------------------------------------------
(* replace_catalog, one transaction over the table and its search index.   *)
(* Mutation: workflows that are gone stay active.                          *)
ReplacedOnlyNew(n, new) ==
    LET fresh == {w.ref : w \in new} IN
    [r \in DOMAIN rows \cup fresh |->
       IF r \in fresh THEN [manifest |-> (CHOOSE w \in new : w.ref = r).manifest, active |-> TRUE]
       ELSE rows[r]]

Replaced(n, new) ==
    LET fresh == {w.ref : w \in new} IN
    [r \in DOMAIN rows \cup fresh |->
       IF r \in fresh THEN [manifest |-> (CHOOSE w \in new : w.ref = r).manifest, active |-> TRUE]
       ELSE IF r.catalog = n THEN [rows[r] EXCEPT !.active = FALSE]
       ELSE rows[r]]

Reindexed(n, new) ==
    [r \in Refs |-> (IF r \in DOMAIN rows /\ r.catalog = n THEN 0 ELSE index[r])
                    + IF \E w \in new : w.ref = r THEN 1 ELSE 0]

ReplaceCatalog(t) ==
    LET new == {t.found[d] : d \in DOMAIN t.found} IN
    /\ rows' = Replaced(t.name, new)
    /\ index' = Reindexed(t.name, new)

SyncTable(p) ==
    LET t == task[p] IN
    /\ t.pc = "table" /\ t.op = "sync"
    /\ ReplaceCatalog(t)
    /\ Goes(p, [t EXCEPT !.pc = "lock"])
    /\ UNCHANGED <<worldVars, gitVars, bundles, settingsVars, settled, commands>>

(* add_draft: a row that is there already stays as it is.                  *)
AddDraft(p) ==
    LET t == task[p] new == {t.found[d] : d \in DOMAIN t.found} IN
    /\ t.pc = "table" /\ t.op = "validate"
    /\ rows' = [r \in DOMAIN rows \cup {w.ref : w \in new} |->
                  IF r \in DOMAIN rows THEN rows[r]
                  ELSE [manifest |-> (CHOOSE w \in new : w.ref = r).manifest, active |-> FALSE]]
    /\ Goes(p, NoTask)
    /\ UNCHANGED <<worldVars, gitVars, bundles, index, settingsVars, settled, commands>>

-----------------------------------------------------------------------------
(* FileSettings.update: lock, read, change, replace the file, unlock.      *)
(* Mutation: the lock of config.json is not waited for.                    *)
LockConfigAnyway(p) ==
    LET t == task[p] IN
    /\ t.pc = "lock"
    /\ configLock' = p
    /\ Goes(p, [t EXCEPT !.settings = config, !.pc = IF t.op = "add" THEN "change" ELSE "write"])
    /\ UNCHANGED <<worldVars, gitVars, bundles, tableVars, config, settled, commands>>

LockConfig(p) ==
    LET t == task[p] IN
    /\ t.pc = "lock"
    /\ configLock = None
    /\ configLock' = p
    /\ Goes(p, [t EXCEPT !.settings = config, !.pc = IF t.op = "add" THEN "change" ELSE "write"])
    /\ UNCHANGED <<worldVars, gitVars, bundles, tableVars, config, settled, commands>>

(* A registration looks again, and replaces the table inside the lock.     *)
AddTable(p) ==
    LET t == task[p] IN
    /\ t.pc = "change"
    /\ ~Registered(t.name, t.settings)
    /\ ReplaceCatalog(t)
    /\ Goes(p, [t EXCEPT !.pc = "write"])
    /\ UNCHANGED <<worldVars, gitVars, bundles, settingsVars, settled, commands>>

(* Mutation: an addition records the revision it was asked for.            *)
ChangedToRequested(t) ==
    LET s == t.settings IN
    CASE t.op = "add" ->
           [s EXCEPT !.catalogs = Append(@, [name |-> t.name, pin |-> t.pin, resolved |-> t.pin])]
      [] t.op = "sync" -> s
      [] t.op = "trust" -> [s EXCEPT !.grants = @ \cup {t.ref}]
      [] t.op = "revoke" -> [s EXCEPT !.grants = @ \ {t.ref}]

(* Mutation: a sync does not record its revision.                          *)
ChangedUnrecorded(t) ==
    LET s == t.settings IN
    CASE t.op = "add" ->
           [s EXCEPT !.catalogs = Append(@, [name |-> t.name, pin |-> t.pin, resolved |-> t.tree])]
      [] t.op = "sync" -> s
      [] t.op = "trust" -> [s EXCEPT !.grants = @ \cup {t.ref}]
      [] t.op = "revoke" -> [s EXCEPT !.grants = @ \ {t.ref}]

Changed(t) ==
    LET s == t.settings IN
    CASE t.op = "add" ->
           [s EXCEPT !.catalogs = Append(@, [name |-> t.name, pin |-> t.pin, resolved |-> t.tree])]
      [] t.op = "sync" ->
           [s EXCEPT !.catalogs = [i \in DOMAIN @ |->
               IF s.catalogs[i].name = t.name THEN [s.catalogs[i] EXCEPT !.resolved = t.tree]
               ELSE s.catalogs[i]]]
      [] t.op = "trust" -> [s EXCEPT !.grants = @ \cup {t.ref}]
      [] t.op = "revoke" -> [s EXCEPT !.grants = @ \ {t.ref}]

WriteConfig(p) ==
    LET t == task[p] IN
    /\ t.pc = "write"
    /\ config' = Changed(t)
    /\ configLock' = None
    /\ settled' = [n \in Names |-> settled[n] \/ (n = t.name /\ t.alone)]
    /\ Goes(p, NoTask)
    /\ UNCHANGED <<worldVars, gitVars, bundles, tableVars, commands>>

-----------------------------------------------------------------------------
Step(p) ==
    \/ Add(p) \/ Sync(p) \/ Validate(p) \/ Trust(p) \/ Interrupt(p)
    \/ LockSource(p) \/ Fetch(p) \/ Archive(p) \/ Walk(p)
    \/ ReadManifest(p) \/ ReadDigest(p) \/ Reuse(p) \/ Copy(p) \/ Rename(p) \/ EndRead(p)
    \/ SyncTable(p) \/ AddDraft(p) \/ LockConfig(p) \/ AddTable(p) \/ WriteConfig(p)

CatalogNext ==
    \/ \E s \in Sources : \E tree \in Trees : Edit(s, tree)
    \/ \E p \in Procs : Step(p)

CatalogSpec == CatalogInit /\ [][CatalogNext]_catalogVars

-----------------------------------------------------------------------------
(* Every part of the state has its type.                                   *)
CatalogTypes ==
    /\ source \in [Sources -> Trees] /\ published \in [Sources -> SUBSET Trees]
    /\ fetched \in [Sources -> Trees \cup {None}]
    /\ sourceLock \in [Sources -> Procs \cup {None}]
    /\ bundles \in [Contents -> Contents \cup {None}]
    /\ DOMAIN rows \subseteq Refs /\ rows \in [DOMAIN rows -> Rows]
    /\ index \in [Refs -> Nat]
    /\ config \in Settings /\ configLock \in Procs \cup {None}
    /\ task \in [Procs -> Task]
    /\ settled \in [Names -> BOOLEAN]
    /\ edits \in 0..MaxEdits /\ commands \in 0..MaxCommands

(* What discovery offers of a catalogue, and what it would offer of a      *)
(* reading of a tree.                                                      *)
Offered(n) == {r \in DOMAIN rows : r.catalog = n /\ rows[r].active}
RefsOf(n, tree) ==
    {[catalog |-> n, id |-> IdOf[tree[d]], digest |-> tree[d]] : d \in Holds(tree)}

(* A bundle directory never holds anything but the content it is named     *)
(* after, and every workflow on record has its bundle: a process that      *)
(* copies a directory while it is edited, or races another copy, neither   *)
(* spoils a digest for good nor records what cannot be run.                *)
BundlesAreTrue ==
    /\ \A d \in Contents : bundles[d] \in {None, d}
    /\ \A r \in DOMAIN rows : bundles[r.digest] = r.digest

(* A catalogue registered at a commit stays at it (README.md:73, "Pin a    *)
(* commit for stable Git catalogs"): whatever runs beside it, the recorded *)
(* revision and the offered workflows are those of that commit.            *)
PinnedInForce ==
    \A i \in DOMAIN config.catalogs : LET c == config.catalogs[i] IN
        c.pin # Latest => c.resolved = c.pin /\ Offered(c.name) = RefsOf(c.name, c.pin)

(* What a Git catalogue offers is one commit of its source, never a        *)
(* mixture of two, and the search index lists each workflow of it once     *)
(* and no other.                                                           *)
OffersOneCommit ==
    \A n \in Git :
        /\ \/ Offered(n) = {}
           \/ \E tree \in published[SourceOf[n]] : Offered(n) = RefsOf(n, tree)
        /\ \A r \in Refs : r.catalog = n => index[r] = IF r \in Offered(n) THEN 1 ELSE 0

(* architecture.md:58: the table and config.json are not one transaction,  *)
(* and "registration/sync again" puts a catalogue right: after a command   *)
(* that ran to its end with no other on that catalogue, the recorded       *)
(* revision is the one offered, whatever was interrupted before it.        *)
SettledAgrees ==
    \A n \in Git : settled[n] =>
        /\ Registered(n, config)
        /\ Offered(n) = RefsOf(n, EntryOf(n, config).resolved)

(* config.json is read, changed and replaced by many commands, and no      *)
(* change is lost or made twice: registrations stay as they are and stay   *)
(* distinct, a revision changes only by a sync of that catalogue, a grant  *)
(* only by a trust or revoke of that exact reference.                      *)
Writes(p, ops) == task[p].pc = "write" /\ task[p].op \in ops /\ task'[p].pc = "idle"
ConfigStep ==
    /\ \A i \in DOMAIN config.catalogs :
         /\ i \in DOMAIN config'.catalogs
         /\ LET c == config.catalogs[i] d == config'.catalogs[i] IN
            /\ <<c.name, c.pin>> = <<d.name, d.pin>>
            /\ c = d \/ \E p \in Procs : Writes(p, {"sync"}) /\ task[p].name = c.name
    /\ \A i, j \in DOMAIN config'.catalogs :
         config'.catalogs[i].name = config'.catalogs[j].name => i = j
    /\ \A r \in Refs : (r \in config.grants) # (r \in config'.grants) =>
         \E p \in Procs : Writes(p, {"trust", "revoke"}) /\ task[p].ref = r
ConfigKept == [][ConfigStep]_catalogVars

(* security.md:7, "Trust is granted to an immutable workflow reference":   *)
(* the workflow on record under a granted reference does not change.  It   *)
(* holds of Git catalogues, which are read from a private copy.            *)
StaysAsGranted(refs) ==
    \A r \in refs \cap config.grants \cap DOMAIN rows :
        r \in DOMAIN rows' /\ rows'[r].manifest = rows[r].manifest
GitGrantsAreImmutable == [][StaysAsGranted({r \in Refs : r.catalog \in Git})]_catalogVars
GrantsAreImmutable == [][StaysAsGranted(Refs)]_catalogVars
=============================================================================
