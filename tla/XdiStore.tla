------------------------------ MODULE XdiStore ------------------------------
(***************************************************************************)
(* The store behind the xDI panel and tabs (crates/dbt_ui/src/xdi/store.rs):*)
(* which xDI project of the workspace is shown, the snapshot of it read in *)
(* the background, and its migration to Ellode, worked out in the          *)
(* background and written one operation at a time.                         *)
(*                                                                         *)
(* The store is an entity of the foreground thread: every handler runs to  *)
(* its end before another starts, so a handler is one step.  What takes    *)
(* time is a task in one of the store's fields.  A task is modelled by a   *)
(* record in that field: its background part fills the record's last       *)
(* field(s) in a step of its own, its foreground continuation takes it     *)
(* away in a later step, and assigning the field drops the task it held.   *)
(*                                                                         *)
(* The store's fields are the fields of the record "store", so that a      *)
(* handler that calls another is the composition of two operators on it.   *)
(***************************************************************************)
EXTENDS Naturals, Sequences

CONSTANTS
    Projects,      \* xDI projects, by path
    Folders,       \* folders a migration can go into
    Roots,         \* the lists of metadata folders a project can be read with
    None,          \* Option::None
    DefaultFolder, \* xdi::ellode_folder: the folder beside a project
    DefaultRoots,  \* xdi::default_metadata_roots: those found beside it
    Within,        \* <<folder, project or roots>>: the folder lies inside it
    Watched,       \* folders and roots some worktree of the workspace holds
    WorkspaceInit, \* the workspaces a behaviour may start with
    KvpInit,       \* what an earlier session may have stored
    DiskInit,      \* what the folders may hold at the start
    Plans          \* the outside events a behaviour may have: kinds and number

VARIABLES
    store,      \* the fields of XdiStore
    workspace,  \* the xDI projects among the workspace's folders
    files,      \* project -> version of its mappings and processes on disk
    metadata,   \* roots -> version of the metadata files on disk
    disk,       \* folder -> what its xdi-migration.yml says
    kvp,        \* the IDE's database: the picks and folders stored
    kvpWrites,  \* detached writes to it, not done yet
    notices,    \* file changes the worktrees have not told yet
    asked,      \* migration operations asked so far
    written,    \* the last operation written into a folder
    events      \* the kinds of outside events, and how many are left

env == <<workspace, files, metadata, disk, kvp, kvpWrites, notices>>
vars == <<store, env, asked, written, events>>

-----------------------------------------------------------------------------
(* Data *)

Opt(S) == S \cup {None}

\* An Arc<Snapshot>: "id" is its address, the rest what was read.
Snapshot == [id : Nat, project : Projects, roots : Roots, files : Nat, meta : Nat]

\* migrate::State as far as the store tells states apart: its revision, and
\* the metadata folders the migration keeps to.
FolderState == [rev : Nat, meta : Opt(Roots)]

Migration == [snapshot : Snapshot, folder : Folders, found : FolderState]

\* A MigrationOp: "id" is its turn, "of" the project shown when it was asked.
Op == [id : Nat, of : Projects, kind : {"migrate", "tick"}]

\* What last_result says, and of which project's operation.
Result == [of : Projects, ok : BOOLEAN]

Load == [project : Projects, roots : Roots, read : Opt([files : Nat, meta : Nat])]
Look == [project : Projects, snapshot : Snapshot, folder : Folders, found : Opt(FolderState)]
Write == [op : Op, snapshot : Snapshot, folder : Folders,
          result : Opt(Result), found : Opt(FolderState)]
Detection == [projects : SUBSET Projects,
              picked : [Projects -> Opt(Roots)], folders : [Projects -> Opt(Folders)]]
Detect == [roots : SUBSET Projects, found : Opt(Detection)]

Store == [projects : SUBSET Projects, active : Opt(Projects),
          picked : [Projects -> Opt(Roots)], pinned : [Projects -> Opt(Roots)],
          folders : [Projects -> Opt(Folders)],
          snapshot : Opt(Snapshot), migration : Opt(Migration),
          load : Opt(Load), reload_pending : BOOLEAN, debounce : BOOLEAN,
          look : Opt(Look), queue : Seq(Op), write : Opt(Write),
          last_result : Opt(Result),
          importing : Opt(Projects), detect : Opt(Detect)]

Kvp == [picked : [Projects -> Opt(Roots)], folders : [Projects -> Opt(Folders)]]

\* The detached kvp writes: the map, its key and the value (None deletes).
KvpWrite == [map : {"picked"}, project : Projects, value : Opt(Roots)]
            \cup [map : {"folders"}, project : Projects, value : Folders]

Notice == [kind : {"files"}, at : Projects] \cup [kind : {"meta"}, at : Roots]
          \cup [kind : {"state"}, at : Folders]

EventKinds == {"add", "remove", "activate", "reload", "look", "files", "meta",
               "state", "pick", "folder", "import", "queue"}
Plan == [kinds : SUBSET EventKinds, left : Nat]

ASSUME ConstantsAssumption ==
    /\ None \notin Projects \cup Folders \cup Roots
    /\ None \notin Snapshot \cup Migration \cup FolderState \cup Result
    /\ None \notin Load \cup Look \cup Write \cup Detection \cup Detect
    /\ None \notin [files : Nat, meta : Nat]
    /\ DefaultFolder \in [Projects -> Folders]
    /\ DefaultRoots \in [Projects -> Roots]
    /\ Within \subseteq Folders \X (Projects \cup Roots)
    /\ WorkspaceInit \subseteq SUBSET Projects
    /\ KvpInit \subseteq Kvp
    /\ DiskInit \subseteq [Folders -> FolderState]
    /\ Plans \subseteq Plan

-----------------------------------------------------------------------------
(* Reading the store *)

MigrationFolder(s) ==
    IF s.folders[s.active] # None THEN s.folders[s.active] ELSE DefaultFolder[s.active]

\* Variants of RootsOf: without the folders found beside a project; with those
\* picked before those its migration keeps to.
RootsOfNoDefault(s, p) == IF s.pinned[p] # None THEN s.pinned[p] ELSE s.picked[p]
RootsOfPickedFirst(s, p) ==
    IF s.picked[p] # None THEN s.picked[p]
    ELSE IF s.pinned[p] # None THEN s.pinned[p]
    ELSE DefaultRoots[p]

\* The metadata folders the project p is read with: those its migration keeps
\* to, else those picked, else those beside it.
RootsOf(s, p) ==
    IF s.pinned[p] # None THEN s.pinned[p]
    ELSE IF s.picked[p] # None THEN s.picked[p]
    ELSE DefaultRoots[p]

\* The migration keeps to metadata folders the project was not read with.
MetadataDiffers(m) == m.found.meta # None /\ m.found.meta # m.snapshot.roots

\* Whether a file under "at" (a project or roots) is of the project shown.
Reads(s, at) ==
    /\ s.active # None
    /\ \/ at = s.active
       \/ s.snapshot # None /\ at = s.snapshot.roots

-----------------------------------------------------------------------------
(* The handlers every other handler ends with *)

\* A variant of Reload: a read asked during another is forgotten.
ReloadForgets(s) ==
    IF s.active = None \/ s.load # None THEN s
    ELSE [s EXCEPT !.load = [project |-> s.active, roots |-> RootsOf(s, s.active),
                             read |-> None]]

\* Reads the project shown, after the read under way if there is one.
Reload(s) ==
    IF s.active = None THEN s
    ELSE IF s.load # None THEN [s EXCEPT !.reload_pending = TRUE]
    ELSE [s EXCEPT !.load = [project |-> s.active, roots |-> RootsOf(s, s.active),
                             read |-> None]]

\* A variant of RefreshMigration: not while the migration is being worked out.
RefreshMigrationOnce(s) ==
    IF s.write # None \/ s.look # None THEN s
    ELSE IF s.active = None \/ s.snapshot = None THEN [s EXCEPT !.migration = None]
    ELSE [s EXCEPT !.look = [project |-> s.active, snapshot |-> s.snapshot,
                             folder |-> MigrationFolder(s), found |-> None]]

\* Works the migration out again; a write under way does so when it ends.
RefreshMigration(s) ==
    IF s.write # None THEN s
    ELSE IF s.active = None \/ s.snapshot = None THEN [s EXCEPT !.migration = None]
    ELSE [s EXCEPT !.look = [project |-> s.active, snapshot |-> s.snapshot,
                             folder |-> MigrationFolder(s), found |-> None]]

\* The write of "op" into the migration shown.
WriteOf(s, op) ==
    [op |-> op, snapshot |-> s.migration.snapshot, folder |-> s.migration.folder,
     result |-> None, found |-> None]

\* Variants of StartWrite: a look goes on beside the write; the operations that
\* wait are dropped.
StartWriteKeepsLook(s, op, rest) == [s EXCEPT !.queue = rest, !.write = WriteOf(s, op)]
StartWriteDropsRest(s, op, rest) ==
    [s EXCEPT !.queue = <<>>, !.look = None, !.write = WriteOf(s, op)]

\* "op" is being written and "rest" waits; a look under way is dropped.
StartWrite(s, op, rest) == [s EXCEPT !.queue = rest, !.look = None, !.write = WriteOf(s, op)]

\* Variants of WriteNext: the queue is kept where there is no migration to write
\* into; the operation asked last goes first.
WriteNextKeepsQueue(s) ==
    IF s.write # None \/ s.queue = <<>> \/ s.migration = None THEN s
    ELSE StartWrite(s, Head(s.queue), Tail(s.queue))
WriteNextLastFirst(s) ==
    IF s.write # None \/ s.queue = <<>> THEN s
    ELSE IF s.migration = None THEN [s EXCEPT !.queue = <<>>]
    ELSE StartWrite(s, s.queue[Len(s.queue)], SubSeq(s.queue, 1, Len(s.queue) - 1))

\* Writes the operation asked first, if none is being written.
WriteNext(s) ==
    IF s.write # None \/ s.queue = <<>> THEN s
    ELSE IF s.migration = None THEN [s EXCEPT !.queue = <<>>]
    ELSE StartWrite(s, Head(s.queue), Tail(s.queue))

StartDetect(s, roots) == [s EXCEPT !.detect = [roots |-> roots, found |-> None]]

\* A variant of Show: the migration of the project before stays.
ShowKeepsMigration(s, p) == [s EXCEPT !.active = p, !.snapshot = None]

\* Another project is shown: nothing known of the one before stays.
Show(s, p) == [s EXCEPT !.active = p, !.snapshot = None, !.migration = None]

SetActive(s, p) ==
    IF s.active = p THEN s
    ELSE Reload([Show(s, p) EXCEPT !.last_result = None])

-----------------------------------------------------------------------------
(* Outside events: the user, the workspace and other programs *)

Event(kind) ==
    /\ kind \in events.kinds /\ events.left > 0
    /\ events' = [events EXCEPT !.left = @ - 1]

\* A change under "at" is told to the workspace if one of its folders holds it.
Told(kind, at) ==
    IF kind = "files" \/ at \in Watched THEN {[kind |-> kind, at |-> at]} ELSE {}

\* project::Event::WorktreeAdded and WorktreeRemoved
WorktreeAdded ==
    /\ Event("add")
    /\ \E p \in Projects \ workspace :
          /\ workspace' = workspace \cup {p}
          /\ store' = StartDetect(store, workspace')
    /\ UNCHANGED <<files, metadata, disk, kvp, kvpWrites, notices, asked, written>>

WorktreeRemoved ==
    /\ Event("remove")
    /\ \E p \in workspace :
          /\ workspace' = workspace \ {p}
          /\ store' = StartDetect(store, workspace')
    /\ UNCHANGED <<files, metadata, disk, kvp, kvpWrites, notices, asked, written>>

\* Another program changes a mapping, a metadata file, a migration's state.
EditFiles ==
    /\ Event("files")
    /\ \E p \in workspace :
          /\ files' = [files EXCEPT ![p] = @ + 1]
          /\ notices' = notices \cup Told("files", p)
    /\ UNCHANGED <<store, workspace, metadata, disk, kvp, kvpWrites, asked, written>>

EditMetadata ==
    /\ Event("meta")
    /\ \E r \in Roots :
          /\ metadata' = [metadata EXCEPT ![r] = @ + 1]
          /\ notices' = notices \cup Told("meta", r)
    /\ UNCHANGED <<store, workspace, files, disk, kvp, kvpWrites, asked, written>>

EditState ==
    /\ Event("state")
    /\ \E f \in Folders, r \in Opt(Roots) :
          /\ disk' = [disk EXCEPT ![f] = [rev |-> @.rev + 1, meta |-> r]]
          /\ notices' = notices \cup Told("state", f)
    /\ UNCHANGED <<store, workspace, files, metadata, kvp, kvpWrites, asked, written>>

\* The panel's menu shows another project.
Activate ==
    /\ Event("activate")
    /\ \E p \in store.projects \ {store.active} : store' = SetActive(store, p)
    /\ UNCHANGED <<env, asked, written>>

\* "Read the project again", in the panel or as an action.
AskReload ==
    /\ Event("reload")
    /\ store.active # None
    /\ store' = Reload(store)
    /\ UNCHANGED <<env, asked, written>>

\* The migration tab is opened, or "Look at the folder again".
AskLook ==
    /\ Event("look")
    /\ store' = RefreshMigration(store)
    /\ UNCHANGED <<env, asked, written>>

\* Another flow's page is opened in the migration tab, without what the last
\* migration said.
ClearLastResult ==
    /\ Event("look")
    /\ store' = [store EXCEPT !.last_result = None]
    /\ UNCHANGED <<env, asked, written>>

\* Metadata folders are picked for p (the dialog was opened while p was shown,
\* it may be answered later), or p goes back to those found (None).
SetMetadataFolders ==
    /\ Event("pick")
    /\ \E p \in store.projects, r \in Opt(Roots) :
          LET s == [store EXCEPT !.picked[p] = r]
          IN  /\ r # None \/ store.picked[p] # None
              /\ store' = IF s.active = p THEN Reload(s) ELSE s
              /\ kvpWrites' = kvpWrites \cup {[map |-> "picked", project |-> p, value |-> r]}
    /\ UNCHANGED <<workspace, files, metadata, disk, kvp, notices, asked, written>>

\* Whether the migration of the project shown may not go into f.
Refused(s, f) ==
    \/ <<f, s.active>> \in Within
    \/ s.snapshot # None /\ <<f, s.snapshot.roots>> \in Within

\* A folder to migrate into is chosen.
SetMigrationFolder ==
    /\ Event("folder")
    /\ store.active # None
    /\ \E f \in Folders :
          IF Refused(store, f)
          THEN /\ store' = [store EXCEPT !.last_result = [of |-> store.active, ok |-> FALSE]]
               /\ UNCHANGED kvpWrites
          ELSE LET p == store.active
                   s == [store EXCEPT !.folders[p] = f, !.last_result = None,
                                      !.pinned[p] = None]
               IN  /\ store' = IF store.pinned[p] # None THEN Reload(s) ELSE RefreshMigration(s)
                   /\ kvpWrites' = kvpWrites \cup {[map |-> "folders", project |-> p, value |-> f]}
    /\ UNCHANGED <<workspace, files, metadata, disk, kvp, notices, asked, written>>

\* Import(s, p, f): p is shown, migrating into f.
Import(s, p, f) ==
    LET moved == s.folders[p] # f
        set == [s EXCEPT !.folders[p] = f, !.pinned[p] = IF moved THEN None ELSE @]
    IN  IF p \notin s.projects THEN StartDetect([set EXCEPT !.importing = p], workspace)
        ELSE IF s.active # p THEN SetActive(set, p)
        ELSE IF moved THEN Reload([set EXCEPT !.last_result = None])
        ELSE set

\* A process is imported into a dbt project; its xDI project was just made a
\* folder of the workspace.
ImportProcess ==
    /\ Event("import")
    /\ \E p \in workspace, f \in Folders :
          /\ store' = Import(store, p, f)
          /\ kvpWrites' = kvpWrites \cup {[map |-> "folders", project |-> p, value |-> f]}
    /\ UNCHANGED <<workspace, files, metadata, disk, kvp, notices, asked, written>>

\* A flux is migrated or a to-do ticked, in the tab that shows the migration.
\* Its buttons are grey while the store is busy, but the prompt some of them
\* open is answered later, and a process can be imported during a write.
QueueMigration ==
    /\ Event("queue")
    /\ store.migration # None
    /\ asked' = asked + 1
    /\ \E kind \in {"migrate", "tick"} :
          store' = WriteNext([store EXCEPT !.queue =
                        Append(@, [id |-> asked', of |-> store.active, kind |-> kind])])
    /\ UNCHANGED <<env, written>>

-----------------------------------------------------------------------------
(* The tasks: background parts and foreground continuations *)

\* The worktrees tell a batch of the changes not told yet.
WorktreeUpdatedEntries ==
    /\ \E batch \in SUBSET notices \ {{}} :
          LET xdi == \E n \in batch : n.kind \in {"files", "meta"} /\ Reads(store, n.at)
              state == /\ store.active # None
                       /\ [kind |-> "state", at |-> MigrationFolder(store)] \in batch
          IN  /\ notices' = notices \ batch
              /\ store' = IF xdi THEN [store EXCEPT !.debounce = TRUE]
                           ELSE IF state THEN RefreshMigration(store)
                           ELSE store
    /\ UNCHANGED <<workspace, files, metadata, disk, kvp, kvpWrites, asked, written, events>>

\* Half a second after the last change.
DebounceFires ==
    /\ store.debounce
    /\ store' = Reload([store EXCEPT !.debounce = FALSE])
    /\ UNCHANGED <<env, asked, written, events>>

\* A detached write reaches the database: in any order.
KvpStored ==
    /\ \E w \in kvpWrites :
          /\ kvp' = IF w.map = "picked" THEN [kvp EXCEPT !.picked[w.project] = w.value]
                    ELSE [kvp EXCEPT !.folders[w.project] = w.value]
          /\ kvpWrites' = kvpWrites \ {w}
    /\ UNCHANGED <<store, workspace, files, metadata, disk, notices, asked, written, events>>

\* detect: the projects in the workspace's folders, and what is stored of them.
DetectRead ==
    /\ store.detect # None /\ store.detect.found = None
    /\ LET found == store.detect.roots
       IN  store' = [store EXCEPT !.detect.found =
                        [projects |-> found,
                         picked |-> [p \in Projects |-> IF p \in found THEN kvp.picked[p] ELSE None],
                         folders |-> [p \in Projects |-> IF p \in found THEN kvp.folders[p] ELSE None]]]
    /\ UNCHANGED <<env, asked, written, events>>

\* What detect found is taken over: what is stored wins over what the store
\* holds; "first" is the project shown when the one shown is gone.
TakeDetection(s, first) ==
    LET found == s.detect.found
        imported == s.importing # None /\ s.importing \in found.projects
        keep == s.active # None /\ s.active \in found.projects
        set == [s EXCEPT !.detect = None, !.projects = found.projects, !.picked = found.picked,
                         !.folders = [p \in Projects |->
                             IF found.folders[p] # None THEN found.folders[p] ELSE s.folders[p]],
                         !.importing = IF imported THEN None ELSE @]
    IN  IF imported THEN Reload([Show(set, s.importing) EXCEPT !.last_result = None])
        ELSE IF keep THEN set
        ELSE Reload(Show(set, first))

DetectDone ==
    /\ store.detect # None /\ store.detect.found # None
    /\ LET projects == store.detect.found.projects
       IN  \E first \in IF projects = {} THEN {None} ELSE projects :
              store' = TakeDetection(store, first)
    /\ UNCHANGED <<env, asked, written, events>>

\* The snapshots the store and its tasks hold, and an address none of them has.
Held(s) ==
    {m.snapshot : m \in {s.migration, s.look, s.write} \ {None}} \cup ({s.snapshot} \ {None})
FreshId(s) == CHOOSE n \in 0..4 : \A held \in Held(s) : held.id # n

\* reload: the reader reads the project's files and its metadata.
LoadRead ==
    /\ store.load # None /\ store.load.read = None
    /\ store' = [store EXCEPT !.load.read =
                    [files |-> files[store.load.project], meta |-> metadata[store.load.roots]]]
    /\ UNCHANGED <<env, asked, written, events>>

\* A variant of TakeLoad: whichever project is shown.
TakeLoadOfAny(s, made) ==
    LET taken == RefreshMigration([s EXCEPT !.load = None, !.snapshot = made])
    IN  IF taken.reload_pending
        THEN Reload([taken EXCEPT !.reload_pending = FALSE])
        ELSE taken

\* A read ends: "made" is the snapshot it made, dropped when another project
\* is shown; a read asked meanwhile starts.
TakeLoad(s, made) ==
    LET idle == [s EXCEPT !.load = None]
        taken == IF s.active = s.load.project
                 THEN RefreshMigration([idle EXCEPT !.snapshot = made])
                 ELSE idle
    IN  IF taken.reload_pending
        THEN Reload([taken EXCEPT !.reload_pending = FALSE])
        ELSE taken

LoadDone ==
    /\ store.load # None /\ store.load.read # None
    /\ store' = TakeLoad(store, [id |-> FreshId(store), project |-> store.load.project,
                                 roots |-> store.load.roots,
                                 files |-> store.load.read.files,
                                 meta |-> store.load.read.meta])
    /\ UNCHANGED <<env, asked, written, events>>

\* refresh_migration: read_migration, in the background.
LookRead ==
    /\ store.look # None /\ store.look.found = None
    /\ store' = [store EXCEPT !.look.found = disk[store.look.folder]]
    /\ UNCHANGED <<env, asked, written, events>>

\* What was looked at is taken over if it is still what is shown; metadata
\* folders the migration keeps to are pinned and read.
TakeLook(s) ==
    LET m == [snapshot |-> s.look.snapshot, folder |-> s.look.folder, found |-> s.look.found]
        idle == [s EXCEPT !.look = None]
        pinned == Reload([idle EXCEPT !.pinned[s.look.project] = m.found.meta])
        current == /\ s.active = s.look.project
                   /\ MigrationFolder(s) = s.look.folder
                   /\ s.snapshot # None /\ s.snapshot.id = s.look.snapshot.id
    IN  IF ~current THEN idle
        ELSE [(IF MetadataDiffers(m) THEN pinned ELSE idle) EXCEPT !.migration = m]

LookDone ==
    /\ store.look # None /\ store.look.found # None
    /\ store' = TakeLook(store)
    /\ UNCHANGED <<env, asked, written, events>>

\* write_next: migrate or tick in the background (el_import, external), which
\* may fail.  A migration keeps to the metadata folders it was begun with.
WriteFolder ==
    /\ store.write # None /\ store.write.result = None
    /\ written' = store.write.op.id
    /\ \E ok \in BOOLEAN :
          LET f == store.write.folder
              kept == IF disk[f].meta = None THEN store.write.snapshot.roots ELSE disk[f].meta
          IN  /\ store' = [store EXCEPT !.write.result = [of |-> store.write.op.of, ok |-> ok]]
              /\ disk' = IF ok THEN [disk EXCEPT ![f] = [rev |-> @.rev + 1, meta |-> kept]]
                         ELSE disk
              /\ notices' = IF ok THEN notices \cup Told("state", f) ELSE notices
    /\ UNCHANGED <<workspace, files, metadata, kvp, kvpWrites, asked, events>>

\* ... then read_migration of the same snapshot and folder.
WriteRead ==
    /\ store.write # None /\ store.write.result # None /\ store.write.found = None
    /\ store' = [store EXCEPT !.write.found = disk[store.write.folder]]
    /\ UNCHANGED <<env, asked, written, events>>

\* A write ends: what it read is shown if it is of the migration shown, the
\* next one starts, or the migration is worked out again for a newer read.
TakeWrite(s) ==
    LET w == s.write
        next == [snapshot |-> w.snapshot, folder |-> w.folder, found |-> w.found]
        current == /\ s.migration # None
                   /\ s.migration.snapshot.id = next.snapshot.id
                   /\ s.migration.folder = next.folder
        told == w.op.kind = "migrate" \/ ~w.result.ok
        idle == [s EXCEPT !.write = None,
                          !.migration = IF current THEN next ELSE @,
                          !.last_result = IF told THEN w.result ELSE @]
        stale == /\ idle.snapshot # None
                 /\ \/ idle.migration = None
                    \/ idle.migration.snapshot.id # idle.snapshot.id
    IN  IF s.queue # <<>> THEN WriteNext(idle)
        ELSE IF stale THEN RefreshMigration(idle)
        ELSE idle

WriteDone ==
    /\ store.write # None /\ store.write.found # None
    /\ store' = TakeWrite(store)
    /\ UNCHANGED <<env, asked, written, events>>

-----------------------------------------------------------------------------
InitStore ==
    [projects |-> {}, active |-> None,
     picked |-> [p \in Projects |-> None], pinned |-> [p \in Projects |-> None],
     folders |-> [p \in Projects |-> None],
     snapshot |-> None, migration |-> None, load |-> None, reload_pending |-> FALSE,
     debounce |-> FALSE, look |-> None, queue |-> <<>>, write |-> None,
     last_result |-> None, importing |-> None, detect |-> None]

Init ==
    /\ workspace \in WorkspaceInit
    /\ store = StartDetect(InitStore, workspace)
    /\ files = [p \in Projects |-> 0]
    /\ metadata = [r \in Roots |-> 0]
    /\ disk \in DiskInit
    /\ kvp \in KvpInit
    /\ kvpWrites = {} /\ notices = {}
    /\ asked = 0 /\ written = 0 /\ events \in Plans

\* Steps that the background executor and the foreground queue take by
\* themselves.
Tasks ==
    \/ WorktreeUpdatedEntries \/ DebounceFires \/ KvpStored
    \/ DetectRead \/ DetectDone \/ LoadRead \/ LoadDone
    \/ LookRead \/ LookDone \/ WriteFolder \/ WriteRead \/ WriteDone

Outside ==
    \/ WorktreeAdded \/ WorktreeRemoved \/ EditFiles \/ EditMetadata \/ EditState
    \/ Activate \/ AskReload \/ AskLook \/ ClearLastResult \/ SetMetadataFolders
    \/ SetMigrationFolder \/ ImportProcess \/ QueueMigration

Next == Outside \/ Tasks

Spec == Init /\ [][Next]_vars

\* While a task can take a step, some task does: the executors are never idle
\* while a job is ready, a timer due or a file change not told.  Nothing outside
\* is obliged to happen, and no task is promised its turn before another.
FairSpec == Spec /\ WF_vars(Tasks)

-----------------------------------------------------------------------------
(* Properties *)

\* Every variable has its type.
TypeOK ==
    /\ store \in Store
    /\ workspace \in SUBSET Projects
    /\ files \in [Projects -> Nat]
    /\ metadata \in [Roots -> Nat]
    /\ disk \in [Folders -> FolderState]
    /\ kvp \in Kvp
    /\ kvpWrites \in SUBSET KvpWrite
    /\ notices \in SUBSET Notice
    /\ asked \in Nat /\ written \in Nat /\ events \in Plan

\* No task is under way, and no file change waits to be told.
Quiescent ==
    /\ store.detect = None /\ store.load = None /\ store.look = None /\ store.write = None
    /\ ~store.debounce /\ ~store.reload_pending /\ store.queue = <<>>
    /\ notices = {}

\* What is shown is of the project shown: however reads, looks, writes and
\* detections end after the user went to another project (the drops in reload,
\* refresh_migration and write_next), no snapshot or migration of another
\* project is ever in the store.
ShownIsActive ==
    /\ store.snapshot # None => store.snapshot.project = store.active
    /\ store.migration # None => store.migration.snapshot.project = store.active

\* An operation is written for the project it was asked for: one that waits in
\* the queue while the user goes to another project, or back, is never written
\* into that project's folder (queue_migration, write_next).
WritesOwnProject ==
    store.write # None => store.write.op.of = store.write.snapshot.project

\* Nothing waits in the queue while no write is under way (write_next is called
\* wherever a write ends or an operation comes).
QueueServed == store.queue # <<>> => store.write # None

\* "Migrations and the to-dos ticked are written one at a time, in the order
\* asked": the operation written is always one asked after the one before.
WritesInOrder == [][written' # written => written' > written]_written

\* Once nothing is under way, the project shown has been read since its files
\* last changed: no change told during a read, a debounce or while another
\* project was shown is lost (reload_pending, schedule_reload, set_active).
ReadUpToDate ==
    Quiescent /\ store.active # None =>
        /\ store.snapshot # None
        /\ store.snapshot.files = files[store.active]

\* Once nothing is under way, the project shown was read with the metadata
\* folders it is to be read with (reload, set_metadata_folders, pinned).
ReadWithItsRoots ==
    Quiescent /\ store.snapshot # None => store.snapshot.roots = RootsOf(store, store.active)

\* Once nothing is under way, the migration shown is the one of the snapshot
\* shown into the folder chosen, and the project was read with the metadata
\* folders it keeps to (refresh_migration, write_next's stale check).
MigrationSettled ==
    Quiescent /\ store.snapshot # None =>
        /\ store.migration # None
        /\ store.migration.snapshot.id = store.snapshot.id
        /\ store.migration.folder = MigrationFolder(store)
        /\ ~MetadataDiffers(store.migration)

\* ... and it says what the folder's state file says.
MigrationFresh ==
    Quiescent /\ store.snapshot # None /\ MigrationFolder(store) \in Watched =>
        /\ store.migration # None
        /\ store.migration.found = disk[store.migration.folder]

\* The store comes to rest: pinning metadata folders, reading again and
\* looking again never chase each other for ever.
Settles == <>[]Quiescent

\* Every operation asked is carried out in the end, in the order asked.
EveryOpWritten == <>[](written = asked)
=============================================================================
