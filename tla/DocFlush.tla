------------------------------ MODULE DocFlush ------------------------------
(***************************************************************************)
(* The save path of the editor: which notes have unsaved edits, and the    *)
(* single-flight pass that writes them to the vault                        *)
(* (apps/writer-tauri/src/lib/docFileSync.ts), together with the callers   *)
(* that make a note dirty: opening it, hydrating it from disk, typing in   *)
(* the mounted editor, replacing its body, moving it to another folder.    *)
(*                                                                         *)
(* JavaScript runs each stretch of code between two awaits without         *)
(* interruption.  The pass decides on one note per step, but gives way to  *)
(* the rest of the program only where it awaits a file operation: never    *)
(* while pc = "loop" (see Yielded).  Only this program writes the files    *)
(* here: VaultSync adds external writers and the file watcher.             *)
(*                                                                         *)
(* A body is a member of a small set; the frontmatter block around it, the *)
(* dead `.meta.json` branches (usesFrontmatter is constantly true) and the *)
(* cache invalidations are left out.                                       *)
(***************************************************************************)
EXTENDS Naturals, FiniteSets

CONSTANTS
    Slugs,        \* documents (ephemeral per-boot ids)
    Paths,        \* vault-relative paths of `.md` files
    Bodies,       \* possible bodies of a note
    EmptyBody,    \* the empty string
    UserBodies,   \* the bodies that edits and body replacements produce
    NoSlug,       \* no editor is mounted / the pass is between two notes
    NoPath,       \* no catalog entry / never written
    Missing,      \* there is no file at a path
    MoveScope,    \* which notes the user moves: "none", "open" or "any"
    ReadFaults,   \* TRUE if reading a note while opening it may fail
    MaxGen,       \* bound: edits of a note between two clean states
    MaxFails      \* bound: consecutive write failures of a note

ASSUME SetsAssumption ==
    /\ EmptyBody \in Bodies
    /\ UserBodies \subseteq Bodies
    /\ NoSlug \notin Slugs
    /\ NoPath \notin Paths
    /\ Missing \notin Bodies

ASSUME BoundsAssumption ==
    /\ MoveScope \in {"none", "open", "any"}
    /\ ReadFaults \in BOOLEAN
    /\ MaxGen \in Nat
    /\ MaxFails \in Nat

VARIABLES
    disk,         \* the vault: path -> body or Missing
    path,         \* catalog: slug -> where its file belongs, or NoPath
    handle,       \* slug -> "none", "loading" or "ready"
    loadPath,     \* slug -> the path its body load was started on
    mirror,       \* slug -> handle.bodyMarkdown, the cached body
    active,       \* slug of the mounted editor, or NoSlug
    buffer,       \* the text in the mounted editor
    dirty,        \* dirtySlugs
    gen,          \* dirtyGeneration (0: no entry)
    lastWritten,  \* lastWrittenPath (NoPath: no entry)
    conflict,     \* slugs in the external-conflict registry
    fails,        \* saveFailureStore: slug -> length of its failure streak
    queued,       \* flushQueued
    pc,           \* where the flush pass stands ("idle": none is running)
    todo,         \* slugs of the pass's snapshot still to visit
    snapPath,     \* the pass's snapshot of the catalog
    snapOpen,     \* the pass's snapshot of the slugs that have a handle
    cur,          \* the note being written
    curGen,       \* its captured generation
    curBody,      \* its serialized body
    saved         \* history: slug -> the body last loaded from or written to
                  \* its file

docVars  == <<path, handle, loadPath, mirror, active, buffer>>
markVars == <<dirty, gen>>
snapVars == <<todo, snapPath, snapOpen>>
curVars  == <<cur, curGen, curBody>>
passVars == <<pc, snapVars, curVars>>
fileVars == <<disk, lastWritten, saved>>
flagVars == <<conflict, fails>>
vars == <<docVars, markVars, fileVars, flagVars, queued, passVars>>

Known    == {s \in Slugs : path[s] # NoPath}
Opened   == {s \in Slugs : handle[s] # "none"}
Taken(s) == {path[t] : t \in Slugs \ {s}}

\* What the user sees: the live editor when one is mounted on the note,
\* the mirror otherwise.
Live(s) == IF active = s THEN buffer ELSE mirror[s]

-----------------------------------------------------------------------------
(* Dirty tracking and the start of a pass *)

MarkDirty(s) ==
    /\ gen[s] < MaxGen
    /\ dirty' = dirty \cup {s}
    /\ gen' = [gen EXCEPT ![s] = @ + 1]

ClearDirty(s) ==
    /\ dirty' = dirty \ {s}
    /\ gen' = [gen EXCEPT ![s] = 0]

StartPass ==
    /\ pc' = "loop"
    /\ todo' = dirty'
    /\ snapPath' = path'
    /\ snapOpen' = {s \in Slugs : handle'[s] # "none"}
    /\ UNCHANGED curVars

\* The pass is not in the middle of a stretch without an await.
Yielded == pc # "loop"

\* The pass is busy with one note, whose file belongs at Target.
Working == pc \notin {"idle", "loop"}
Target  == snapPath[cur]

\* flushDirty: at most one pass; a request during a pass asks for one more.
RequestFlush ==
    \/ pc = "idle" /\ StartPass /\ UNCHANGED queued
    \/ pc # "idle" /\ queued' = TRUE /\ UNCHANGED passVars

-----------------------------------------------------------------------------
(* Boot: the scan fills the catalog and seeds the rename tracker.  No note *)
(* has a handle yet.                                                       *)

Init ==
    /\ path \in [Slugs -> Paths \cup {NoPath}]
    /\ \A s \in Known : path[s] \notin Taken(s)
    /\ disk \in [Paths -> Bodies \cup {Missing}]
    /\ \A p \in Paths : disk[p] # Missing <=> \E s \in Slugs : path[s] = p
    /\ lastWritten = path
    /\ handle = [s \in Slugs |-> "none"]
    /\ loadPath = [s \in Slugs |-> NoPath]
    /\ mirror = [s \in Slugs |-> EmptyBody]
    /\ active = NoSlug /\ buffer = EmptyBody
    /\ dirty = {} /\ gen = [s \in Slugs |-> 0]
    /\ conflict = {} /\ fails = [s \in Slugs |-> 0] /\ queued = FALSE
    /\ pc = "idle" /\ todo = {} /\ snapOpen = {}
    /\ snapPath = [s \in Slugs |-> NoPath]
    /\ cur = NoSlug /\ curGen = 0 /\ curBody = EmptyBody
    /\ saved = [s \in Slugs |-> EmptyBody]

-----------------------------------------------------------------------------
(* Opening, hydrating, mounting, editing *)

\* ensureHandle on a note of the catalog; installDocSync marks it dirty.
EnsureHandle(s) ==
    /\ path[s] # NoPath /\ handle[s] = "none"
    /\ handle' = [handle EXCEPT ![s] = "loading"]
    /\ loadPath' = [loadPath EXCEPT ![s] = path[s]]
    /\ mirror' = [mirror EXCEPT ![s] = EmptyBody]
    /\ MarkDirty(s)
    /\ UNCHANGED <<path, active, buffer, fileVars, flagVars, queued,
                   passVars>>

\* A new catalog entry with its handle, marked dirty twice: by ensureHandle
\* and by the code that creates it.
AddOpenDoc(s, p) ==
    /\ path[s] = NoPath /\ handle[s] = "none" /\ p \notin Taken(s)
    /\ path' = [path EXCEPT ![s] = p]
    /\ handle' = [handle EXCEPT ![s] = "loading"]
    /\ loadPath' = [loadPath EXCEPT ![s] = p]
    /\ gen[s] + 2 <= MaxGen
    /\ dirty' = dirty \cup {s}
    /\ gen' = [gen EXCEPT ![s] = @ + 2]
    /\ UNCHANGED <<active, buffer>>

\* createNew: forces the empty note to disk at once.
CreateNew(s, p) ==
    /\ AddOpenDoc(s, p)
    /\ mirror' = [mirror EXCEPT ![s] = EmptyBody]
    /\ RequestFlush
    /\ UNCHANGED <<fileVars, flagVars>>

\* createWritingChild: the first line is seeded into the mirror.
CreateSeeded(s, p, seed) ==
    /\ AddOpenDoc(s, p)
    /\ mirror' = [mirror EXCEPT ![s] = seed]
    /\ UNCHANGED <<fileVars, flagVars, queued, passVars>>

\* The load started by buildHandle settles: a missing file and a failed read
\* both become the empty body, and either way the note is ready.
Hydrate(s) ==
    /\ Yielded /\ handle[s] = "loading"
    /\ handle' = [handle EXCEPT ![s] = "ready"]
    /\ \/ mirror' = [mirror EXCEPT ![s] =
              IF disk[loadPath[s]] = Missing THEN EmptyBody
              ELSE disk[loadPath[s]]]
       \/ ReadFaults /\ mirror' = [mirror EXCEPT ![s] = EmptyBody]
    /\ loadPath' = [loadPath EXCEPT ![s] = NoPath]
    /\ saved' = [saved EXCEPT ![s] = mirror'[s]]
    /\ UNCHANGED <<path, active, buffer, markVars, disk, lastWritten,
                   flagVars, queued, passVars>>

\* CmEditor mounts once contentReady has resolved.
Mount(s) ==
    /\ handle[s] = "ready" /\ active = NoSlug
    /\ active' = s /\ buffer' = mirror[s]
    /\ UNCHANGED <<path, handle, loadPath, mirror, markVars, fileVars,
                   flagVars, queued, passVars>>

\* The unmount checkpoint: copy the text to the mirror, ask for a flush.
Unmount(s) ==
    /\ active = s
    /\ mirror' = IF handle[s] = "none" THEN mirror
                 ELSE [mirror EXCEPT ![s] = buffer]
    /\ active' = NoSlug /\ buffer' = EmptyBody
    /\ UNCHANGED <<path, handle, loadPath, markVars>>
    /\ RequestFlush
    /\ UNCHANGED <<fileVars, flagVars>>

Edit(s, b) ==
    /\ active = s /\ b # buffer
    /\ buffer' = b
    /\ MarkDirty(s)
    /\ UNCHANGED <<path, handle, loadPath, mirror, active, fileVars,
                   flagVars, queued, passVars>>

\* updateDocBody with a local source (AI accept, ingest, seedDocBody).
ReplaceBody(s, b) ==
    /\ handle[s] = "ready" /\ s \notin conflict /\ b # Live(s)
    /\ mirror' = [mirror EXCEPT ![s] = b]
    /\ buffer' = IF active = s THEN b ELSE buffer
    /\ MarkDirty(s)
    /\ UNCHANGED <<path, handle, loadPath, active, fileVars, flagVars,
                   queued, passVars>>

\* moveDocToFolder: the catalog path changes at once, the file is left to
\* the flush.  Nothing requires the note to be open.
MoveDocToFolder(s, p) ==
    /\ path[s] # NoPath /\ p # path[s] /\ p \notin Taken(s)
    /\ \/ MoveScope = "any"
       \/ MoveScope = "open" /\ handle[s] # "none"
    /\ path' = [path EXCEPT ![s] = p]
    /\ MarkDirty(s)
    /\ UNCHANGED <<handle, loadPath, mirror, active, buffer>>
    /\ RequestFlush
    /\ UNCHANGED <<fileVars, flagVars>>

\* The watcher found an open dirty note changed on disk / the user keeps the
\* local version.
MarkConflict(s) ==
    /\ handle[s] # "none" /\ s \in dirty /\ s \notin conflict
    /\ conflict' = conflict \cup {s}
    /\ UNCHANGED <<docVars, markVars, fileVars, fails, queued, passVars>>

DismissConflict(s) ==
    /\ s \in conflict
    /\ conflict' = conflict \ {s}
    /\ UNCHANGED <<docVars, markVars, fileVars, fails, queued, passVars>>

-----------------------------------------------------------------------------
(* The pass (flushDirtyOnce).  One note at a time; every await is a step.  *)

\* The 500 ms timer, window blur and visibility change.
FlushTick ==
    /\ Yielded
    /\ UNCHANGED <<docVars, markVars>>
    /\ RequestFlush
    /\ UNCHANGED <<fileVars, flagVars>>

AtNote(s) == pc = "loop" /\ s \in todo /\ todo' = todo \ {s}

\* Mutant: the body is serialized while it is still loading.
WritableLoading(s) == /\ s \notin conflict
                      /\ snapPath[s] # NoPath
                      /\ s \in snapOpen

Writable(s) == /\ s \notin conflict
               /\ snapPath[s] # NoPath
               /\ s \in snapOpen
               /\ handle[s] = "ready"

SkipConflicted(s) ==
    /\ AtNote(s) /\ s \in conflict
    /\ UNCHANGED <<docVars, markVars, fileVars, flagVars, queued, pc,
                   snapPath, snapOpen, curVars>>

\* Unknown to the snapshot, or without a handle in it: nothing to write.
DropUnopened(s) ==
    /\ AtNote(s) /\ s \notin conflict
    /\ snapPath[s] = NoPath \/ s \notin snapOpen
    /\ ClearDirty(s)
    /\ UNCHANGED <<docVars, fileVars, flagVars, queued, pc, snapPath,
                   snapOpen, curVars>>

\* serializeDocToFiles refuses a note whose body is still loading.
SkipLoading(s) ==
    /\ AtNote(s) /\ s \notin conflict
    /\ snapPath[s] # NoPath /\ s \in snapOpen /\ handle[s] # "ready"
    /\ UNCHANGED <<docVars, markVars, fileVars, flagVars, queued, pc,
                   snapPath, snapOpen, curVars>>

\* Capture the generation, serialize, then await the first file operation.
BeginNote(s) ==
    /\ AtNote(s) /\ Writable(s)
    /\ cur' = s /\ curGen' = gen[s] /\ curBody' = Live(s)
    /\ pc' = CASE lastWritten[s] = NoPath      -> "compare"
               [] lastWritten[s] = snapPath[s] -> "guard"
               [] OTHER                        -> "probe"
    /\ UNCHANGED <<docVars, markVars, fileVars, flagVars, queued, snapPath,
                   snapOpen>>

Goto(label) ==
    /\ pc' = label
    /\ UNCHANGED <<snapVars, curVars>>

LeaveNote ==
    /\ pc' = "loop" /\ cur' = NoSlug /\ curGen' = 0 /\ curBody' = EmptyBody
    /\ UNCHANGED snapVars

\* Rename-on-change: is the file still where it was last written?
ProbeOld ==
    /\ pc = "probe"
    /\ Goto(IF disk[lastWritten[cur]] = Missing THEN "compare" ELSE "rename")
    /\ UNCHANGED <<docVars, markVars, fileVars, flagVars, queued>>

MoveFile ==
    /\ pc = "rename" /\ disk[lastWritten[cur]] # Missing
    /\ disk' = [disk EXCEPT ![Target] = disk[lastWritten[cur]],
                            ![lastWritten[cur]] = Missing]
    /\ Goto("compare")
    /\ UNCHANGED <<docVars, markVars, lastWritten, saved, flagVars, queued>>

\* The stale-path guard: a vanished file defers the note to a later pass.
CheckTarget ==
    /\ pc = "guard"
    /\ \/ disk[Target] = Missing /\ LeaveNote
       \/ disk[Target] # Missing /\ Goto("compare")
    /\ UNCHANGED <<docVars, markVars, fileVars, flagVars, queued>>

\* fileContentEquals; a failed read back falls through to the write.
Compare ==
    /\ pc = "compare"
    /\ \/ disk[Target] = curBody /\ Goto("settle")
       \/ (disk[Target] # curBody \/ ReadFaults) /\ Goto("note")
    /\ UNCHANGED <<docVars, markVars, fileVars, flagVars, queued>>

\* writeVaultFile: create the parent folder and record what the file is about
\* to hold ...
NoteWrite ==
    /\ pc = "note"
    /\ Goto("commit")
    /\ UNCHANGED <<docVars, markVars, fileVars, flagVars, queued>>

\* ... then write a sibling temporary file and rename it over the target.
CommitWrite ==
    /\ pc = "commit"
    /\ disk' = [disk EXCEPT ![Target] = curBody]
    /\ Goto("settle")
    /\ UNCHANGED <<docVars, markVars, lastWritten, saved, flagVars, queued>>

\* The note is on disk.  Clear its dirty mark only if no edit has landed
\* since the generation was captured.
ClearDirtyIfUnchanged(s, g) ==
    IF gen[s] = g THEN ClearDirty(s) ELSE UNCHANGED markVars

\* Mutant: the generation is captured after the write instead of before it.
SettleLateCapture ==
    /\ pc = "settle"
    /\ lastWritten' = [lastWritten EXCEPT ![cur] = Target]
    /\ ClearDirtyIfUnchanged(cur, gen[cur])
    /\ saved' = [saved EXCEPT ![cur] = curBody]
    /\ LeaveNote
    /\ UNCHANGED <<docVars, disk, flagVars, queued>>

Settle ==
    /\ pc = "settle"
    /\ lastWritten' = [lastWritten EXCEPT ![cur] = Target]
    /\ ClearDirtyIfUnchanged(cur, curGen)
    /\ saved' = [saved EXCEPT ![cur] = curBody]
    /\ LeaveNote
    /\ UNCHANGED <<docVars, disk, flagVars, queued>>

\* Mutant: the catch clause does not report the failure.
WriteFailsSilently ==
    /\ pc \in {"probe", "rename", "guard", "note", "commit"}
    /\ fails[cur] < MaxFails
    /\ LeaveNote
    /\ UNCHANGED <<docVars, markVars, fileVars, flagVars, queued>>

\* Mutant: the mark goes whether or not the operations succeed.
WriteFailsForgets ==
    /\ pc \in {"probe", "rename", "guard", "note", "commit"}
    /\ fails[cur] < MaxFails
    /\ fails' = [fails EXCEPT ![cur] = @ + 1]
    /\ ClearDirty(cur)
    /\ LeaveNote
    /\ UNCHANGED <<docVars, fileVars, conflict, queued>>

\* Any awaited operation of the note may throw; the note stays dirty.
WriteFails ==
    /\ pc \in {"probe", "rename", "guard", "note", "commit"}
    /\ fails[cur] < MaxFails
    /\ fails' = [fails EXCEPT ![cur] = @ + 1]
    /\ LeaveNote
    /\ UNCHANGED <<docVars, markVars, fileVars, conflict, queued>>

PassOver == /\ pc' = "idle" /\ todo' = {} /\ snapOpen' = {}
            /\ snapPath' = [s \in Slugs |-> NoPath] /\ UNCHANGED curVars

\* Mutant: flushInProgress stays set after the last pass.
EndPassKeepsFlag ==
    /\ pc = "loop" /\ todo = {} /\ queued
    /\ fails' = [s \in Slugs |-> IF s \in dirty THEN fails[s] ELSE 0]
    /\ queued' = FALSE
    /\ UNCHANGED <<docVars, markVars>>
    /\ StartPass
    /\ UNCHANGED <<fileVars, conflict>>

\* Prune the failures of notes that are clean by now; run again if asked to.
EndPass ==
    /\ pc = "loop" /\ todo = {}
    /\ fails' = [s \in Slugs |-> IF s \in dirty THEN fails[s] ELSE 0]
    /\ queued' = FALSE
    /\ UNCHANGED <<docVars, markVars>>
    /\ \/ queued /\ StartPass
       \/ ~queued /\ PassOver
    /\ UNCHANGED <<fileVars, conflict>>

-----------------------------------------------------------------------------

UserStep ==
    /\ Yielded
    /\ \/ \E s \in Slugs :
             \/ EnsureHandle(s) \/ Mount(s) \/ Unmount(s)
             \/ MarkConflict(s) \/ DismissConflict(s)
       \/ \E s \in Slugs, b \in UserBodies : Edit(s, b) \/ ReplaceBody(s, b)
       \/ \E s \in Slugs, p \in Paths : MoveDocToFolder(s, p) \/ CreateNew(s, p)
       \/ \E s \in Slugs, p \in Paths, b \in UserBodies :
             CreateSeeded(s, p, b)

LoopStep(s) ==
    SkipConflicted(s) \/ DropUnopened(s) \/ SkipLoading(s) \/ BeginNote(s)

FileStep ==
    ProbeOld \/ MoveFile \/ CheckTarget \/ Compare \/ NoteWrite \/ CommitWrite

PassStep ==
    /\ pc # "idle"
    /\ (\E s \in Slugs : LoopStep(s)) \/ FileStep \/ Settle \/ EndPass

Next ==
    \/ UserStep
    \/ \E s \in Slugs : Hydrate(s)
    \/ FlushTick
    \/ PassStep
    \/ WriteFails

Spec == Init /\ [][Next]_vars

\* The interval timer keeps firing, started file operations return, and a
\* started load settles: strong fairness, because a load that has come back
\* waits for the running stretch of the pass only.  Nothing is assumed of the
\* user or of write faults.
FairSpec ==
    /\ Spec
    /\ WF_vars(FlushTick)
    /\ WF_vars(PassStep)
    /\ \A s \in Slugs : SF_vars(Hydrate(s))

-----------------------------------------------------------------------------

\* Every variable stays in its domain, and whatever is awaited is defined: a
\* load has a path to read, a pass in the middle of a note has the note, its
\* target and, if it renames, the old path.
TypeOK ==
    /\ disk \in [Paths -> Bodies \cup {Missing}]
    /\ path \in [Slugs -> Paths \cup {NoPath}]
    /\ handle \in [Slugs -> {"none", "loading", "ready"}]
    /\ loadPath \in [Slugs -> Paths \cup {NoPath}]
    /\ mirror \in [Slugs -> Bodies]
    /\ active \in Slugs \cup {NoSlug} /\ buffer \in Bodies
    /\ dirty \subseteq Slugs /\ gen \in [Slugs -> Nat]
    /\ lastWritten \in [Slugs -> Paths \cup {NoPath}]
    /\ conflict \subseteq Slugs
    /\ fails \in [Slugs -> Nat]
    /\ queued \in BOOLEAN
    /\ pc \in {"idle", "loop", "probe", "rename", "guard", "compare", "note",
               "commit", "settle"}
    /\ todo \subseteq Slugs /\ snapOpen \subseteq Slugs
    /\ snapPath \in [Slugs -> Paths \cup {NoPath}]
    /\ cur \in Slugs \cup {NoSlug} /\ curGen \in Nat /\ curBody \in Bodies
    /\ saved \in [Slugs -> Bodies]
    /\ \A s \in Slugs : handle[s] = "loading" => loadPath[s] \in Paths
    /\ Working => cur \in Slugs /\ Target \in Paths
    /\ pc \in {"probe", "rename"} => lastWritten[cur] \in Paths

\* clearDirtyIfUnchanged, and the comment above dirtyGeneration: no edit is
\* "silently never written".  A note that is open and not dirty shows exactly
\* the body that was last loaded from, or written to, its file.
CleanMeansSaved ==
    \A s \in Slugs : handle[s] = "ready" /\ s \notin dirty => Live(s) = saved[s]

\* The pass has captured a note: its edits since then, and only they, have
\* moved its generation past the captured one.
CapturedIsLive ==
    Working =>
        /\ cur \in dirty \ todo
        /\ handle[cur] = "ready"
        /\ curGen <= gen[cur]
        /\ gen[cur] = curGen => curBody = Live(cur)

\* Unless notes without a handle are moved: whatever is dirty is open, so a
\* pass never clears a mark that a user of the note is waiting for.
DirtyIsOpen ==
    /\ dirty \subseteq Opened /\ todo \subseteq snapOpen \cap dirty
    /\ \A s \in Opened : path[s] # NoPath
    /\ \A s \in todo : snapPath[s] # NoPath
    /\ \A s \in Slugs : handle[s] = "loading" => s \in dirty
    /\ active # NoSlug => handle[active] = "ready"
    /\ pc = "idle" => todo = {}

\* Why CleanMeansSaved survives every step: the inductive invariant behind it.
FlushInv == CleanMeansSaved /\ CapturedIsLive /\ DirtyIsOpen

\* The same on disk: the file of a clean open note holds what the user sees.
DiskCurrent ==
    \A s \in Slugs :
        handle[s] = "ready" /\ s \notin dirty => disk[path[s]] = Live(s)

\* serializeDocToFiles and the "Daniel.md 0-byte incident" it recalls: when
\* nobody empties a note, no flush turns a file with content into an empty one.
NeverWiped ==
    [][\A p \in Paths : disk[p] \notin {Missing, EmptyBody}
                            => disk'[p] # EmptyBody]_disk

\* The end of flushDirtyOnce keeps "failures \subseteq dirty": between passes
\* the save-failure toast never names a note that has nothing left to save.
FailuresAreDirty ==
    pc = "idle" => \A s \in Slugs : fails[s] > 0 => s \in dirty

\* flushDirty's contract: an unsaved note reaches the disk by the timer alone,
\* unless an unresolved conflict holds it back.
EventuallySaved ==
    \A s \in Slugs : s \in dirty ~> (s \notin dirty \/ s \in conflict)
=============================================================================
