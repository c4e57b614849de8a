------------------------------ MODULE Catalog ------------------------------
(***************************************************************************)
(* Folders and the trash: the catalog operations that change files         *)
(* themselves instead of leaving them to the next pass                     *)
(* (state/docsStore: relocateFolder, behind renameFolder and moveFolder;   *)
(* deleteToTrash; deleteFolder), on top of the save path of DocFlush,      *)
(* which keeps running between their awaits.                               *)
(*                                                                         *)
(* Folders do not nest, every note is a generic note (the refusals for     *)
(* other types change nothing), and one operation runs at a time.  Tabs,   *)
(* conflicts and what the watcher makes of a renamed directory are left    *)
(* out.                                                                    *)
(***************************************************************************)
EXTENDS DocFlush

CONSTANTS
    Folders,      \* vault-relative paths of folders
    Names,        \* file names
    NoFolder,
    Operations,   \* what the user does: a subset of "relocate", "trash",
                  \* "trash folder"
    MaxJobs       \* bound: operations

ASSUME FoldersAssumption ==
    /\ Paths = Folders \X Names
    /\ NoFolder \notin Folders
    /\ MaxJobs \in Nat

VARIABLES
    knownFolders,  \* the folders the tree shows
    job,           \* the operation under way: what it is, where it stands,
                   \* the folder and the notes it is about
    jobs,          \* number of operations so far
    dead,          \* slugs that have left the catalog: never used again
    crossed,       \* history: an operation took files that were being loaded,
                   \* written or moved, or a note was given a path where a file
                   \* of another may be
    reused         \* history: notes whose generation a delete has reset while
                   \* a pass held it

catVars == <<knownFolders, job, jobs, dead, crossed, reused>>
catalogVars == <<vars, catVars>>

NoJob == [op |-> "none", at |-> "done", from |-> NoFolder, to |-> NoFolder,
          notes |-> {}, files |-> {}]

At(op, at) == job.op = op /\ job.at = at
Step(at) == job' = [job EXCEPT !.at = at]

Files(f) == {f} \X Names
NotesIn(f) == {s \in Known : path[s] \in Files(f)}
Rebase(p, f) == <<f, p[2]>>

\* There is a note that the stale-path guard does not protect when the files at
\* these paths go away: a pass or a load is at work on it there, or its file has
\* still to be written there or to be moved here or away.
Exposed(files) ==
    \E s \in Slugs :
        \/ s \in todo \cup {cur} /\ {snapPath[s], path[s]} \cap files # {}
        \/ loadPath[s] \in files
        \/ path[s] \notin {NoPath, lastWritten[s]}
              /\ {path[s], lastWritten[s]} \cap files # {}

\* The path is free in the catalog, but a file is there or may yet be put there.
Haunted(s, p) ==
    \/ disk[p] # Missing
    \/ \E t \in Slugs \ {s} : p \in {lastWritten[t], snapPath[t]}

CatInit ==
    /\ Init
    /\ knownFolders \in SUBSET Folders
    /\ \A s \in Known : path[s][1] \in knownFolders
    /\ job = NoJob /\ jobs = 0 /\ dead = {}
    /\ crossed = FALSE /\ reused = {}

PassFrame == UNCHANGED <<queued, passVars>>

MayStart(op) ==
    /\ Yielded /\ op \in Operations /\ job = NoJob
    /\ jobs < MaxJobs /\ jobs' = jobs + 1

-----------------------------------------------------------------------------
(* relocateFolder *)

\* The new name is one that no known folder has.  Flush first; the call returns
\* at once when a pass is in flight.
RelocateFolder(f, g) ==
    /\ MayStart("relocate") /\ f \in knownFolders /\ g \notin knownFolders
    /\ job' = [NoJob EXCEPT !.op = "relocate", !.from = f, !.to = g,
                            !.notes = NotesIn(f), !.files = Files(f),
                            !.at = IF pc = "idle" THEN "flush" ELSE "rename"]
    /\ UNCHANGED <<docVars, markVars>>
    /\ RequestFlush
    /\ UNCHANGED <<fileVars, flagVars>>
    /\ UNCHANGED <<knownFolders, dead, crossed, reused>>

\* One rename of the directory.  It fails over a directory with files.
RenameDirectory ==
    /\ Yielded /\ At("relocate", "rename")
    /\ \/ /\ \A q \in Files(job.to) : disk[q] = Missing
          /\ disk' = [p \in Paths |->
                         CASE p \in Files(job.to)   -> disk[Rebase(p, job.from)]
                           [] p \in Files(job.from) -> Missing
                           [] OTHER                 -> disk[p]]
          /\ crossed' = (crossed \/ Exposed(job.files))
          /\ Step("rewrite")
       \/ disk' = disk /\ crossed' = crossed /\ job' = NoJob
    /\ UNCHANGED <<docVars, markVars, lastWritten, saved, flagVars>> /\ PassFrame
    /\ UNCHANGED <<knownFolders, jobs, dead, reused>>

\* These notes follow the directory, and so does what the pass believes of
\* their files.
Follow(notes) ==
    /\ Yielded /\ At("relocate", "rewrite")
    /\ path' = [s \in Slugs |-> IF s \in notes THEN Rebase(path[s], job.to)
                                ELSE path[s]]
    /\ lastWritten' =
           [s \in Slugs |-> IF s \in notes THEN path'[s] ELSE lastWritten[s]]
    /\ knownFolders' = (knownFolders \ {job.from}) \cup {job.to}
    /\ crossed' = (crossed \/ Exposed(job.files))
    /\ job' = NoJob
    /\ UNCHANGED <<handle, loadPath, mirror, active, buffer, markVars, disk,
                   saved, flagVars>> /\ PassFrame
    /\ UNCHANGED <<jobs, dead, reused>>

\* Mutant: the notes that follow are those of the time of the call.
RewriteCatalogAsCalled == Follow(job.notes)

\* The catalog is read again: notes that came in during the awaits follow too.
RewriteCatalog == Follow(NotesIn(job.from))

-----------------------------------------------------------------------------
(* deleteToTrash and deleteFolder *)

\* The marks go first, lest a pass write what is about to be trashed.
StartTrash(op, f, notes, files) ==
    /\ MayStart(op)
    /\ job' = [NoJob EXCEPT !.op = op, !.at = "trash", !.from = f,
                            !.notes = notes, !.files = files]
    /\ dirty' = dirty \ notes
    /\ gen' = [s \in Slugs |-> IF s \in notes THEN 0 ELSE gen[s]]
    /\ reused' = reused \cup (notes \cap {cur})
    /\ UNCHANGED <<docVars, fileVars, flagVars>> /\ PassFrame
    /\ UNCHANGED <<knownFolders, dead, crossed>>

DeleteToTrash(s) ==
    s \in Known /\ StartTrash("trash", NoFolder, {s}, {path[s]})

DeleteFolder(f) ==
    f \in knownFolders /\ StartTrash("trash folder", f, NotesIn(f), Files(f))

MoveToTrash ==
    /\ Yielded /\ job.at = "trash"
    /\ disk' = [p \in Paths |-> IF p \in job.files THEN Missing ELSE disk[p]]
    /\ crossed' = (crossed \/ Exposed(job.files))
    /\ Step("teardown")
    /\ UNCHANGED <<docVars, markVars, lastWritten, saved, flagVars>> /\ PassFrame
    /\ UNCHANGED <<knownFolders, jobs, dead, reused>>

\* Mutant: a failed delete leaves the notes as if they were saved.
TrashFailsSilently ==
    /\ Yielded /\ job.at = "trash"
    /\ job' = NoJob
    /\ UNCHANGED vars
    /\ UNCHANGED <<knownFolders, jobs, dead, crossed, reused>>

\* "Re-mark dirty so any unsaved edits still flush."
TrashFails ==
    /\ Yielded /\ job.at = "trash"
    /\ \A s \in job.notes : gen[s] < MaxGen
    /\ dirty' = dirty \cup job.notes
    /\ gen' = [s \in Slugs |-> IF s \in job.notes THEN gen[s] + 1 ELSE gen[s]]
    /\ job' = NoJob
    /\ UNCHANGED <<docVars, fileVars, flagVars>> /\ PassFrame
    /\ UNCHANGED <<knownFolders, jobs, dead, crossed, reused>>

\* The function, with this value for the notes of the job.
Reset(f, v) == [s \in Slugs |-> IF s \in job.notes THEN v ELSE f[s]]

\* The notes leave the catalog; destroying a handle takes its mark, but not its
\* generation.
TearDown ==
    /\ Yielded /\ job.at = "teardown"
    /\ path' = Reset(path, NoPath) /\ handle' = Reset(handle, "none")
    /\ loadPath' = Reset(loadPath, NoPath) /\ mirror' = Reset(mirror, EmptyBody)
    /\ dirty' = dirty \ (job.notes \cap Opened)
    /\ dead' = dead \cup job.notes
    /\ knownFolders' = knownFolders \ {job.from}
    /\ crossed' = (crossed \/ Exposed(job.files) \/ cur \in job.notes)
    /\ job' = NoJob
    /\ UNCHANGED <<active, buffer, gen, fileVars, flagVars>> /\ PassFrame
    /\ UNCHANGED <<jobs, reused>>

-----------------------------------------------------------------------------
(* Everything else.  Notes are created in, and moved to, folders of the    *)
(* tree.                                                                   *)

CatalogStep ==
    /\ \/ UserStep \/ FlushTick \/ PassStep \/ WriteFails
       \/ \E s \in Slugs : Hydrate(s)
    /\ \A s \in Slugs : path'[s] # path[s] =>
           s \notin dead /\ path'[s][1] \in knownFolders
    /\ job' = IF At("relocate", "flush") /\ pc' = "idle"
              THEN [job EXCEPT !.at = "rename"] ELSE job
    /\ crossed' = (\/ crossed
                   \/ \E s \in Slugs :
                         /\ path'[s] # path[s]
                         /\ \/ Haunted(s, path'[s])
                            \/ /\ job.at \in {"rewrite", "trash", "teardown"}
                               /\ {path[s], path'[s]} \cap job.files # {}
                   \/ /\ job.at \in {"rewrite", "teardown"}
                      /\ \E s \in Slugs : loadPath'[s] \in job.files)
    /\ UNCHANGED <<conflict, knownFolders, jobs, dead, reused>>

JobStep ==
    \/ \E f \in Folders :
         \/ DeleteFolder(f)
         \/ \E g \in Folders : RelocateFolder(f, g)
    \/ \E s \in Slugs : DeleteToTrash(s)
    \/ RenameDirectory \/ RewriteCatalog
    \/ MoveToTrash \/ TrashFails \/ TearDown

CatNext == CatalogStep \/ JobStep

CatSpec == CatInit /\ [][CatNext]_catalogVars

-----------------------------------------------------------------------------

\* A note that shows what its file does not hold keeps its mark, or gets it back
\* ("re-mark dirty so any unsaved edits still flush"): the pass takes the mark of a
\* note that was open when it began only when what the note shows has been saved,
\* whatever is moved, relocated or trashed meanwhile; a delete takes it at its call,
\* and returns it when it fails.  Exempt are notes that the delete tears down, and
\* those whose generation began anew while the pass held it.
MarksAccountedFor ==
    [][\A s \in Slugs \ (reused \cup dead') :
          handle[s] = "ready" /\ Live(s) # saved'[s] =>
              /\ s \in dirty \cap snapOpen
                    => s \in dirty' \cup (job'.notes \ job.notes)
              /\ s \in job.notes /\ job.at = "trash" /\ job' = NoJob
                    => s \in dirty']_catalogVars

\* "A failed trash must never leave the catalog and disk disagreeing"
\* (archiveSlice), "a stray flush would otherwise recreate the old folder"
\* (relocateFolder), "a concurrent flush tick can't re-persist the file we're about
\* to trash" (deleteToTrash).  Between two operations every file is the file of a
\* note of the catalog, where the catalog, the rename tracker or the running pass
\* has it; and a note of the catalog, open or not, whose file is believed to be
\* where the catalog has it does have its file there, or the stale-path guard would
\* hold back its edits for good.  Exempt are histories in which an operation took
\* files that were being loaded, written or moved, or a note was given a path where
\* another note's file may still be.
CatalogMatchesDisk ==
    ~crossed /\ job = NoJob =>
        /\ \A p \in Paths : disk[p] # Missing =>
               \E s \in Known : p \in {path[s], lastWritten[s], snapPath[s]}
        /\ \A s \in Known \ {cur} :
               lastWritten[s] = path[s] => disk[path[s]] # Missing
=============================================================================
