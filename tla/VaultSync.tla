----------------------------- MODULE VaultSync ------------------------------
(***************************************************************************)
(* The vault watcher (apps/writer-tauri/src/lib/vaultWatcher.ts) and its   *)
(* echo filter (knownDiskHashes in lib/vault.ts), on top of the save path  *)
(* of DocFlush: files also change from outside, the operating system       *)
(* reports every change, the program's own ones included, and each report  *)
(* is read back, compared with what the file is believed to hold, and      *)
(* turned into a reload, a conflict, a new, a moved or a removed note.     *)
(*                                                                         *)
(* Each report is handled by an asynchronous flow of its own; its awaits   *)
(* are the steps below, in any order with those of the other flows, of the *)
(* pass and of the user.  Equal reports that are still undelivered are one.*)
(***************************************************************************)
EXTENDS DocFlush

CONSTANTS
    Outside,        \* what other programs do: a subset of "write" (in place),
                    \* "replace" (by an atomic rename), "delete", "create",
                    \* "move"
    OutsideBodies,  \* the bodies they write
    OwnKinds,       \* how the system reports an atomic write of our own
    MaxOutside      \* bound: changes made by other programs

Kinds == {"data", "rename", "create", "remove"}

ASSUME OutsideAssumption ==
    /\ Outside \subseteq {"write", "replace", "delete", "create", "move"}
    /\ OutsideBodies \subseteq Bodies
    /\ OwnKinds \subseteq Kinds /\ OwnKinds # {}
    /\ MaxOutside \in Nat

VARIABLES
    belief,    \* knownDiskHashes: path -> body, or Missing (no entry)
    events,    \* undelivered reports [kind, at]
    checks,    \* reports whose file has been read back [kind, at, seen]
    legs,      \* paths of rename reports whose existence is being asked
    reads,     \* reloads reading their file [note, from, reopen]
    loads,     \* reloads about to be applied [note, body, reopen]
    adds,      \* paths of appeared files being read
    matches,   \* appeared files and the open note they belong to [at, note]
    removing,  \* pendingRemove: slug -> the path reported gone, or NoPath
    retired,   \* slugs that have left the catalog
    tabs,      \* openSlugs: notes with a tab; others are open in the background
    outside,   \* number of outside changes so far
    reloaded    \* history: slugs reloaded in the middle of their own write

flowVars == <<checks, legs, reads, loads, adds, matches, removing, retired>>
syncVars == <<belief, events, flowVars, tabs, outside, reloaded>>
vaultVars  == <<vars, syncVars>>

SyncInit ==
    /\ Init
    /\ belief = [p \in Paths |-> Missing]
    /\ events = {} /\ checks = {} /\ legs = {} /\ reads = {} /\ loads = {}
    /\ adds = {} /\ matches = {} /\ retired = {} /\ outside = 0 /\ reloaded = {}
    /\ tabs = {}
    /\ removing = [s \in Slugs |-> NoPath]

NotesAt(p) == {s \in Slugs : path[s] = p}

-----------------------------------------------------------------------------
(* Other programs *)

Report(kind, p) == [kind |-> kind, at |-> p]

ChangeOutside(how, files, reports) ==
    /\ how \in Outside /\ outside < MaxOutside
    /\ outside' = outside + 1
    /\ disk' = files
    /\ events' = events \cup reports
    /\ UNCHANGED <<docVars, markVars, lastWritten, saved, flagVars, queued,
                   passVars, belief, flowVars, tabs, reloaded>>

OutsideStep ==
    \E p \in Paths, b \in OutsideBodies :
        \/ /\ disk[p] \notin {Missing, b}
           /\ ChangeOutside("write", [disk EXCEPT ![p] = b],
                            {Report("data", p)})
        \/ /\ disk[p] \notin {Missing, b}
           /\ ChangeOutside("replace", [disk EXCEPT ![p] = b],
                            {Report("rename", p)})
        \/ /\ disk[p] # Missing
           /\ ChangeOutside("delete", [disk EXCEPT ![p] = Missing],
                            {Report("remove", p)})
        \/ /\ disk[p] = Missing
           /\ ChangeOutside("create", [disk EXCEPT ![p] = b],
                            {Report("create", p)})
        \/ \E q \in Paths :
             /\ disk[p] # Missing /\ disk[q] = Missing
             /\ ChangeOutside("move",
                    [disk EXCEPT ![q] = disk[p], ![p] = Missing],
                    {Report("rename", p), Report("rename", q)})

-----------------------------------------------------------------------------
(* The program's own file operations, seen by the echo filter *)

\* noteDiskContent: the belief is in place before the write.
NoteContent ==
    /\ NoteWrite
    /\ belief' = [belief EXCEPT ![Target] = curBody]
    /\ UNCHANGED <<events, flowVars, tabs, outside, reloaded>>

WriteContent ==
    /\ CommitWrite
    /\ \E k \in OwnKinds : events' = events \cup {Report(k, Target)}
    /\ UNCHANGED <<belief, flowVars, tabs, outside, reloaded>>

\* renameVaultFile: the belief moves along with the file.
RenameContent ==
    /\ MoveFile
    /\ belief' = [belief EXCEPT ![Target] = disk[lastWritten[cur]],
                                ![lastWritten[cur]] = Missing]
    /\ events' = events \cup {Report("rename", lastWritten[cur]),
                              Report("rename", Target)}
    /\ UNCHANGED <<flowVars, tabs, outside, reloaded>>

\* A note that is created, or shown in the editor, has a tab, which stays; the
\* agent's reads and edits open a note without one.
TabsFollow ==
    /\ \E shown \in SUBSET (Opened' \cap Known') : tabs' = tabs \cup shown
    /\ \A s \in Slugs : path[s] = NoPath /\ path'[s] # NoPath => s \in tabs'
    /\ active' # active => active' \in tabs' \cup {NoSlug}

\* Everything else the editor does.  Conflicts come from the watcher here, and
\* a slug that has left the catalog is never used again.
OtherStep ==
    /\ \/ UserStep /\ TabsFollow
       \/ /\ \/ \E s \in Slugs : Hydrate(s) \/ LoopStep(s)
             \/ FlushTick \/ ProbeOld \/ CheckTarget \/ Compare \/ Settle
             \/ EndPass \/ WriteFails
          /\ UNCHANGED tabs
    /\ conflict' \subseteq conflict
    /\ \A r \in reads \cup loads : r.reopen => conflict' = conflict
    /\ \A s \in retired : path'[s] = NoPath
    /\ reloaded' = IF cur' = cur THEN reloaded ELSE reloaded \ {cur'}
    /\ UNCHANGED <<belief, events, flowVars, outside>>

OwnStep == NoteContent \/ WriteContent \/ RenameContent \/ OtherStep

-----------------------------------------------------------------------------
(* Reports *)

SaveFrame == UNCHANGED <<docVars, markVars, fileVars, flagVars, queued, passVars>>

\* isDiskContentKnown reads the file.
ReadBack(e) ==
    /\ Yielded /\ e \in events
    /\ events' = events \ {e}
    /\ checks' = checks \cup {[kind |-> e.kind, at |-> e.at,
                               seen |-> disk[e.at]]}
    /\ SaveFrame
    /\ UNCHANGED <<belief, legs, reads, loads, adds, matches, removing,
                   retired, tabs, outside, reloaded>>

\* handleExternalReload: content has changed in place.  An open note is in
\* conflict if it has unsaved edits, and reloaded if it has none.
HandleExternalReload(p) ==
    /\ \/ /\ NotesAt(p) \subseteq Opened => NotesAt(p) = {}
          /\ UNCHANGED <<conflict, reads>>
       \/ \E s \in NotesAt(p) \cap Opened \cap dirty :
             conflict' = conflict \cup {s} /\ UNCHANGED reads
       \/ \E s \in (NotesAt(p) \cap Opened) \ dirty :
             /\ reads' = reads \cup {[note |-> s, from |-> p, reopen |-> FALSE]}
             /\ UNCHANGED conflict
    /\ UNCHANGED <<legs, adds, removing>>

\* handleExternalAdd: a path of the catalog is no news.
HandleExternalAdd(p) ==
    /\ adds' = IF NotesAt(p) = {} THEN adds \cup {p} ELSE adds
    /\ UNCHANGED <<conflict, reads, removing>>

\* handleExternalRemove: the removal falls due 150 ms later.
HandleExternalRemove(p) ==
    /\ \/ NotesAt(p) = {} /\ UNCHANGED removing
       \/ \E s \in NotesAt(p) : removing' = [removing EXCEPT ![s] = p]
    /\ UNCHANGED <<conflict, reads, adds>>

Dispatch(kind, p) ==
    \/ kind = "data" /\ HandleExternalReload(p)
    \/ kind = "create" /\ HandleExternalAdd(p) /\ UNCHANGED legs
    \/ kind = "remove" /\ HandleExternalRemove(p) /\ UNCHANGED legs
    \/ /\ kind = "rename" /\ legs' = legs \cup {p}
       /\ UNCHANGED <<conflict, reads, adds, removing>>

\* A file that holds what it is believed to hold is no news; otherwise what it
\* holds becomes the belief.
CompareSeen(c) ==
    /\ Yielded /\ c \in checks
    /\ checks' = checks \ {c}
    /\ IF c.seen # Missing /\ belief[c.at] = c.seen
       THEN UNCHANGED <<belief, conflict, legs, reads, adds, removing>>
       ELSE /\ belief' = [belief EXCEPT ![c.at] = c.seen]
            /\ Dispatch(c.kind, c.at)
    /\ UNCHANGED <<docVars, markVars, fileVars, fails, queued, passVars,
                   events, loads, matches, retired, tabs, outside, reloaded>>

\* Mutant: the two legs of a rename are taken for each other.
RenameLegSwapped(p) ==
    /\ Yielded /\ p \in legs
    /\ legs' = legs \ {p}
    /\ \/ disk[p] = Missing /\ HandleExternalAdd(p)
       \/ disk[p] # Missing /\ HandleExternalRemove(p)
    /\ UNCHANGED <<docVars, markVars, fileVars, fails, queued, passVars,
                   belief, events, checks, loads, matches, retired, tabs, outside, reloaded>>

\* handleExternalRename: a rename names one path; is it the new or the old one?
RenameLeg(p) ==
    /\ Yielded /\ p \in legs
    /\ legs' = legs \ {p}
    /\ \/ disk[p] # Missing /\ HandleExternalAdd(p)
       \/ disk[p] = Missing /\ HandleExternalRemove(p)
    /\ UNCHANGED <<docVars, markVars, fileVars, fails, queued, passVars,
                   belief, events, checks, loads, matches, retired, tabs, outside, reloaded>>

-----------------------------------------------------------------------------
(* Reloads *)

\* The user takes the version on disk: reload first, then resolve.
Reopen(s) ==
    /\ Yielded /\ s \in conflict
    /\ \A r \in reads \cup loads : ~(r.reopen /\ r.note = s)
    /\ reads' = reads \cup {[note |-> s, from |-> path[s], reopen |-> TRUE]}
    /\ SaveFrame
    /\ UNCHANGED <<belief, events, checks, legs, loads, adds, matches,
                   removing, retired, tabs, outside, reloaded>>

\* reloadFromVault keeps what it has when the file is missing; the conflict is
\* resolved all the same.
ReloadRead(r) ==
    /\ Yielded /\ r \in reads
    /\ reads' = reads \ {r}
    /\ IF disk[r.from] = Missing
       THEN /\ loads' = loads
            /\ conflict' = IF r.reopen THEN conflict \ {r.note} ELSE conflict
       ELSE /\ loads' = loads \cup {[note |-> r.note, body |-> disk[r.from],
                                     reopen |-> r.reopen]}
            /\ UNCHANGED conflict
    /\ UNCHANGED <<docVars, markVars, fileVars, fails, queued, passVars,
                   belief, events, checks, legs, adds, matches, removing,
                   retired, tabs, outside, reloaded>>

ReloadFrame(r) ==
    /\ conflict' = IF r.reopen THEN conflict \ {r.note} ELSE conflict
    /\ UNCHANGED <<disk, lastWritten, fails, queued, passVars, belief, events,
                   checks, legs, reads, adds, matches, removing, retired,
                   tabs, outside>>

\* Mutant: the new body reaches the mirror and not the mounted editor.
ReloadApplyMirrorOnly(r) ==
    /\ Yielded /\ r \in loads /\ handle[r.note] # "loading"
    /\ loads' = loads \ {r}
    /\ handle' = [handle EXCEPT ![r.note] = "ready"]
    /\ mirror' = [mirror EXCEPT ![r.note] = r.body]
    /\ ClearDirty(r.note)
    /\ saved' = [saved EXCEPT ![r.note] = r.body]
    /\ reloaded' = IF cur = r.note THEN reloaded \cup {cur} ELSE reloaded
    /\ UNCHANGED <<path, loadPath, active, buffer>>
    /\ ReloadFrame(r)

\* updateDocBody with an external source: the disk wins.  ensureHandle gives a
\* note that has left the catalog meanwhile an empty, dirty handle again.
ReloadApply(r) ==
    /\ Yielded /\ r \in loads /\ handle[r.note] # "loading"
    /\ loads' = loads \ {r}
    /\ handle' = [handle EXCEPT ![r.note] = "ready"]
    /\ \/ /\ Live(r.note) = r.body
          /\ IF handle[r.note] = "none" THEN MarkDirty(r.note)
             ELSE UNCHANGED markVars
          /\ UNCHANGED <<mirror, buffer, saved, reloaded>>
       \/ /\ Live(r.note) # r.body
          /\ mirror' = [mirror EXCEPT ![r.note] = r.body]
          /\ buffer' = IF active = r.note THEN r.body ELSE buffer
          /\ ClearDirty(r.note)
          /\ saved' = [saved EXCEPT ![r.note] = r.body]
          /\ reloaded' = IF cur = r.note THEN reloaded \cup {cur} ELSE reloaded
    /\ UNCHANGED <<path, loadPath, active>>
    /\ ReloadFrame(r)

-----------------------------------------------------------------------------
(* Files that appear and disappear *)

\* findMovedOpenDocSlug: an open note whose mirror equals a non-empty body.
SameBody(p) ==
    {s \in Opened : disk[p] \notin {Missing, EmptyBody} /\ mirror[s] = disk[p]}

AddMatch(p) ==
    /\ Yielded /\ p \in adds
    /\ adds' = adds \ {p}
    /\ \/ SameBody(p) = {} /\ matches' = matches \cup {[at |-> p, note |-> NoSlug]}
       \/ \E s \in SameBody(p) :
              matches' = matches \cup {[at |-> p, note |-> s]}
    /\ SaveFrame
    /\ UNCHANGED <<belief, events, checks, legs, reads, loads, removing,
                   retired, tabs, outside, reloaded>>

\* The open note follows its file ...
FollowMove(m) ==
    /\ m.note # NoSlug
    /\ removing' = [removing EXCEPT ![m.note] = NoPath]
    /\ path' = IF path[m.note] = NoPath THEN path
               ELSE [path EXCEPT ![m.note] = m.at]

\* ... or a new note joins the catalog.
AddNote(m) ==
    /\ m.note = NoSlug
    /\ \E s \in Slugs \ retired :
          /\ path[s] = NoPath /\ handle[s] = "none"
          /\ path' = [path EXCEPT ![s] = m.at]
    /\ UNCHANGED removing

AddApply(m) ==
    /\ Yielded /\ m \in matches
    /\ matches' = matches \ {m}
    /\ FollowMove(m) \/ AddNote(m)
    /\ UNCHANGED <<handle, loadPath, mirror, active, buffer, markVars, fileVars,
                   flagVars, queued, passVars, belief, events, checks, legs,
                   reads, loads, adds, retired, tabs, outside, reloaded>>

\* closeDoc: the handle goes, and with it the mirror, the mark and the tab.
CloseDoc(s) ==
    /\ handle' = [handle EXCEPT ![s] = "none"]
    /\ loadPath' = [loadPath EXCEPT ![s] = NoPath]
    /\ mirror' = [mirror EXCEPT ![s] = EmptyBody]
    /\ dirty' = IF handle[s] = "none" THEN dirty ELSE dirty \ {s}
    /\ tabs' = tabs \ {s}

LeaveOpen == UNCHANGED <<handle, loadPath, mirror, dirty, tabs>>

LeaveCatalog(s) ==
    /\ path' = [path EXCEPT ![s] = NoPath]
    /\ retired' = retired \cup {s}
    /\ IF s \in tabs THEN CloseDoc(s) ELSE LeaveOpen

\* Mutant: the conflict is left to closeDoc.
RemoveKnownDocKeepsConflict(s) ==
    /\ LeaveCatalog(s)
    /\ conflict' = IF s \in tabs THEN conflict \ {s} ELSE conflict

\* removeKnownDoc closes the note if it has a tab, and drops its conflict.  One
\* that is open in the background keeps its handle, its mirror and its mark,
\* until the next pass drops the mark.
RemoveKnownDoc(s) ==
    /\ LeaveCatalog(s)
    /\ conflict' = conflict \ {s}

\* The timer re-checks the path, never the file.
RemoveDue(s) ==
    /\ Yielded /\ removing[s] # NoPath
    /\ removing' = [removing EXCEPT ![s] = NoPath]
    /\ IF path[s] = removing[s]
       THEN RemoveKnownDoc(s)
       ELSE UNCHANGED <<path, conflict, retired>> /\ LeaveOpen
    /\ UNCHANGED <<active, buffer, gen, fileVars, fails, queued, passVars,
                   belief, events, checks, legs, reads, loads, adds, matches,
                   outside, reloaded>>

-----------------------------------------------------------------------------

WatcherStep ==
    \/ \E e \in events : ReadBack(e)
    \/ \E c \in checks : CompareSeen(c)
    \/ \E p \in legs : RenameLeg(p)
    \/ \E r \in reads : ReloadRead(r)
    \/ \E r \in loads : ReloadApply(r)
    \/ \E p \in adds : AddMatch(p)
    \/ \E m \in matches : AddApply(m)
    \/ \E s \in Slugs : RemoveDue(s)

SyncNext ==
    \/ OutsideStep
    \/ OwnStep
    \/ WatcherStep
    \/ \E s \in Slugs : Reopen(s)

SyncSpec == SyncInit /\ [][SyncNext]_vaultVars

-----------------------------------------------------------------------------

\* removeKnownDoc drops the conflict of a note that goes, with a tab or open in the
\* background, "so no stale entry lingers in the conflict set" (handlesSlice), and no
\* handler that is under way raises one on it later: whatever is in conflict is open
\* and in the catalog.  The flush skips who is in conflict, so the mark of a note
\* that is gone would stand for ever, and ask about it at every quit.
ConflictIsOpen == conflict \subseteq Opened \cap Known

\* clearDirtyIfUnchanged under reloads, conflicts, moves and removals: an open
\* note that is not dirty shows what was last read from or written to its file,
\* unless a reload has landed in the middle of its own write.
EditsKeptUnlessCrossed ==
    \A s \in Known \ reloaded :
        handle[s] = "ready" /\ s \notin dirty => Live(s) = saved[s]

\* "Own writes are dropped via isDiskContentKnown()" (vaultWatcher): as long as
\* nobody else changes a file, the reports of the program's own writes cause no
\* conflict, no reload and no removal.
OwnWritesQuiet ==
    outside = 0 => conflict = {} /\ retired = {} /\ reads \cup loads = {}
=============================================================================
