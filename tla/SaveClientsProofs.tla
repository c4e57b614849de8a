------------------------- MODULE SaveClientsProofs -------------------------
(***************************************************************************)
(* Proofs about what builds on the save path, for any number of notes and  *)
(* paths.  GitSync: commits are transparent to the save path, whose        *)
(* promise about edits therefore holds under them; a change that is not    *)
(* committed is noted; and a commit that started the flush it awaits       *)
(* stages every edit made before its call.  AppQuit: a quit whose flushes  *)
(* met no pass in flight ends with every edit made before it written.      *)
(* Catalog: no mark of an unsaved note is lost to folder operations and    *)
(* the trash, which keep the catalog and the files together, as long as no *)
(* write fails; and the pass overwrites no file of another note.           *)
(* VaultSync: conflicts belong to open notes of the catalog; no edit loses *)
(* its mark before it is saved, unless a reload lands in the middle of its *)
(* write; and the program's own writes are no news to it, if they are      *)
(* reported as renames or creations.                                       *)
(*                                                                         *)
(* Commits and quits await a flush for the same reason.  Both owe edits,   *)
(* each a note and a generation, until a pass has settled the note at that *)
(* generation or the note is in conflict.  What the steps of the save path *)
(* make of such a debt is said once (Marked, Ahead).                       *)
(***************************************************************************)
EXTENDS GitSync, AppQuit, Catalog, VaultSync, DocFlushProofs, SequenceTheorems

-----------------------------------------------------------------------------
(* Debts                                                                     *)

\* The note s has an edit of generation g or later that has not been saved.
Marked(s, g) == s \in dirty \ conflict /\ handle[s] = "ready" /\ gen[s] >= g

\* The pass has still to come to s, or holds it with such an edit.
Ahead(s, g) == s \in todo \/ (Working /\ cur = s /\ curGen >= g)

\* The step saves such an edit.
Saves(s, g) == Settle /\ s = cur /\ curGen >= g

\* A file that has been written is there, when nothing is moved.
FilesStay ==
    /\ \A s \in Slugs : lastWritten[s] # NoPath => disk[lastWritten[s]] # Missing
    /\ pc = "guard" => disk[Target] # Missing

\* The catalog is what the scan found.
LEMMA FilesInit == Init => FilesStay
BY DEF Init, FilesStay

\* Notes are not moved, so a file that is there stays.
LEMMA FilesNext ==
    ASSUME MoveScope = "none", TypeOK, DiskInv, FilesStay, [Next]_vars
    PROVE  FilesStay'
<1> USE DEF FilesStay, TypeOK
<1>2. CASE UserStep \/ FlushTick \/ UNCHANGED vars \/ \E s \in Slugs : Hydrate(s)
  <2>1. UNCHANGED <<disk, lastWritten>>
    BY <1>2 DEF UserStep, FlushTick, EnsureHandle, Mount, Unmount, MarkConflict, Hydrate,
       DismissConflict, Edit, ReplaceBody, MoveDocToFolder, CreateNew, CreateSeeded,
       fileVars, vars
  <2>2. RequestFlush \/ UNCHANGED passVars
    BY <1>2 DEF UserStep, FlushTick, EnsureHandle, Mount, Unmount, MarkConflict, Hydrate,
       DismissConflict, Edit, ReplaceBody, MoveDocToFolder, CreateNew, CreateSeeded, vars
  <2>3. pc' = "guard" => pc = "guard" /\ UNCHANGED Target
    BY <2>2 DEF RequestFlush, StartPass, passVars, snapVars, curVars, Target
  <2> QED BY <2>1, <2>3
<1>3. ASSUME NEW s \in Slugs, LoopStep(s) PROVE FilesStay'
  <2>1. UNCHANGED <<disk, lastWritten, snapPath>>
    BY <1>3 DEF LoopStep, SkipConflicted, DropUnopened, SkipLoading, BeginNote, fileVars
  <2>2. pc' = "guard" => Target' # NoPath /\ Target' = lastWritten[cur'] /\ cur' \in Slugs
    BY <1>3 DEF LoopStep, SkipConflicted, DropUnopened, SkipLoading, BeginNote, AtNote,
       Writable, Target
  <2> QED BY <2>1, <2>2
<1>4. CASE ProbeOld \/ MoveFile
  BY <1>4 DEF ProbeOld, MoveFile, DiskInv, PassInPlace
<1>5. CASE CheckTarget \/ Compare \/ NoteWrite \/ WriteFails
  <2>1. UNCHANGED <<disk, lastWritten>> /\ pc' # "guard"
    BY <1>5 DEF CheckTarget, Compare, NoteWrite, WriteFails, Goto, LeaveNote, fileVars
  <2> QED BY <2>1
<1>6. CASE CommitWrite
  <2>1. /\ UNCHANGED lastWritten /\ pc' # "guard" /\ Target \in Paths
        /\ disk' = [disk EXCEPT ![Target] = curBody] /\ curBody \in Bodies
    BY <1>6 DEF CommitWrite, Goto, Working
  <2> QED BY <2>1, SetsAssumption
<1>7. CASE Settle
  <2>1. /\ lastWritten' = [lastWritten EXCEPT ![cur] = Target] /\ pc' # "guard"
        /\ UNCHANGED disk /\ cur \in Slugs
    BY <1>7 DEF Settle, LeaveNote, Working
  <2>2. disk[Target] # Missing
    BY <1>7, SetsAssumption DEF Settle, DiskInv, PassInPlace
  <2> QED BY <2>1, <2>2
<1>8. CASE EndPass
  BY <1>8 DEF EndPass, StartPass, PassOver, fileVars
<1> QED BY <1>2, <1>3, <1>4, <1>5, <1>6, <1>7, <1>8 DEF Next, PassStep, FileStep

\* What is owed stays marked: a settled note that is still owed has been edited
\* since its generation was captured.
LEMMA OwedStays ==
    ASSUME Inv, MoveScope # "any", [Next]_vars, NEW s \in Slugs, NEW g \in Nat,
           Marked(s, g), s \notin conflict', ~Saves(s, g)
    PROVE  Marked(s, g)'
<1> USE DEF Inv, TypeOK
<1>1. s \in dirty /\ handle[s] = "ready" /\ gen[s] >= g /\ ~(Settle /\ s = cur /\ curGen >= g)
  BY DEF Marked, Saves
<1>2. /\ handle'[s] = "ready" /\ s \in dirty' /\ gen'[s] >= gen[s]
  <2>1. CASE UserStep
    BY <1>1, <2>1
       DEF UserStep, EnsureHandle, Mount, Unmount, MarkConflict, DismissConflict, Edit,
           ReplaceBody, MoveDocToFolder, CreateNew, CreateSeeded, AddOpenDoc, MarkDirty,
           docVars, markVars
  <2>2. ASSUME NEW t \in Slugs, Hydrate(t)
        PROVE  handle'[s] = "ready" /\ s \in dirty' /\ gen'[s] >= gen[s]
    BY <1>1, <2>2 DEF Hydrate, markVars
  <2>3. CASE FlushTick \/ FileStep \/ EndPass \/ WriteFails \/ UNCHANGED vars
    BY <1>1, <2>3 DEF FlushTick, FileStep, ProbeOld, MoveFile, CheckTarget, Compare,
       NoteWrite, CommitWrite, EndPass, WriteFails, docVars, markVars, vars
  <2>4. ASSUME NEW t \in Slugs, LoopStep(t)
        PROVE  handle'[s] = "ready" /\ s \in dirty' /\ gen'[s] >= gen[s]
    <3>1. ~DropUnopened(t)
      BY DEF DropUnopened, AtNote, FlushInv, DirtyIsOpen
    <3> QED BY <1>1, <2>4, <3>1
            DEF LoopStep, SkipConflicted, SkipLoading, BeginNote, docVars, markVars
  <2>5. CASE Settle
    <3>1. s = cur => gen[cur] # curGen
      BY <1>1, <2>5
    <3>2. UNCHANGED handle /\ (UNCHANGED markVars \/ (ClearDirty(cur) /\ gen[cur] = curGen))
      BY <2>5 DEF Settle, ClearDirtyIfUnchanged, docVars
    <3> QED BY <1>1, <3>1, <3>2 DEF ClearDirty, markVars
  <2> QED BY <2>1, <2>2, <2>3, <2>4, <2>5 DEF Next, PassStep
<1>3. gen' \in [Slugs -> Nat]
  BY TypeNext DEF Next
<1> QED BY <1>1, <1>2, <1>3 DEF Marked

\* A note that is marked and has failed is failing until it is saved.
LEMMA FailureStays ==
    ASSUME TypeOK, [Next]_vars, NEW s \in dirty, fails[s] > 0
    PROVE  fails'[s] > 0
<1> USE DEF TypeOK
<1>1. UNCHANGED fails \/ WriteFails \/ EndPass
  BY DEF Next, UserStep, FlushTick, EnsureHandle, Mount, Unmount, MarkConflict,
     DismissConflict, Edit, ReplaceBody, MoveDocToFolder, CreateNew, CreateSeeded,
     Hydrate, PassStep, FileStep, ProbeOld, MoveFile, CheckTarget, Compare, NoteWrite,
     CommitWrite, Settle, LoopStep, SkipConflicted, DropUnopened, SkipLoading,
     BeginNote, flagVars, vars
<1>2. CASE WriteFails
  BY <1>2 DEF WriteFails
<1>3. CASE EndPass
  BY <1>3 DEF EndPass
<1> QED BY <1>1, <1>2, <1>3

\* A pass comes to every note it has ahead, and leaves it saved, in conflict,
\* failed or, when its file is gone, put off.
LEMMA AheadEnds ==
    ASSUME MoveScope # "any", Inv, [Next]_vars,
           NEW s \in Slugs, NEW g \in Nat,
           Marked(s, g), s \notin conflict', ~Saves(s, g), ~Defers(s), Ahead(s, g)
    PROVE  fails'[s] > 0 \/ Ahead(s, g)'
<1> USE DEF Inv, TypeOK, Ahead
<1>1. /\ s \in dirty \ conflict /\ handle[s] = "ready" /\ gen[s] >= g
      /\ ~(Settle /\ s = cur /\ curGen >= g)
  BY DEF Marked, Saves
<1>2. pc # "idle"
  BY DEF Working, FlushInv, DirtyIsOpen
<1>3. CASE UserStep \/ FlushTick \/ UNCHANGED vars \/ \E t \in Slugs : Hydrate(t)
  <2>1. RequestFlush \/ UNCHANGED passVars
    BY <1>3 DEF UserStep, FlushTick, EnsureHandle, Mount, Unmount, MarkConflict, Hydrate,
       DismissConflict, Edit, ReplaceBody, MoveDocToFolder, CreateNew, CreateSeeded, vars
  <2>2. UNCHANGED passVars
    BY <1>2, <2>1 DEF RequestFlush
  <2> QED BY <2>2 DEF passVars, snapVars, curVars, Working
<1>4. ASSUME NEW t \in Slugs, LoopStep(t)
      PROVE  Ahead(s, g)'
  <2>1. pc = "loop" /\ s \in todo /\ s \in snapOpen /\ snapPath[s] # NoPath
    BY <1>4 DEF LoopStep, SkipConflicted, DropUnopened, SkipLoading, BeginNote,
       AtNote, Working, FlushInv, DirtyIsOpen
  <2>2. AtNote(t) /\ (t = s => BeginNote(s))
    BY <1>1, <1>4, <2>1
       DEF LoopStep, SkipConflicted, DropUnopened, SkipLoading, BeginNote
  <2> QED BY <1>1, <2>1, <2>2 DEF AtNote, BeginNote, Working
<1>5. CASE FileStep \/ WriteFails
  <2>1. CASE LeaveNote /\ ~WriteFails
    <3>1. CheckTarget
      BY <1>5, <2>1 DEF FileStep, ProbeOld, MoveFile, Compare, NoteWrite, CommitWrite,
         Goto, LeaveNote
    <3>2. s # cur
      BY <2>1, <3>1 DEF Defers, LeaveNote
    <3> QED BY <2>1, <3>2 DEF LeaveNote, snapVars
  <2>2. CASE WriteFails
    BY <2>2 DEF WriteFails, LeaveNote, snapVars, Working
  <2>3. CASE pc' \notin {"idle", "loop"} /\ UNCHANGED <<snapVars, curVars>>
    BY <1>5, <2>3 DEF snapVars, curVars, Working, FileStep, ProbeOld, MoveFile,
       CheckTarget, Compare, NoteWrite, CommitWrite
  <2> QED BY <1>5, <2>1, <2>2, <2>3
          DEF FileStep, ProbeOld, MoveFile, CheckTarget, Compare, NoteWrite, CommitWrite,
              Goto
<1>6. CASE Settle
  BY <1>1, <1>6 DEF Settle, LeaveNote, snapVars
<1>7. CASE EndPass
  BY <1>7 DEF EndPass, Working
<1> QED BY <1>3, <1>4, <1>5, <1>6, <1>7 DEF Next, PassStep

\* When nothing is moved and no one else touches the files, none is put off.
LEMMA AheadStays ==
    ASSUME MoveScope = "none", Inv, DiskInv, FilesStay, [Next]_vars,
           NEW s \in Slugs, NEW g \in Nat,
           Marked(s, g), s \notin conflict', ~Saves(s, g), Ahead(s, g)
    PROVE  fails'[s] > 0 \/ Ahead(s, g)'
<1>1. CheckTarget => pc' # "loop"
  BY DEF CheckTarget, Goto, FilesStay
<1> QED BY <1>1, AheadEnds DEF Defers

-----------------------------------------------------------------------------
(* Commits                                                                   *)

\* Every step is one of the save path, or leaves it as it is.
LEMMA GitStepsFlush == [GitNext]_allVars => [Next]_vars
<1>1. EditorStep => Next
  BY DEF EditorStep, Next
<1>2. StartCommit => FlushTick
  BY DEF StartCommit, FlushTick
<1>3. \/ CommitChangesNow \/ TurnEnd \/ Flushed \/ Add \/ Commit \/ Land \/ Fail
      \/ UNCHANGED allVars
      => UNCHANGED vars
  BY DEF CommitChangesNow, TurnEnd, Flushed, Add, Commit, Land, Fail, DocFrame, allVars
<1> QED BY <1>1, <1>2, <1>3 DEF GitNext, GitStep, Next

\* The save path with commits is the save path: whoever commits asks for flushes
\* as the timer does.
THEOREM CommitsAreTransparent == GitSpec => Spec
<1>1. GitInit => Init
  BY DEF GitInit
<1> QED BY <1>1, GitStepsFlush, PTL DEF GitSpec, Spec

\* The flush that a commit forces on a busy save path loses the mark of no edit
\* (CleanMeansSaved).
THEOREM CommitsKeepEdits ==
    ASSUME MoveScope # "any"
    PROVE  GitSpec => []CleanMeansSaved
BY CommitsAreTransparent, EditsAreKept, PTL

-----------------------------------------------------------------------------
(* What is not committed is noted.  That some path is noted follows, when    *)
(* the commit is made, from what has happened since it staged: the changes   *)
(* are late, or their note is about to be made.                              *)

NotedInv ==
    /\ ChangesAreNoted
    /\ gitPc \in {"landed", "failed"} => head = index
    /\ Staged =>
          /\ \A p \in Paths : disk[p] # index[p] => p \in late \cup unnoted
          /\ late \cup unnoted # {} => dirtyPaths \cup unnoted # {}

LEMMA NotedInit == GitInit => NotedInv
BY DEF GitInit, NotedInv, ChangesAreNoted, Staged

\* Only a write and a rename change a file.
LEMMA FilesChange ==
    ASSUME EditorStep, ~CommitWrite, ~MoveFile
    PROVE  UNCHANGED disk
<1>1. ASSUME NEW s \in Slugs, Hydrate(s) \/ LoopStep(s)
      PROVE  UNCHANGED disk
  BY <1>1 DEF Hydrate, LoopStep, SkipConflicted, DropUnopened, SkipLoading, BeginNote,
     fileVars
<1>2. CASE UserStep
  BY <1>2 DEF UserStep, EnsureHandle, Mount, Unmount, MarkConflict, DismissConflict, Edit,
     ReplaceBody, MoveDocToFolder, CreateNew, CreateSeeded, fileVars
<1>3. CASE FlushTick \/ PassStep \/ WriteFails
  BY <1>1, <1>3 DEF FlushTick, PassStep, FileStep, ProbeOld, CheckTarget, Compare,
     NoteWrite, Settle, EndPass, WriteFails, fileVars
<1> QED BY <1>1, <1>2, <1>3 DEF EditorStep

\* A write leaves its path to be noted, a rename its new one; the path that the
\* file has left is late.
LEMMA NotedEditor ==
    ASSUME TypeOK, NotedInv, EditorStep
    PROVE  NotedInv'
<1> DEFINE noted == IF Resumes THEN unnoted ELSE {}
           moved == {p \in Paths : disk[p] # Missing /\ disk'[p] = Missing}
<1>1. /\ dirtyPaths' = dirtyPaths \cup noted
      /\ Staged => late' = late \cup noted \cup moved
      /\ unnoted' = IF CommitWrite \/ MoveFile THEN {Target} ELSE unnoted \ noted
      /\ UNCHANGED <<head, index, gitPc, strays>> /\ Staged' = Staged
  BY DEF EditorStep, Staged
<1>2. noted \subseteq unnoted
  OBVIOUS
<1>3. CASE CommitWrite \/ MoveFile
  <2>1. noted = unnoted /\ unnoted' = {Target}
    BY <1>1, <1>3 DEF Resumes, FileStep
  <2>2. \A p \in Paths : p # Target /\ disk'[p] # disk[p] => p \in moved
    <3>1. Target \in Paths /\ disk \in [Paths -> Bodies \cup {Missing}]
          /\ (MoveFile => lastWritten[cur] \in Paths)
      BY <1>3 DEF TypeOK, CommitWrite, MoveFile, Working
    <3>2. CASE CommitWrite
      BY <3>1, <3>2 DEF CommitWrite
    <3>3. CASE MoveFile
      BY <3>1, <3>3 DEF MoveFile
    <3> QED BY <1>3, <3>2, <3>3
  <2> HIDE DEF noted, moved
  <2>3. Staged => \A p \in Paths : disk'[p] # index[p] => p \in late' \cup unnoted'
    BY <1>1, <2>1, <2>2 DEF NotedInv
  <2> QED BY <1>1, <2>1, <2>3 DEF NotedInv, ChangesAreNoted
<1>4. CASE ~CommitWrite /\ ~MoveFile
  <2>1. UNCHANGED disk /\ moved = {}
    BY <1>4, FilesChange
  <2>2. unnoted' = unnoted \ noted
    BY <1>1, <1>4
  <2> HIDE DEF noted, moved
  <2>3. dirtyPaths' \cup unnoted' = dirtyPaths \cup unnoted
    BY <1>1, <1>2, <2>2
  <2>4. Staged => late' \cup unnoted' = late \cup unnoted
    BY <1>1, <1>2, <2>1, <2>2
  <2> QED BY <1>1, <2>1, <2>3, <2>4 DEF NotedInv, ChangesAreNoted
<1> QED BY <1>3, <1>4

\* A commit takes away the marks of its call only, and what has changed late under
\* one of them goes astray (the exemption).
LEMMA NotedGit ==
    ASSUME NotedInv, GitStep \/ CommitChangesNow \/ TurnEnd
    PROVE  NotedInv'
<1> USE DEF NotedInv, ChangesAreNoted, Staged
<1>1. disk' = disk
  BY DEF GitStep, StartCommit, Flushed, Add, Commit, Land, Fail, CommitChangesNow,
     TurnEnd, DocFrame, vars, fileVars
<1>2. CASE CommitChangesNow \/ TurnEnd
  BY <1>1, <1>2 DEF CommitChangesNow, TurnEnd
<1>3. CASE StartCommit \/ Flushed
  BY <1>1, <1>3 DEF StartCommit, Flushed
<1>4. CASE Add
  BY <1>1, <1>4 DEF Add
<1>5. CASE Commit
  BY <1>1, <1>5 DEF Commit
<1>6. CASE Land
  <2>1. /\ gitPc = "landed" /\ gitPc' = "free"
        /\ UNCHANGED <<head, unnoted>>
        /\ strays' = {p \in strays \cup (late \ dirtyPaths') : disk[p] # head[p]}
    BY <1>6 DEF Land, Release
  <2>2. \A p \in Paths : disk[p] # head[p] => p \in dirtyPaths' \cup unnoted' \cup strays'
    BY <2>1
  <2> QED BY <1>1, <2>1, <2>2
<1>7. CASE Fail
  BY <1>1, <1>7 DEF Fail, Release
<1> QED BY <1>2, <1>3, <1>4, <1>5, <1>6, <1>7 DEF GitStep

\* "A failed commit must leave the dirty set intact for retry" (gitStore.ts), and one
\* that succeeds must leave what it has not staged: as long as the vault differs from
\* the last commit, some path is noted, however commits, their failures, writes and
\* renames are interleaved (ChangesAreNoted).
THEOREM ChangesStayNoted == GitSpec => []ChangesAreNoted
<1>1. GitInit => TypeOK /\ NotedInv
  BY TypeInit, NotedInit DEF GitInit
<1>2. TypeOK /\ NotedInv /\ [GitNext]_allVars => (TypeOK /\ NotedInv)'
  <2> SUFFICES ASSUME TypeOK, NotedInv, [GitNext]_allVars PROVE (TypeOK /\ NotedInv)'
    OBVIOUS
  <2>1. TypeOK'
    BY GitStepsFlush, TypeNext
  <2>2. CASE UNCHANGED allVars
    BY <2>1, <2>2 DEF allVars, gitVars, vars, fileVars, NotedInv, ChangesAreNoted, Staged
  <2> QED BY <2>1, <2>2, NotedEditor, NotedGit DEF GitNext
<1>3. NotedInv => ChangesAreNoted
  BY DEF NotedInv
<1> QED BY <1>1, <1>2, <1>3, PTL DEF GitSpec

-----------------------------------------------------------------------------
(* A commit stages what was there.  The edits it owes stay marked with at    *)
(* least their generation until a pass has saved that generation; and a pass *)
(* that has been started for it either still has them ahead, or is at them,  *)
(* or has failed on them.                                                    *)

Calls == [paths : SUBSET Paths, owed : [Slugs -> Nat]]

Owes(c, s) == c.owed[s] > 0

OwedIsMarked ==
    \A i \in DOMAIN lock, s \in Slugs :
        Owes(lock[i], s) => Marked(s, lock[i].owed[s])

AheadOrFailed ==
    flushOwn /\ gitPc \in {"flushing", "adding"} =>
        \A s \in Slugs : Owes(Running, s) =>
            \/ fails[s] > 0
            \/ gitPc = "flushing" /\ Ahead(s, Running.owed[s])

LockInv ==
    /\ lock \in Seq(Calls) /\ flushOwn \in BOOLEAN
    /\ gitPc \in {"free", "flushing", "adding", "committing", "landed", "failed"}
    /\ gitPc # "free" => lock # <<>>

OwedInv == LockInv /\ FilesStay /\ OwedIsMarked /\ AheadOrFailed

LEMMA OwedInit == GitInit => OwedInv
<1> SUFFICES ASSUME GitInit PROVE OwedInv
  OBVIOUS
<1>1. lock = <<>> /\ gitPc = "free" /\ flushOwn = FALSE
  BY DEF GitInit
<1>2. DOMAIN lock = {} /\ lock \in Seq(Calls)
  BY <1>1, EmptySeq
<1>3. FilesStay
  BY FilesInit DEF GitInit
<1> QED BY <1>1, <1>2, <1>3 DEF OwedInv, LockInv, OwedIsMarked, AheadOrFailed

\* The calls that wait for the lock forget what has been saved or is in conflict.
LEMMA EditorLock ==
    ASSUME TypeOK, LockInv, EditorStep
    PROVE  /\ LockInv'
           /\ UNCHANGED <<gitPc, flushOwn>> /\ DOMAIN lock' = DOMAIN lock
           /\ \A i \in DOMAIN lock, s \in Slugs :
                 Owes(lock'[i], s) =>
                     /\ Owes(lock[i], s) /\ lock'[i].owed[s] = lock[i].owed[s]
                     /\ s \notin conflict'
                     /\ ~(Settle /\ s = cur /\ curGen >= lock[i].owed[s])
<1> DEFINE Left(i) == [s \in Slugs |->
                          IF \/ s \in conflict'
                             \/ Settle /\ s = cur /\ curGen >= lock[i].owed[s]
                          THEN 0 ELSE lock[i].owed[s]]
<1>1. /\ lock' = [i \in DOMAIN lock |-> [lock[i] EXCEPT !.owed = Left(i)]]
      /\ UNCHANGED <<gitPc, flushOwn>>
  BY DEF EditorStep
<1>2. \A i \in DOMAIN lock : lock[i] \in Calls
  BY DEF LockInv
<1>3. \A i \in DOMAIN lock : Left(i) \in [Slugs -> Nat]
  BY <1>2 DEF Calls
<1>4. \A i \in DOMAIN lock : \A s \in Slugs :
          Left(i)[s] > 0 => /\ lock[i].owed[s] > 0 /\ Left(i)[s] = lock[i].owed[s]
                            /\ s \notin conflict'
                            /\ ~(Settle /\ s = cur /\ curGen >= lock[i].owed[s])
  BY <1>2 DEF Calls
<1> HIDE DEF Left
<1>5. \A i \in DOMAIN lock : lock'[i] \in Calls /\ lock'[i].owed = Left(i)
  BY <1>1, <1>2, <1>3 DEF Calls
<1>6. /\ DOMAIN lock' = DOMAIN lock /\ lock' \in Seq(Calls)
      /\ (lock # <<>> => lock' # <<>>)
  <2>1. DOMAIN lock' = DOMAIN lock /\ lock' = [i \in DOMAIN lock |-> lock'[i]]
    BY <1>1
  <2>2. Len(lock) \in Nat /\ DOMAIN lock = 1..Len(lock)
    BY DEF LockInv
  <2>3. lock' \in Seq(Calls)
    BY <1>5, <2>1, <2>2, SeqDef
  <2> QED BY <2>1, <2>2, <2>3 DEF LockInv
<1> QED BY ZenonT(30), <1>1, <1>4, <1>5, <1>6 DEF LockInv, Owes

\* What commits owe stays marked.
LEMMA OwedEditor ==
    ASSUME MoveScope = "none", Inv, DiskInv, OwedInv, EditorStep
    PROVE  OwedIsMarked'
<1>1. SUFFICES ASSUME NEW i \in DOMAIN lock, NEW s \in Slugs, Owes(lock'[i], s)
               PROVE  Marked(s, lock[i].owed[s])'
  BY EditorLock DEF OwedIsMarked, OwedInv, Inv
<1>2. lock[i] \in Calls
  BY DEF OwedInv, LockInv
<1>3. PICK g \in Nat : g = lock[i].owed[s]
  BY <1>2 DEF Calls
<1>4. /\ lock'[i].owed[s] = g /\ s \notin conflict' /\ ~Saves(s, g) /\ Marked(s, g)
  BY <1>1, <1>3, EditorLock DEF OwedInv, OwedIsMarked, Saves, Inv
<1>5. Marked(s, g)'
  BY <1>4, OwedStays DEF EditorStep, Next
<1> QED BY <1>4, <1>5 DEF Marked

\* A pass that was started for a commit ends with every note it had ahead saved,
\* in conflict or failed; a further pass clears no failure of a marked note.
LEMMA AheadEditor ==
    ASSUME MoveScope = "none", Inv, DiskInv, OwedInv, EditorStep
    PROVE  AheadOrFailed'
<1>1. SUFFICES ASSUME flushOwn', gitPc' \in {"flushing", "adding"},
                      NEW s \in Slugs, Owes(Running', s)
               PROVE  \/ fails'[s] > 0
                      \/ gitPc' = "flushing" /\ Ahead(s, Running.owed[s])'
  BY DEF AheadOrFailed
<1>2. /\ gitPc' = gitPc /\ flushOwn' = flushOwn /\ DOMAIN lock' = DOMAIN lock
      /\ 1 \in DOMAIN lock /\ lock[1] \in Calls
  <2>1. lock # <<>> /\ lock \in Seq(Calls) /\ gitPc' = gitPc /\ flushOwn' = flushOwn
        /\ DOMAIN lock' = DOMAIN lock
    BY EditorLock, <1>1 DEF LockInv, OwedInv, Inv
  <2> QED BY <2>1, EmptySeq
<1>3. PICK g \in Nat : g = lock[1].owed[s]
  BY <1>2 DEF Calls
<1>4. /\ lock'[1].owed[s] = g /\ s \notin conflict' /\ ~Saves(s, g) /\ Marked(s, g)
      /\ fails[s] > 0 \/ (gitPc = "flushing" /\ Ahead(s, g))
  BY <1>1, <1>2, <1>3, EditorLock
     DEF OwedInv, OwedIsMarked, AheadOrFailed, Saves, Running, Inv
<1>5. fails'[s] > 0 \/ (gitPc = "flushing" /\ Ahead(s, g)')
  BY <1>4, AheadStays, FailureStays DEF EditorStep, Next, OwedInv, Marked, Inv
<1> QED BY <1>2, <1>4, <1>5 DEF Ahead, Running

\* A call owes what is marked and not in conflict.
LEMMA CallOwes ==
    ASSUME TypeOK, dirtyPaths \subseteq Paths
    PROVE  /\ Call \in Calls
           /\ \A s \in Slugs : Owes(Call, s) =>
                 /\ s \in dirty \ conflict /\ handle[s] = "ready"
                 /\ Call.owed[s] = gen[s]
<1>1. Unwritten \in [Slugs -> Nat]
  BY DEF Unwritten, TypeOK
<1>2. \A s \in Slugs : Unwritten[s] > 0 => /\ s \in dirty \ conflict /\ handle[s] = "ready"
                                           /\ Unwritten[s] = gen[s]
  BY DEF Unwritten
<1>3. Call.paths = dirtyPaths /\ Call.owed = Unwritten
  BY DEF Call
<1>4. Call \in Calls
  BY <1>1 DEF Call, Calls
<1> QED BY <1>2, <1>3, <1>4 DEF Owes

\* A new call joins the end of the queue.
LEMMA OwedCall ==
    ASSUME TypeOK, OwedInv, dirtyPaths \subseteq Paths, CommitChangesNow \/ TurnEnd
    PROVE  OwedIsMarked' /\ AheadOrFailed' /\ LockInv'
<1> USE DEF OwedInv
<1>1. /\ lock' = Append(lock, Call)
      /\ UNCHANGED <<dirty, conflict, handle, gen, fails, todo, pc, cur, curGen, gitPc,
                     flushOwn>>
  BY DEF CommitChangesNow, TurnEnd, RunCommit, DocFrame, vars, docVars, markVars, flagVars,
     passVars, snapVars, curVars
<1>2. lock \in Seq(Calls) /\ Call \in Calls
  BY CallOwes DEF LockInv
<1>3. /\ lock' \in Seq(Calls) /\ lock' # <<>>
      /\ \A i \in DOMAIN lock' : lock'[i] = Call \/ (i \in DOMAIN lock /\ lock'[i] = lock[i])
      /\ lock # <<>> => lock'[1] = lock[1]
  BY <1>1, <1>2, AppendProperties, EmptySeq
<1>4. LockInv'
  BY <1>1, <1>3 DEF LockInv
<1>5. OwedIsMarked'
  <2>1. \A s \in Slugs : gen[s] \in Nat
    BY DEF TypeOK
  <2> QED BY <1>1, <1>3, <2>1, CallOwes DEF OwedIsMarked, Marked
<1>6. AheadOrFailed'
  <2>1. gitPc # "free" => lock'[1] = lock[1]
    BY <1>3 DEF LockInv
  <2> QED BY <1>1, <2>1 DEF AheadOrFailed, Ahead, Running, Working
<1> QED BY <1>4, <1>5, <1>6

\* The flush of a commit that finds the save path idle has all it owes ahead.
LEMMA OwedGit ==
    ASSUME Inv, OwedInv, GitStep
    PROVE  OwedIsMarked' /\ AheadOrFailed' /\ LockInv'
<1> USE DEF Inv, OwedInv, TypeOK
<1>1. UNCHANGED <<dirty, conflict, handle, gen, fails>>
  BY DEF GitStep, StartCommit, Flushed, Add, Commit, Land, Fail, DocFrame, vars, docVars,
     markVars, flagVars
<1>2. CASE StartCommit
  <2>1. lock' = lock /\ lock # <<>> /\ gitPc' = "flushing" /\ flushOwn' = (pc = "idle")
    BY <1>2 DEF StartCommit
  <2>2. flushOwn' => todo' = dirty
    BY <1>1, <1>2, <2>1 DEF StartCommit, RequestFlush, StartPass
  <2>3. OwedIsMarked' /\ LockInv'
    BY <1>1, <2>1 DEF OwedIsMarked, Marked, LockInv
  <2>4. 1 \in DOMAIN lock
    BY <2>1, EmptySeq DEF LockInv
  <2> QED BY <1>1, <2>1, <2>2, <2>3, <2>4
          DEF OwedIsMarked, AheadOrFailed, Marked, Ahead, Running
<1>3. CASE Flushed
  <2>1. /\ gitPc = "flushing" /\ gitPc' = "adding" /\ (flushOwn => pc = "idle")
        /\ UNCHANGED <<lock, flushOwn>>
    BY <1>3 DEF Flushed
  <2>2. pc = "idle" => todo = {} /\ ~Working
    BY DEF FlushInv, DirtyIsOpen, Working
  <2> QED BY <1>1, <2>1, <2>2 DEF OwedIsMarked, AheadOrFailed, Marked, Ahead, Running, LockInv
<1>4. CASE Add
  <2> DEFINE Quit == [lock[1] EXCEPT !.owed = [s \in Slugs |-> 0]]
  <2>1. /\ lock' = [lock EXCEPT ![1] = Quit] /\ flushOwn' = FALSE
        /\ gitPc' \in {"landed", "committing"} /\ lock # <<>>
    BY <1>4 DEF Add, LockInv
  <2>2. 1 \in DOMAIN lock /\ lock[1] \in Calls
    BY <2>1, EmptySeq DEF LockInv
  <2>3. Quit \in Calls /\ \A s \in Slugs : ~Owes(Quit, s)
    BY <2>2 DEF Calls, Owes
  <2> HIDE DEF Quit
  <2>4. /\ lock' \in Seq(Calls) /\ DOMAIN lock' = DOMAIN lock
        /\ \A i \in DOMAIN lock : lock'[i] = lock[i] \/ lock'[i] = Quit
    <3>1. lock \in Seq(Calls)
      BY DEF LockInv
    <3> QED BY <2>1, <2>2, <2>3, <3>1, ExceptSeq
  <2>5. lock' # <<>>
    BY <2>2, <2>4, EmptySeq
  <2>6. OwedIsMarked'
    BY <1>1, <2>3, <2>4 DEF OwedIsMarked, Marked
  <2> QED BY <2>1, <2>4, <2>5, <2>6 DEF AheadOrFailed, LockInv
<1>5. CASE Commit
  BY <1>1, <1>5 DEF Commit, OwedIsMarked, AheadOrFailed, Marked, Ahead, LockInv
<1>6. CASE Land \/ Fail
  <2>1. /\ lock' = Tail(lock) /\ gitPc' = "free" /\ flushOwn' = FALSE
        /\ lock # <<>> /\ lock \in Seq(Calls)
    BY <1>6 DEF Land, Fail, Release, LockInv
  <2>2. lock' \in Seq(Calls) /\ \A i \in DOMAIN lock' : i + 1 \in DOMAIN lock
                                                     /\ lock'[i] = lock[i + 1]
    BY <2>1, HeadTailProperties
  <2> QED BY <1>1, <2>1, <2>2 DEF OwedIsMarked, AheadOrFailed, Marked, Ahead, LockInv
<1> QED BY <1>2, <1>3, <1>4, <1>5, <1>6 DEF GitStep

\* "Drain in-memory edits to disk FIRST so git add -A captures the real on-disk
\* state" (gitStore.ts): a commit that starts the flush it awaits stages every edit
\* made before its call, except for notes whose write has failed or that are in
\* conflict, whatever is edited and called meanwhile (CommitsWhatWasThere), as long
\* as notes are not moved.
THEOREM CommitsStageEdits ==
    ASSUME MoveScope = "none"
    PROVE  GitSpec => CommitsWhatWasThere
<1> DEFINE IInv == /\ Inv /\ DiskInv /\ OwedInv
                   /\ dirtyPaths \subseteq Paths /\ unnoted \subseteq Paths
<1>1. GitInit => IInv
  BY TypeInit, FlushInit, DiskInit, OwedInit DEF GitInit, Inv
<1>2. IInv /\ [GitNext]_allVars => IInv'
  <2> SUFFICES ASSUME IInv, [GitNext]_allVars PROVE IInv'
    OBVIOUS
  <2>1. Inv' /\ DiskInv'
    BY GitStepsFlush, FlushNext, DiskNext
  <2>2. FilesStay'
    BY GitStepsFlush, FilesNext DEF Inv, OwedInv
  <2>3. dirtyPaths' \subseteq Paths /\ unnoted' \subseteq Paths
    <3>1. CASE EditorStep
      <4>1. CommitWrite \/ MoveFile => Target \in Paths
        BY DEF CommitWrite, MoveFile, Inv, TypeOK, Working
      <4> QED BY <3>1, <4>1 DEF EditorStep
    <3>2. CASE ~EditorStep
      BY <3>2 DEF GitNext, GitStep, StartCommit, Flushed, Add, Commit, Land, Fail,
         CommitChangesNow, TurnEnd, allVars, gitVars
    <3> QED BY <3>1, <3>2
  <2>4. OwedIsMarked' /\ AheadOrFailed' /\ LockInv'
    <3>1. CASE EditorStep
      BY <3>1, EditorLock, OwedEditor, AheadEditor DEF OwedInv, Inv
    <3>2. CASE UNCHANGED allVars
      BY <3>2 DEF allVars, gitVars, vars, docVars, markVars, flagVars, passVars, snapVars,
         curVars, OwedInv, OwedIsMarked, AheadOrFailed, Marked, Ahead, LockInv, Running,
         Working
    <3> QED BY <3>1, <3>2, OwedCall, OwedGit DEF GitNext, Inv
  <2> QED BY <2>1, <2>2, <2>3, <2>4 DEF OwedInv
<1>3. IInv => (Add /\ flushOwn =>
                  \A s \in Slugs :
                      Running.owed[s] = 0 \/ fails[s] > 0 \/ s \in conflict)
  <2> SUFFICES ASSUME IInv, Add, flushOwn, NEW s \in Slugs, Running.owed[s] # 0
               PROVE  fails[s] > 0
    OBVIOUS
  <2>1. gitPc = "adding" /\ lock # <<>> /\ lock \in Seq(Calls)
    BY DEF Add, OwedInv, LockInv
  <2>2. Running \in Calls
    BY <2>1, EmptySeq DEF Running
  <2>3. Owes(Running, s)
    BY <2>2 DEF Calls, Owes
  <2> QED BY <2>1, <2>3 DEF OwedInv, AheadOrFailed
<1>4. GitSpec => []IInv
  BY <1>1, <1>2, PTL DEF GitSpec
<1>5. IInv => [Add /\ flushOwn =>
                  \A s \in Slugs :
                      Running.owed[s] = 0 \/ fails[s] > 0 \/ s \in conflict]_allVars
  BY <1>3
<1> QED BY <1>4, <1>5, PTL DEF CommitsWhatWasThere

-----------------------------------------------------------------------------
(* Quitting                                                                  *)

\* Every step of the program is one of the save path, or leaves it as it is.
LEMMA QuitStepsFlush == QuitStep \/ AppStep \/ UNCHANGED appVars => [Next]_vars
<1>1. AppStep => Next
  BY DEF AppStep, Next
<1>2. ASSUME Yielded, AwaitFlush, QuitFrame
      PROVE  FlushTick
  BY <1>2 DEF AwaitFlush, FlushTick, QuitFrame
<1>3. RequestQuit \/ QuitAnyway => FlushTick
  BY <1>2 DEF RequestQuit, QuitAnyway
<1>4. ASSUME NEW asks \in BOOLEAN, SaveDone(asks)
      PROVE  FlushTick \/ UNCHANGED vars
  <2>1. Yielded /\ QuitFrame
    BY <1>4 DEF SaveDone, FlushAwaited
  <2>2. AwaitFlush \/ UNCHANGED <<queued, passVars>>
    BY <1>4 DEF SaveDone
  <2> QED BY <1>2, <2>1, <2>2 DEF QuitFrame, vars
<1>5. StayOpen \/ StopAutoFlush \/ Exit \/ UNCHANGED appVars => UNCHANGED vars
  BY DEF StayOpen, StopAutoFlush, Exit, QuitFrame, appVars, vars
<1> QED BY <1>1, <1>3, <1>4, <1>5 DEF QuitStep, Next

\* What a quit owes stays marked. As long as it has joined no pass, the first flush
\* has ahead what it owes, and after that flush whatever is owed has failed.
QuitTypes ==
    /\ quitPc \in {"none", "saving", "asking", "leaving", "closing", "exited"}
    /\ own \in BOOLEAN /\ joined \in BOOLEAN /\ owed \in [Slugs -> Nat]

QuitOwed ==
    \A s \in Slugs : owed[s] > 0 =>
        /\ Marked(s, owed[s])
        /\ \/ joined \/ fails[s] > 0
           \/ quitPc = "saving" /\ own /\ Ahead(s, owed[s])

QuitInv == QuitTypes /\ QuitOwed

\* A file that vanishes takes nothing from memory: marks, captures and debts are
\* as they were.
LEMMA VanishKeeps ==
    ASSUME Inv, QuitInv, NEW p \in Paths, Vanish(p)
    PROVE  Inv' /\ QuitInv'
<1>1. /\ UNCHANGED <<docVars, markVars, lastWritten, saved, flagVars, queued, passVars,
                     quitVars>>
      /\ disk' = [disk EXCEPT ![p] = Missing]
  BY DEF Vanish
<1>2. TypeOK'
  BY <1>1 DEF Inv, TypeOK, docVars, markVars, flagVars, passVars, snapVars, curVars, Working,
     Target
<1>3. FlushInv'
  BY <1>1 DEF Inv, FlushInv, CleanMeansSaved, CapturedIsLive, DirtyIsOpen, Live, Opened,
     docVars, markVars, flagVars, passVars, snapVars, curVars, Working
<1>4. QuitInv'
  BY <1>1 DEF QuitInv, QuitTypes, QuitOwed, Marked, Ahead, docVars, markVars, flagVars,
     passVars, snapVars, curVars, Working, quitVars
<1> QED BY <1>2, <1>3, <1>4 DEF Inv

LEMMA QuitOwedInit == QuitInit => QuitTypes /\ QuitOwed
<1> SUFFICES ASSUME QuitInit PROVE QuitTypes /\ QuitOwed
  OBVIOUS
<1>1. /\ owed \in [Slugs -> Nat] /\ \A s \in Slugs : ~(owed[s] > 0)
      /\ quitPc = "none" /\ own = FALSE /\ joined = FALSE
  BY DEF QuitInit
<1> QED BY <1>1 DEF QuitTypes, QuitOwed

\* The editor saves what is owed, or its write fails.
LEMMA QuitOwedEditor ==
    ASSUME MoveScope # "any", Inv, QuitInv, AppStep
    PROVE  QuitTypes' /\ QuitOwed'
<1>1. UNCHANGED <<quitPc, own, joined>>
      /\ owed' = [s \in Slugs |-> IF \/ s \in conflict'
                                     \/ Settle /\ s = cur /\ curGen >= owed[s]
                                     \/ Defers(s)
                                  THEN 0 ELSE owed[s]]
  BY DEF AppStep, Discharge
<1>2. QuitTypes'
  BY <1>1 DEF QuitTypes, QuitInv
<1>3. ASSUME NEW s \in Slugs, owed'[s] > 0
      PROVE  /\ Marked(s, owed[s])'
             /\ \/ joined' \/ fails'[s] > 0
                \/ quitPc' = "saving" /\ own' /\ Ahead(s, owed[s])'
  <2>1. PICK g \in Nat : g = owed[s]
    BY DEF QuitInv, QuitTypes
  <2>2. owed'[s] = g /\ g > 0 /\ s \notin conflict' /\ ~Saves(s, g) /\ ~Defers(s)
    BY <1>1, <1>3, <2>1 DEF Saves
  <2>3. /\ Marked(s, g)
        /\ joined \/ fails[s] > 0 \/ (quitPc = "saving" /\ own /\ Ahead(s, g))
    BY <2>1, <2>2 DEF QuitInv, QuitOwed
  <2>4. [Next]_vars
    BY DEF AppStep, Next
  <2>5. Marked(s, g)'
    BY <2>2, <2>3, <2>4, OwedStays
  <2>6. joined \/ fails'[s] > 0 \/ (quitPc = "saving" /\ own /\ Ahead(s, g)')
    BY <2>2, <2>3, <2>4, AheadEnds, FailureStays DEF Inv, Marked
  <2> QED BY <1>1, <2>2, <2>5, <2>6 DEF Marked, Ahead
<1> QED BY <1>2, <1>3 DEF QuitOwed

\* The handler goes on when its flush has come back, and then has nothing ahead.
LEMMA QuitOwedHandler ==
    ASSUME Inv, QuitInv, QuitStep
    PROVE  QuitTypes' /\ QuitOwed'
<1> USE DEF QuitInv, QuitTypes
<1>1. UNCHANGED <<dirty, conflict, handle, gen, fails>>
  BY DEF QuitStep, RequestQuit, SaveDone, StayOpen, QuitAnyway, StopAutoFlush, Exit,
     QuitFrame, docVars, markVars, flagVars
<1>2. \A s \in Slugs, g \in Nat : Marked(s, g)' <=> Marked(s, g)
  BY <1>1 DEF Marked
<1>3. CASE RequestQuit
  <2>1. /\ owed' = OwedNow /\ quitPc' = "saving" /\ own' = (pc = "idle")
        /\ joined' = (joined \/ pc # "idle") /\ RequestFlush
    BY <1>3 DEF RequestQuit, AwaitFlush
  <2>2. owed' \in [Slugs -> Nat] /\ own' \in BOOLEAN /\ joined' \in BOOLEAN
    BY <2>1 DEF OwedNow, Inv, TypeOK
  <2>3. ASSUME NEW s \in Slugs, owed'[s] > 0
        PROVE  Marked(s, owed[s])' /\ (pc = "idle" => Ahead(s, owed[s])')
    <3>1. s \in dirty \ conflict /\ handle[s] = "ready" /\ owed'[s] = gen[s] /\ gen[s] \in Nat
      BY <2>1, <2>3 DEF OwedNow, Inv, TypeOK
    <3>2. pc = "idle" => todo' = dirty'
      BY <2>1 DEF RequestFlush, StartPass
    <3> QED BY <1>1, <3>1, <3>2 DEF Marked, Ahead
  <2> QED BY <2>1, <2>2, <2>3 DEF QuitOwed
<1>4. ASSUME NEW asks \in BOOLEAN, SaveDone(asks)
      PROVE  QuitTypes' /\ QuitOwed'
  <2>1. /\ quitPc = "saving" /\ (own => pc = "idle") /\ owed' = owed
        /\ quitPc' \in {"asking", "leaving"}
        /\ own' \in BOOLEAN /\ joined' \in BOOLEAN /\ (joined => joined')
    BY <1>4 DEF SaveDone, FlushAwaited, AwaitFlush
  <2>2. pc = "idle" => \A s \in Slugs, g \in Nat : ~Ahead(s, g)
    BY DEF Ahead, Working, Inv, FlushInv, DirtyIsOpen
  <2>3. ASSUME NEW s \in Slugs, owed'[s] > 0
        PROVE  Marked(s, owed[s])' /\ (joined' \/ fails'[s] > 0)
    <3>1. PICK g \in Nat : g = owed[s]
      OBVIOUS
    <3>2. Marked(s, g) /\ (joined \/ fails[s] > 0)
      BY <2>1, <2>2, <2>3, <3>1 DEF QuitOwed
    <3> QED BY <1>1, <2>1, <3>1, <3>2 DEF Marked
  <2> QED BY <2>1, <2>3 DEF QuitOwed
<1>5. CASE StayOpen
  <2>1. /\ owed' \in [Slugs -> Nat] /\ \A s \in Slugs : ~(owed'[s] > 0)
        /\ quitPc' = "none" /\ own' = FALSE /\ joined' = FALSE
    BY <1>5 DEF StayOpen
  <2> QED BY <2>1 DEF QuitOwed
<1>6. CASE QuitAnyway \/ StopAutoFlush \/ Exit
  <2>1. /\ quitPc # "saving" /\ owed' = owed
        /\ quitPc' \in {"leaving", "closing", "exited"}
        /\ own' \in BOOLEAN /\ joined' \in BOOLEAN /\ (joined => joined')
    BY <1>6 DEF QuitAnyway, StopAutoFlush, Exit, AwaitFlush
  <2>2. ASSUME NEW s \in Slugs, owed'[s] > 0
        PROVE  Marked(s, owed[s])' /\ (joined' \/ fails'[s] > 0)
    <3>1. PICK g \in Nat : g = owed[s]
      OBVIOUS
    <3>2. Marked(s, g) /\ (joined \/ fails[s] > 0)
      BY <2>1, <2>2, <3>1 DEF QuitOwed
    <3> QED BY <1>1, <2>1, <3>1, <3>2 DEF Marked
  <2> QED BY <2>1, <2>2 DEF QuitOwed
<1> QED BY <1>3, <1>4, <1>5, <1>6 DEF QuitStep

\* "Flush first so edits typed right before quit reach disk" (CloseConfirmDialog.tsx):
\* when the program ends, every edit made before the quit was asked for has been
\* written, but for notes whose write has failed, that came into conflict or whose
\* file was found gone, if no flush of the quit found a pass in flight
\* (QuietQuitSaves); as long as notes are moved only while they are open.
THEOREM QuitsSaveEdits ==
    ASSUME MoveScope # "any"
    PROVE  QuitSpec => []QuietQuitSaves
<1> DEFINE IInv == Inv /\ QuitInv
<1>1. QuitInit => IInv
  BY TypeInit, FlushInit, QuitOwedInit DEF QuitInit, Inv, QuitInv
<1>2. IInv /\ [QuitNext]_appVars => IInv'
  <2> SUFFICES ASSUME IInv, [QuitNext]_appVars PROVE IInv'
    OBVIOUS
  <2>1. ASSUME NEW p \in Paths, Vanish(p) PROVE IInv'
    BY <2>1, VanishKeeps
  <2>2. CASE QuitStep \/ AppStep \/ UNCHANGED appVars
    <3>1. Inv'
      BY <2>2, QuitStepsFlush, FlushNext
    <3>2. QuitTypes' /\ QuitOwed'
      <4>1. CASE UNCHANGED appVars
        BY <4>1 DEF appVars, quitVars, vars, docVars, markVars, flagVars, passVars,
           snapVars, curVars, QuitInv, QuitTypes, QuitOwed, Marked, Ahead, Working
      <4> QED BY <2>2, <4>1, QuitOwedEditor, QuitOwedHandler
    <3> QED BY <3>1, <3>2 DEF QuitInv
  <2> QED BY <2>1, <2>2 DEF QuitNext
<1>3. IInv => QuietQuitSaves
  BY DEF QuietQuitSaves, QuitSaves, QuitInv, QuitTypes, QuitOwed, Failing
<1> QED BY <1>1, <1>2, <1>3, PTL DEF QuitSpec

-----------------------------------------------------------------------------
(* Folders and the trash                                                     *)

\* What an operation is about.
JobTyped ==
    /\ job \in [op : {"none", "relocate", "trash", "trash folder"},
                at : {"done", "flush", "rename", "rewrite", "trash", "teardown"},
                from : Folders \cup {NoFolder}, to : Folders \cup {NoFolder},
                notes : SUBSET Slugs, files : SUBSET Paths]
    /\ job.op = "relocate" => {job.from, job.to} \subseteq Folders

\* Who has left the catalog stays out of it, and the snapshot of the pass was taken
\* of a catalog in which whatever was open had a path.
StayOut ==
    /\ dead \subseteq Slugs
    /\ \A s \in dead : path[s] = NoPath
    /\ \A s \in Opened : path[s] # NoPath
    /\ \A s \in snapOpen : snapPath[s] # NoPath

\* What the pass has captured of a note is what the note showed at that generation,
\* unless the note has been torn down since, or a delete has reset its generation.
CapturedStands ==
    Working /\ cur \notin dead =>
        /\ handle[cur] = "ready"
        /\ cur \notin reused =>
              curGen <= gen[cur] /\ (gen[cur] = curGen => curBody = Live(cur))

MarksInv == TypeOK /\ JobTyped /\ StayOut /\ CapturedStands

LEMMA MarksInit == CatInit => MarksInv
<1> SUFFICES ASSUME CatInit PROVE MarksInv
  OBVIOUS
<1>1. TypeOK
  BY TypeInit DEF CatInit
<1>2. JobTyped
  BY DEF CatInit, NoJob, JobTyped
<1>3. handle = [s \in Slugs |-> "none"] /\ snapOpen = {} /\ dead = {} /\ pc = "idle"
  BY DEF CatInit, Init
<1>4. StayOut /\ CapturedStands
  BY <1>3 DEF StayOut, CapturedStands, Opened, Working
<1> QED BY <1>1, <1>2, <1>4 DEF MarksInv

\* Notes and files are taken from the catalog, folders from the tree.
LEMMA JobNext ==
    ASSUME TypeOK, JobTyped, [CatNext]_catalogVars
    PROVE  JobTyped'
<1> USE DEF JobTyped
<1>1. ASSUME NEW f \in Folders
      PROVE  NotesIn(f) \in SUBSET Slugs /\ Files(f) \in SUBSET Paths
  BY FoldersAssumption DEF NotesIn, Known, Files
<1>2. CASE CatalogStep
  <2>1. job' = job \/ job' = [job EXCEPT !.at = "rename"]
    BY <1>2 DEF CatalogStep
  <2> QED BY ZenonT(30), <2>1
<1>3. ASSUME NEW f \in Folders, NEW g \in Folders, RelocateFolder(f, g) PROVE JobTyped'
  BY <1>1, <1>3 DEF RelocateFolder, NoJob
<1>4. ASSUME NEW f \in Folders, DeleteFolder(f) PROVE JobTyped'
  BY <1>1, <1>4 DEF DeleteFolder, StartTrash, MayStart, NoJob
<1>5. ASSUME NEW s \in Slugs, DeleteToTrash(s) PROVE JobTyped'
  BY ZenonT(30), <1>5 DEF DeleteToTrash, StartTrash, MayStart, NoJob, Known, TypeOK
<1>6. CASE RenameDirectory \/ RewriteCatalog \/ MoveToTrash \/ TrashFails \/ TearDown
           \/ UNCHANGED catalogVars
  <2>2. \/ job' \in {NoJob, job}
        \/ \E at \in {"rewrite", "teardown"} : job' = [job EXCEPT !.at = at]
    BY <1>6 DEF RenameDirectory, RewriteCatalog, Follow, MoveToTrash, TrashFails, TearDown,
       Step, catalogVars, catVars
  <2>3. CASE job' = NoJob
    BY <2>3 DEF NoJob
  <2> QED BY ZenonT(30), <2>2, <2>3
<1> QED BY <1>2, <1>3, <1>4, <1>5, <1>6 DEF CatNext, JobStep

\* The operations leave the pass alone.
LEMMA JobFrame ==
    ASSUME JobStep, \A f \in Folders, g \in Folders : ~RelocateFolder(f, g)
    PROVE  UNCHANGED passVars /\ UNCHANGED <<queued, active, buffer, saved, fails, conflict>>
BY DEF JobStep, DeleteFolder, DeleteToTrash, StartTrash, RenameDirectory, RewriteCatalog,
   Follow, MoveToTrash, TrashFails, TearDown, PassFrame, docVars, fileVars, flagVars, vars

\* A relocation that is asked for is to the save path a caller that asks for a flush.
LEMMA RelocateIsFlush ==
    ASSUME NEW f \in Folders, NEW g \in Folders, RelocateFolder(f, g)
    PROVE  FlushTick
BY DEF RelocateFolder, MayStart, FlushTick

\* The operations keep the state of the save path well typed.
LEMMA TypeJob ==
    ASSUME TypeOK, JobTyped, JobStep
    PROVE  TypeOK'
<1> USE DEF TypeOK, JobTyped
<1>1. ASSUME NEW f \in Folders, NEW g \in Folders, RelocateFolder(f, g) PROVE TypeOK'
  BY <1>1, RelocateIsFlush, TypeNext DEF Next
<1>2. ASSUME NEW notes \in SUBSET Slugs, NEW op, NEW f, NEW files,
             StartTrash(op, f, notes, files)
      PROVE  TypeOK'
  BY <1>2 DEF StartTrash, PassFrame, docVars, fileVars, flagVars, passVars, snapVars,
     curVars, Working, Target
<1>3. CASE RenameDirectory
  <2>1. disk' \in [Paths -> Bodies \cup {Missing}]
    <3>1. CASE disk' = disk
      BY <3>1
    <3>2. CASE disk' # disk
      <4>1. /\ disk' = [p \in Paths |->
                           CASE p \in Files(job.to)   -> disk[Rebase(p, job.from)]
                             [] p \in Files(job.from) -> Missing
                             [] OTHER                 -> disk[p]]
        BY <1>3, <3>2 DEF RenameDirectory
      <4>2. job.from \in Folders
        BY <1>3 DEF RenameDirectory, At
      <4>3. \A p \in Paths : Rebase(p, job.from) \in Paths
        BY <4>2, FoldersAssumption DEF Rebase
      <4> QED BY <4>1, <4>3
    <3> QED BY <3>1, <3>2
  <2> QED
    BY <1>3, <2>1 DEF RenameDirectory, PassFrame, docVars, markVars, flagVars, passVars,
       snapVars, curVars, Working, Target
<1>4. CASE RewriteCatalog
  <2>1. job.op = "relocate" /\ job.to \in Folders
    BY <1>4 DEF RewriteCatalog, Follow, At
  <2>2. \A s \in NotesIn(job.from) : Rebase(path[s], job.to) \in Paths
    BY <2>1, FoldersAssumption DEF NotesIn, Known, Rebase
  <2>3. /\ path' = [s \in Slugs |-> IF s \in NotesIn(job.from) THEN Rebase(path[s], job.to)
                                    ELSE path[s]]
        /\ lastWritten' = [s \in Slugs |-> IF s \in NotesIn(job.from) THEN path'[s]
                                           ELSE lastWritten[s]]
    BY <1>4 DEF RewriteCatalog, Follow
  <2>4. /\ path' \in [Slugs -> Paths \cup {NoPath}]
        /\ lastWritten' \in [Slugs -> Paths \cup {NoPath}]
        /\ \A s \in Slugs : lastWritten[s] \in Paths => lastWritten'[s] \in Paths
    BY <2>2, <2>3
  <2> QED
    BY <1>4, <2>4 DEF RewriteCatalog, Follow, PassFrame, markVars, flagVars, passVars,
       snapVars, curVars, Working, Target
<1>5. CASE MoveToTrash
  BY <1>5 DEF MoveToTrash, PassFrame, docVars, markVars, flagVars, passVars, snapVars,
     curVars, Working, Target
<1>6. CASE TrashFails
  <2>1. dirty' \subseteq Slugs
    BY <1>6 DEF TrashFails
  <2>2. gen' \in [Slugs -> Nat]
    <3>1. gen' = [s \in Slugs |-> IF s \in job.notes THEN gen[s] + 1 ELSE gen[s]]
      BY <1>6 DEF TrashFails
    <3>2. gen \in [Slugs -> Nat]
      OBVIOUS
    <3> HIDE DEF TypeOK, JobTyped
    <3> QED BY <3>1, <3>2
  <2> QED
    BY <1>6, <2>1, <2>2 DEF TrashFails, PassFrame, docVars, fileVars, flagVars, passVars,
       snapVars, curVars, Working, Target
<1>7. CASE TearDown
  BY <1>7, SetsAssumption DEF TearDown, Reset, PassFrame, fileVars, flagVars, passVars,
     snapVars, curVars, Working, Target
<1>8. \A f \in Folders : NotesIn(f) \in SUBSET Slugs
  BY DEF NotesIn, Known
<1>9. (\E f \in Folders : DeleteFolder(f)) \/ (\E s \in Slugs : DeleteToTrash(s)) => TypeOK'
  BY <1>2, <1>8 DEF DeleteFolder, DeleteToTrash
<1> QED BY <1>1, <1>3, <1>4, <1>5, <1>6, <1>7, <1>9 DEF JobStep

\* What has been captured stands as long as the note stays open, and what it shows
\* changes with its generation only.
LEMMA CapturedKept ==
    ASSUME MarksInv, UNCHANGED <<pc, cur, curGen, curBody>>,
           dead \subseteq dead', reused \subseteq reused',
           Working /\ cur \notin dead' => handle'[cur] = handle[cur],
           Working /\ cur \notin dead' \cup reused' =>
              \/ gen'[cur] = gen[cur] /\ Live(cur)' = Live(cur)
              \/ gen'[cur] = gen[cur] + 1
    PROVE  CapturedStands'
BY DEF MarksInv, TypeOK, CapturedStands, Working

\* An operation tears down only notes for good, resets only generations it says it
\* has reset, and changes no other note that is open.
LEMMA MarksJob ==
    ASSUME MarksInv, JobStep
    PROVE  StayOut' /\ CapturedStands'
<1>1. ASSUME NEW f \in Folders, NEW g \in Folders, RelocateFolder(f, g)
      PROVE  StayOut' /\ CapturedStands'
  <2>1. StayOut'
    BY <1>1 DEF RelocateFolder, RequestFlush, StartPass, docVars, passVars, snapVars,
       MarksInv, StayOut, Opened
  <2>2. pc' = pc \/ ~Working'
    BY <1>1 DEF RelocateFolder, RequestFlush, StartPass, passVars, Working
  <2>3. UNCHANGED <<cur, curGen, curBody, handle, gen, mirror, active, buffer, dead, reused>>
    BY <1>1 DEF RelocateFolder, RequestFlush, StartPass, docVars, markVars, passVars,
       curVars
  <2>4. CapturedStands'
    BY <2>2, <2>3, CapturedKept DEF Live, CapturedStands
  <2> QED BY <2>1, <2>4
<1>2. ASSUME NEW notes \in SUBSET Slugs, NEW op, NEW f, NEW files,
             StartTrash(op, f, notes, files)
      PROVE  StayOut' /\ CapturedStands'
  <2>1. UNCHANGED <<path, handle, mirror, active, buffer, dead, pc, snapPath, snapOpen,
                    cur, curGen, curBody>>
    BY <1>2 DEF StartTrash, PassFrame, docVars, passVars, snapVars, curVars
  <2>2. /\ gen' = [s \in Slugs |-> IF s \in notes THEN 0 ELSE gen[s]]
        /\ reused' = reused \cup (notes \cap {cur})
    BY <1>2 DEF StartTrash
  <2>3. Working /\ cur \notin reused' => gen'[cur] = gen[cur]
    BY <2>2 DEF MarksInv, TypeOK
  <2> QED BY <2>1, <2>2, <2>3, CapturedKept DEF MarksInv, StayOut, Opened, Live
<1>3. CASE RenameDirectory \/ MoveToTrash
  <2>1. UNCHANGED <<path, handle, mirror, active, buffer, gen, dead, reused, pc, snapPath,
                    snapOpen, cur, curGen, curBody>>
    BY <1>3 DEF RenameDirectory, MoveToTrash, PassFrame, docVars, markVars, passVars,
       snapVars, curVars
  <2> QED BY <2>1, CapturedKept DEF MarksInv, StayOut, Opened, Live
<1>4. CASE RewriteCatalog
  <2>1. \A s \in Slugs : path[s] = NoPath <=> path'[s] = NoPath
    <3>1. path' = [s \in Slugs |-> IF s \in NotesIn(job.from) THEN Rebase(path[s], job.to)
                                   ELSE path[s]]
      BY <1>4 DEF RewriteCatalog, Follow
    <3>2. job.to \in Folders
      BY <1>4 DEF RewriteCatalog, Follow, At, MarksInv, JobTyped
    <3>3. \A s \in NotesIn(job.from) : Rebase(path[s], job.to) \in Paths
      BY <3>2, FoldersAssumption DEF NotesIn, Known, Rebase, Files
    <3>4. \A s \in NotesIn(job.from) : path[s] # NoPath
      BY DEF NotesIn, Known
    <3> QED BY <3>1, <3>3, <3>4, SetsAssumption
  <2>2. UNCHANGED <<handle, mirror, active, buffer, gen, dead, reused, pc, snapPath,
                    snapOpen, cur, curGen, curBody>>
    BY <1>4 DEF RewriteCatalog, Follow, PassFrame, markVars, passVars, snapVars, curVars
  <2>3. StayOut'
    BY <2>1, <2>2 DEF MarksInv, StayOut, Opened
  <2> QED BY <2>2, <2>3, CapturedKept DEF Live
<1>5. CASE TrashFails
  <2>1. UNCHANGED <<path, handle, mirror, active, buffer, dead, reused, pc, snapPath,
                    snapOpen, cur, curGen, curBody>>
    BY <1>5 DEF TrashFails, PassFrame, docVars, passVars, snapVars, curVars
  <2>2. \A s \in Slugs : gen'[s] = gen[s] \/ gen'[s] = gen[s] + 1
    BY <1>5 DEF TrashFails
  <2>3. Working => cur \in Slugs
    BY DEF MarksInv, TypeOK
  <2> QED BY <2>1, <2>2, <2>3, CapturedKept DEF MarksInv, StayOut, Opened, Live
<1>6. CASE TearDown
  <2>1. UNCHANGED <<active, buffer, gen, reused, pc, snapPath, snapOpen, cur, curGen,
                    curBody>>
    BY <1>6 DEF TearDown, PassFrame, passVars, snapVars, curVars
  <2>2. /\ dead' = dead \cup job.notes
        /\ \A s \in Slugs : /\ path'[s] = IF s \in job.notes THEN NoPath ELSE path[s]
                            /\ handle'[s] = IF s \in job.notes THEN "none" ELSE handle[s]
                            /\ s \notin job.notes => mirror'[s] = mirror[s]
    BY <1>6 DEF TearDown, Reset
  <2>3. job.notes \subseteq Slugs /\ (Working => cur \in Slugs)
    BY DEF MarksInv, TypeOK, JobTyped
  <2> QED BY <2>1, <2>2, <2>3, CapturedKept DEF MarksInv, StayOut, Opened, Live
<1>7. \A f \in Folders : NotesIn(f) \in SUBSET Slugs
  BY DEF NotesIn, Known
<1>8. (\E f \in Folders : DeleteFolder(f)) \/ (\E s \in Slugs : DeleteToTrash(s))
      => StayOut' /\ CapturedStands'
  BY <1>2, <1>7 DEF DeleteFolder, DeleteToTrash
<1> QED BY <1>1, <1>3, <1>4, <1>5, <1>6, <1>8 DEF JobStep

\* The rest of the program opens no note that has left the catalog, and whoever
\* changes what a note shows moves its generation on.
LEMMA MarksUser ==
    ASSUME MarksInv, CatalogStep, UserStep
    PROVE  StayOut' /\ CapturedStands'
<1> USE DEF MarksInv, TypeOK, StayOut, Opened
<1>1. /\ UNCHANGED <<dead, reused>> /\ dead \subseteq Slugs
      /\ \A s \in Slugs : path'[s] # path[s] => s \notin dead
  BY DEF CatalogStep
<1>2. ASSUME RequestFlush \/ UNCHANGED passVars,
             \A s \in Slugs : handle'[s] # "none" => path'[s] # NoPath,
             \A s \in Slugs : handle[s] = "ready" =>
                 /\ handle'[s] = "ready"
                 /\ \/ gen'[s] = gen[s] /\ Live(s)' = Live(s)
                    \/ gen'[s] = gen[s] + 1
      PROVE  StayOut' /\ CapturedStands'
  <2>1. StayOut'
    <3>1. CASE UNCHANGED passVars
      BY <1>1, <1>2, <3>1 DEF passVars, snapVars
    <3>2. CASE RequestFlush
      BY <1>1, <1>2, <3>2 DEF RequestFlush, StartPass, passVars, snapVars
    <3> QED BY <1>2, <3>1, <3>2
  <2>2. ~Working' \/ pc' = pc
    BY <1>2 DEF RequestFlush, StartPass, passVars, Working
  <2>3. UNCHANGED curVars
    BY <1>2 DEF RequestFlush, StartPass, passVars
  <2>4. CASE pc' = pc
    <3>1. UNCHANGED <<cur, curGen, curBody>>
      BY <2>3 DEF curVars
    <3>2. Working /\ cur \notin dead => cur \in Slugs /\ handle[cur] = "ready"
      BY DEF CapturedStands
    <3> QED BY <1>1, <1>2, <2>1, <2>4, <3>1, <3>2, CapturedKept
  <2>5. CASE ~Working'
    BY <2>1, <2>5 DEF CapturedStands, Working
  <2> QED BY <2>1, <2>2, <2>4, <2>5
<1>3. ASSUME NEW s \in Slugs, EnsureHandle(s) \/ Mount(s) \/ Unmount(s)
      PROVE  StayOut' /\ CapturedStands'
  <2>1. RequestFlush \/ UNCHANGED passVars
    BY <1>3 DEF EnsureHandle, Mount, Unmount
  <2>2. \A t \in Slugs : /\ path'[t] = path[t]
                         /\ handle'[t] = IF EnsureHandle(s) /\ t = s THEN "loading"
                                          ELSE handle[t]
    BY <1>3 DEF EnsureHandle, Mount, Unmount
  <2>3. EnsureHandle(s) => path[s] # NoPath /\ handle[s] = "none"
    BY DEF EnsureHandle
  <2>4. \A t \in Slugs : handle[t] = "ready" => gen'[t] = gen[t] /\ Live(t)' = Live(t)
    <3>1. CASE EnsureHandle(s)
      BY <3>1 DEF EnsureHandle, MarkDirty, Live
    <3>2. CASE Mount(s)
      BY <3>2, SetsAssumption DEF Mount, markVars, Live
    <3>3. CASE Unmount(s)
      <4>1. \A t \in Slugs : handle[t] = "ready" =>
               mirror'[t] = IF t = s THEN buffer ELSE mirror[t]
        BY <3>3 DEF Unmount
      <4>2. active = s /\ active' = NoSlug /\ gen' = gen
        BY <3>3 DEF Unmount, markVars
      <4> QED BY <4>1, <4>2, SetsAssumption DEF Live
    <3> QED BY <1>3, <3>1, <3>2, <3>3
  <2> QED BY <1>2, <2>1, <2>2, <2>3, <2>4
<1>4. ASSUME NEW s \in Slugs, MarkConflict(s) \/ DismissConflict(s)
      PROVE  StayOut' /\ CapturedStands'
  BY <1>2, <1>4 DEF MarkConflict, DismissConflict, docVars, markVars, Live
<1>5. ASSUME NEW s \in Slugs, NEW b \in UserBodies, Edit(s, b) \/ ReplaceBody(s, b)
      PROVE  StayOut' /\ CapturedStands'
  <2>1. UNCHANGED <<path, handle, passVars>>
    BY <1>5 DEF Edit, ReplaceBody
  <2>2. \A t \in Slugs : \/ gen'[t] = gen[t] /\ Live(t)' = Live(t)
                         \/ gen'[t] = gen[t] + 1
    BY <1>5 DEF Edit, ReplaceBody, MarkDirty, Live
  <2> QED BY <1>2, <2>1, <2>2
<1>6. ASSUME NEW s \in Slugs, NEW p \in Paths, MoveDocToFolder(s, p)
      PROVE  StayOut' /\ CapturedStands'
  <2>1. RequestFlush /\ UNCHANGED <<handle, mirror, active, buffer>>
    BY <1>6 DEF MoveDocToFolder
  <2>2. \A t \in Slugs : path[t] # NoPath => path'[t] # NoPath
    BY <1>6, SetsAssumption DEF MoveDocToFolder
  <2>3. \A t \in Slugs : gen'[t] = gen[t] \/ gen'[t] = gen[t] + 1
    BY <1>6 DEF MoveDocToFolder, MarkDirty
  <2> QED BY <1>2, <2>1, <2>2, <2>3 DEF Live
<1>7. ASSUME NEW s \in Slugs, NEW p \in Paths, AddOpenDoc(s, p),
             RequestFlush \/ UNCHANGED passVars, NEW b, mirror' = [mirror EXCEPT ![s] = b]
      PROVE  StayOut' /\ CapturedStands'
  <2>1. \A t \in Slugs : t # s => /\ path'[t] = path[t] /\ handle'[t] = handle[t]
                                  /\ mirror'[t] = mirror[t] /\ gen'[t] = gen[t]
    BY <1>7 DEF AddOpenDoc
  <2>2. path'[s] # NoPath /\ handle[s] = "none" /\ UNCHANGED <<active, buffer>>
    BY <1>7, SetsAssumption DEF AddOpenDoc
  <2> QED BY <1>2, <1>7, <2>1, <2>2 DEF Live
<1>8. ASSUME NEW s \in Slugs, NEW p \in Paths,
             CreateNew(s, p) \/ \E b \in UserBodies : CreateSeeded(s, p, b)
      PROVE  StayOut' /\ CapturedStands'
  BY <1>7, <1>8 DEF CreateNew, CreateSeeded
<1> QED BY <1>3, <1>4, <1>5, <1>6, <1>8 DEF UserStep

\* The pass captures what is shown; loads end, and notes fail, without a change to
\* what it has captured.
LEMMA MarksPass ==
    ASSUME MarksInv, CatalogStep, ~UserStep
    PROVE  StayOut' /\ CapturedStands'
<1> USE DEF MarksInv, TypeOK, StayOut, Opened
<1>1. UNCHANGED <<dead, reused>>
  BY DEF CatalogStep
<1>2. ASSUME NEW s \in Slugs, Hydrate(s)
      PROVE  StayOut' /\ CapturedStands'
  <2>1. /\ UNCHANGED <<path, active, buffer, gen, pc, cur, curGen, curBody, snapPath,
                       snapOpen>>
        /\ handle[s] = "loading"
        /\ \A t \in Slugs \ {s} : handle'[t] = handle[t] /\ mirror'[t] = mirror[t]
    BY <1>2 DEF Hydrate, markVars, passVars, snapVars, curVars
  <2> QED BY <1>1, <2>1, CapturedKept DEF CapturedStands, Working, Live
<1>3. CASE FlushTick \/ EndPass
  <2>1. UNCHANGED <<docVars, markVars, curVars>>
    BY <1>3 DEF FlushTick, EndPass, RequestFlush, StartPass, PassOver, passVars
  <2>2. StayOut'
    BY <1>1, <1>3, <2>1 DEF FlushTick, EndPass, RequestFlush, StartPass, PassOver, passVars,
       snapVars, docVars
  <2>3. ~Working' \/ pc' = pc
    BY <1>3 DEF FlushTick, EndPass, RequestFlush, StartPass, PassOver, passVars, Working
  <2> QED BY <1>1, <2>1, <2>2, <2>3, CapturedKept DEF CapturedStands, docVars, markVars,
          curVars, Live
<1>4. ASSUME NEW s \in Slugs, LoopStep(s)
      PROVE  StayOut' /\ CapturedStands'
  <2>1. UNCHANGED <<docVars, snapPath, snapOpen>> /\ pc = "loop"
    BY <1>4 DEF LoopStep, SkipConflicted, DropUnopened, SkipLoading, BeginNote, AtNote
  <2>2. CASE BeginNote(s)
    BY <1>1, <2>1, <2>2 DEF BeginNote, AtNote, Writable, docVars, markVars, CapturedStands,
       Live
  <2>3. CASE ~BeginNote(s)
    <3>1. pc' = pc
      BY <1>4, <2>3 DEF LoopStep, SkipConflicted, DropUnopened, SkipLoading
    <3> QED BY <1>1, <2>1, <3>1 DEF docVars, CapturedStands, Working
  <2> QED BY <2>2, <2>3
<1>5. CASE FileStep \/ Settle \/ WriteFails
  <2>1. /\ UNCHANGED <<docVars, snapPath, snapOpen>>
        /\ \/ Working /\ UNCHANGED <<markVars, curVars>>
           \/ ~Working'
    BY <1>5 DEF FileStep, Settle, WriteFails, ProbeOld, MoveFile, CheckTarget, Compare,
       NoteWrite, CommitWrite, Goto, LeaveNote, snapVars, Working
  <2> QED BY <1>1, <2>1 DEF docVars, markVars, curVars, CapturedStands, Live, Working
<1> QED BY <1>2, <1>3, <1>4, <1>5 DEF CatalogStep, PassStep

\* A mark is taken for good by the end of a write only, and by a delete.
LEMMA MarksStep ==
    ASSUME MarksInv, [CatNext]_catalogVars, NEW s \in Slugs \ (reused \cup dead'),
           handle[s] = "ready", Live(s) # saved'[s]
    PROVE  /\ s \in dirty \cap snapOpen => s \in dirty' \cup (job'.notes \ job.notes)
           /\ s \in job.notes /\ job.at = "trash" /\ job' = NoJob => s \in dirty'
<1> USE DEF MarksInv, TypeOK
<1>1. CASE CatalogStep
  <2>1. job'.notes = job.notes /\ (job' = NoJob => job = NoJob)
    BY <1>1 DEF CatalogStep, JobTyped, NoJob
  <2>2. s \in dirty \cap snapOpen => s \in dirty'
    <3>1. CASE \/ UserStep \/ FlushTick \/ FileStep \/ EndPass \/ WriteFails
               \/ \E t \in Slugs : Hydrate(t)
      BY <3>1 DEF UserStep, EnsureHandle, Mount, Unmount, MarkConflict, DismissConflict, Edit,
         ReplaceBody, MoveDocToFolder, CreateNew, CreateSeeded, AddOpenDoc, MarkDirty,
         FlushTick, FileStep, ProbeOld, MoveFile, CheckTarget, Compare, NoteWrite,
         CommitWrite, EndPass, WriteFails, Hydrate, docVars, markVars
    <3>2. ASSUME NEW t \in Slugs, LoopStep(t), s \in dirty \cap snapOpen
          PROVE  s \in dirty'
      BY <3>2 DEF LoopStep, SkipConflicted, DropUnopened, SkipLoading, BeginNote, ClearDirty,
         markVars, StayOut
    <3>3. ASSUME Settle, s \in dirty
          PROVE  s \in dirty'
      <4>1. CASE s = cur
        <5>1. saved'[s] = curBody /\ Working /\ cur \notin dead \cup reused
          BY <1>1, <3>3, <4>1 DEF Settle, Working, CatalogStep
        <5>2. gen[cur] # curGen
          BY <4>1, <5>1 DEF CapturedStands
        <5> QED BY <3>3, <5>2 DEF Settle, ClearDirtyIfUnchanged, markVars
      <4>2. CASE s # cur
        BY <3>3, <4>2 DEF Settle, ClearDirtyIfUnchanged, ClearDirty, markVars
      <4> QED BY <4>1, <4>2
    <3> QED BY <1>1, <3>1, <3>2, <3>3 DEF CatalogStep, PassStep
  <2>3. job = NoJob => job.at # "trash"
    BY DEF NoJob
  <2> QED BY <2>1, <2>2, <2>3
<1>2. CASE UNCHANGED catalogVars
  <2>1. job = NoJob => job.at # "trash"
    BY DEF NoJob
  <2> QED BY <1>2, <2>1 DEF catalogVars, catVars, vars, markVars
<1>3. ASSUME NEW op, NEW f, NEW notes \in SUBSET Slugs, NEW files,
             StartTrash(op, f, notes, files)
      PROVE  /\ s \in dirty \cap snapOpen => s \in dirty' \cup (job'.notes \ job.notes)
             /\ job.at # "trash"
  BY <1>3 DEF StartTrash, MayStart, NoJob
<1>4. CASE JobStep /\ ~MoveToTrash /\ ~TrashFails
  <2>1. ASSUME \E f \in Folders, g \in Folders : RelocateFolder(f, g)
        PROVE  dirty' = dirty /\ job.at # "trash"
    BY <2>1 DEF RelocateFolder, MayStart, NoJob, markVars
  <2>2. CASE RenameDirectory \/ RewriteCatalog
    BY <2>2 DEF RenameDirectory, RewriteCatalog, Follow, At, markVars
  <2>3. CASE TearDown
    BY <2>3 DEF TearDown
  <2>4. \A f \in Folders : NotesIn(f) \in SUBSET Slugs
    BY DEF NotesIn, Known
  <2>5. CASE (\E f \in Folders : DeleteFolder(f)) \/ \E t \in Slugs : DeleteToTrash(t)
    BY <1>3, <2>4, <2>5 DEF DeleteFolder, DeleteToTrash
  <2> QED BY <1>4, <2>1, <2>2, <2>3, <2>5 DEF JobStep
<1>5. CASE MoveToTrash
  BY <1>5 DEF MoveToTrash, Step, NoJob, JobTyped, markVars
<1>6. CASE TrashFails
  BY <1>6 DEF TrashFails
<1> QED BY <1>1, <1>2, <1>4, <1>5, <1>6 DEF CatNext

\* A note that shows what its file does not hold keeps its mark, or gets it back when a
\* delete fails, whatever is moved, open or closed, relocated or trashed while the pass
\* runs (MarksAccountedFor).
THEOREM MarksAreAccountedFor == CatSpec => MarksAccountedFor
<1>1. MarksInv /\ [CatNext]_catalogVars => MarksInv'
  <2> SUFFICES ASSUME MarksInv, [CatNext]_catalogVars PROVE MarksInv'
    OBVIOUS
  <2>1. CatalogStep => [Next]_vars
    BY DEF CatalogStep, Next
  <2>2. JobTyped'
    BY JobNext DEF MarksInv
  <2>3. CASE UNCHANGED catalogVars
    BY <2>2, <2>3, TypeNext DEF catalogVars, catVars, vars, docVars, markVars, passVars,
       snapVars, curVars, MarksInv, StayOut, Opened, CapturedStands, Working, Live
  <2>4. CASE CatalogStep
    BY <2>1, <2>2, <2>4, TypeNext, MarksUser, MarksPass DEF MarksInv
  <2>5. CASE JobStep
    BY <2>2, <2>5, TypeJob, MarksJob DEF MarksInv
  <2> QED BY <2>3, <2>4, <2>5 DEF CatNext
<1>2. MarksInv /\ [CatNext]_catalogVars =>
          [\A s \in Slugs \ (reused \cup dead') :
              handle[s] = "ready" /\ Live(s) # saved'[s] =>
                  /\ s \in dirty \cap snapOpen
                        => s \in dirty' \cup (job'.notes \ job.notes)
                  /\ s \in job.notes /\ job.at = "trash" /\ job' = NoJob
                        => s \in dirty']_catalogVars
  <2> SUFFICES ASSUME MarksInv, [CatNext]_catalogVars, NEW s \in Slugs \ (reused \cup dead'),
                      handle[s] = "ready", Live(s) # saved'[s]
               PROVE  /\ s \in dirty \cap snapOpen
                            => s \in dirty' \cup (job'.notes \ job.notes)
                      /\ s \in job.notes /\ job.at = "trash" /\ job' = NoJob
                            => s \in dirty'
    OBVIOUS
  <2> QED BY MarksStep
<1> QED BY MarksInit, <1>1, <1>2, PTL DEF CatSpec, MarksAccountedFor

-----------------------------------------------------------------------------
(* The catalog and the disk.  What keeps them together is that every path  *)
(* has one owner (Owners), in the catalog, in the rename tracker and in    *)
(* the hands of the pass at once; a file is then where the tracker or the  *)
(* pass has its note (PassPlaced, FilesPlaced).  While an operation has    *)
(* changed the files and not yet the catalog, the notes it is about        *)
(* (JobIsAbout) are held back by the stale-path guard (GoneIsGuarded).     *)

\* The pass has yet to leave the note.
Held(s) == s \in todo \cup {cur}

\* The catalog, the rename tracker or the pass has this path for the note.
Claims(s, p) == p \in {path[s], lastWritten[s]} \/ (Held(s) /\ p = snapPath[s])

\* The files the operation is about are gone, the catalog does not know yet.
Gone == job.at \in {"rewrite", "teardown"}

\* The pass has dealt with the old file of the note, and writes the new one.
Writing == pc \in {"compare", "note", "commit", "settle"}

\* No two notes share a path, all paths are in folders of the tree, and the rename
\* tracker knows nothing of notes that are yet to be.
Owners ==
    /\ \A s, t \in Known, p \in Paths : s # t => ~(Claims(s, p) /\ Claims(t, p))
    /\ \A s \in Known, p \in Paths : Claims(s, p) => p[1] \in knownFolders
    /\ \A s \in Slugs \ dead : path[s] = NoPath => lastWritten[s] = NoPath
    /\ knownFolders \subseteq Folders

\* What the pass is about to write is a note of the catalog, at the stage that its
\* old file calls for.
PassPlaced ==
    /\ pc \in {"idle", "loop"} => cur = NoSlug
    /\ pc = "idle" => todo = {}
    /\ \A s \in Slugs : Held(s) /\ snapPath[s] # NoPath => path[s] # NoPath
    /\ pc = "guard" => lastWritten[cur] = Target
    /\ pc \in {"probe", "rename"} =>
           lastWritten[cur] \notin {NoPath, Target} /\ disk[Target] = Missing
    /\ Writing => \/ lastWritten[cur] \in {NoPath, Target}
                  \/ disk[lastWritten[cur]] = Missing
    /\ pc = "settle" => disk[Target] # Missing

\* Where the note's file is, if it has been written: where the tracker has it, or in
\* the hands of the pass.
Tracked(s, p) == p = lastWritten[s] \/ (s = cur /\ p = snapPath[s])

\* Every file is the file of a note, and every note that has been written has its
\* file, up to the directory that has been renamed, or trashed, ahead of the catalog.
FilesPlaced ==
    /\ \A p \in Paths : disk[p] # Missing =>
           IF job.at = "rewrite" /\ p \in Files(job.to)
           THEN \E s \in Known : path[s] = Rebase(p, job.from)
           ELSE \E s \in Known : Tracked(s, p)
    /\ \A s \in Known : lastWritten[s] # NoPath =>
           \/ disk[lastWritten[s]] # Missing
           \/ Gone /\ lastWritten[s] \in job.files
           \/ s = cur /\ Writing

\* What the operation is about: while a directory is being relocated, no note is in
\* the new one; the notes that are being trashed are those at its files.
JobIsAbout ==
    /\ job.at \in {"flush", "rename", "rewrite"} =>
           /\ job.files = Files(job.from)
           /\ {job.from, job.to} \subseteq Folders
           /\ job.to \notin knownFolders /\ job.from # job.to
    /\ job.at \in {"trash", "teardown"} =>
           /\ \A s \in Slugs : path[s] \in job.files <=> s \in job.notes
           /\ job.from \in Folders => job.files = Files(job.from)

\* While the files are gone and the catalog does not know, whoever comes to one of
\* their notes is held back by the stale-path guard.
GoneIsGuarded ==
    /\ Gone =>
           /\ \A p \in job.files : disk[p] = Missing
           /\ \A s \in Known : {path[s], lastWritten[s]} \cap job.files # {}
                                   => path[s] = lastWritten[s]
           /\ \A s \in Known : Held(s) /\ {path[s], snapPath[s]} \cap job.files # {} =>
                  path[s] = snapPath[s] /\ (s = cur => pc = "guard")
    /\ job.at = "rewrite" => \A s \in Known :
           path[s] \in job.files => disk[Rebase(path[s], job.to)] # Missing

\* What holds until something is crossed, and with the types the inductive invariant.
Tidy == Owners /\ PassPlaced /\ FilesPlaced /\ JobIsAbout /\ GoneIsGuarded

TreeInv == TypeOK /\ JobTyped /\ (~crossed => Tidy)

\* The vault is a grid of folders and names.
LEMMA GridFacts ==
    ASSUME NEW f \in Folders
    PROVE  /\ Files(f) \subseteq Paths
           /\ \A p \in Paths : p[1] \in Folders /\ (p \in Files(f) <=> p[1] = f)
           /\ \A p \in Paths : Rebase(p, f) \in Files(f)
           /\ \A g \in Folders : \A p \in Files(f) : Rebase(Rebase(p, g), f) = p
BY FoldersAssumption DEF Files, Rebase

\* The scan finds every note at its file.
LEMMA TreeInit == CatInit => TreeInv
<1> SUFFICES ASSUME CatInit PROVE TreeInv
  OBVIOUS
<1>1. TypeOK /\ JobTyped
  BY MarksInit DEF MarksInv
<1>2. /\ job.at = "done" /\ cur = NoSlug /\ todo = {} /\ lastWritten = path /\ pc = "idle"
      /\ knownFolders \subseteq Folders
  BY DEF CatInit, Init, NoJob
<1>3. \A s \in Slugs : ~Held(s) /\ s # cur
  BY <1>2, SetsAssumption DEF Held
<1>4. \A s, t \in Known : s # t => path[s] # path[t]
  BY DEF CatInit, Init, Taken, Known
<1>5. Owners
  <2>1. \A s \in Slugs, p \in Paths : Claims(s, p) => p = path[s]
    BY <1>2, <1>3 DEF Claims
  <2>2. Known \subseteq Slugs /\ \A s \in Known : path[s][1] \in knownFolders
    BY DEF CatInit, Known
  <2> QED BY <1>2, <1>4, <2>1, <2>2 DEF Owners
<1>6. PassPlaced
  BY <1>2, <1>3 DEF PassPlaced, Writing
<1>7. FilesPlaced
  <2>1. \A p \in Paths : disk[p] # Missing <=> \E s \in Slugs : path[s] = p
    BY DEF CatInit, Init
  <2>2. \A s \in Known : path[s] \in Paths
    BY <1>1 DEF TypeOK, Known
  <2> QED BY <1>2, <2>1, <2>2, SetsAssumption DEF FilesPlaced, Tracked, Known
<1>8. JobIsAbout /\ GoneIsGuarded
  BY <1>2 DEF JobIsAbout, GoneIsGuarded, Gone
<1> QED BY <1>1, <1>5, <1>6, <1>7, <1>8 DEF TreeInv, Tidy

\* The step gives at most one note a path: of a folder of the tree, which no other
\* note claims, and none of the files that the operation is about.
OneMove ==
    \/ path' = path
    \/ \E s \in Slugs, p \in Paths :
          /\ path' = [path EXCEPT ![s] = p]
          /\ s \notin dead /\ p[1] \in knownFolders
          /\ p \notin Taken(s) /\ ~Haunted(s, p)
          /\ job.at \in {"rewrite", "trash", "teardown"} =>
                {path[s], p} \cap job.files = {}

\* The step writes no file.  The pass has less to do, or begins on a fresh snapshot.
Quiet ==
    /\ UNCHANGED <<disk, lastWritten, cur, knownFolders, dead>>
    /\ pc' = pc \/ {pc, pc'} \subseteq {"idle", "loop"}
    /\ pc' = "idle" => todo' = {}
    /\ \A s \in Slugs : Held(s)' => \/ Held(s) /\ snapPath'[s] = snapPath[s]
                                    \/ s # cur /\ snapPath'[s] = path'[s]
    /\ OneMove

\* A quiet step gives no path to two notes, and leaves every file with its note.
LEMMA QuietKeepsFiles ==
    ASSUME TypeOK, TypeOK', JobTyped, Tidy, Quiet,
           job' = job \/ {job.at, job'.at} \cap {"rewrite", "teardown"} = {}
    PROVE  Owners' /\ PassPlaced' /\ FilesPlaced'
<1> USE DEF TypeOK
<1>1. /\ Known \subseteq Slugs /\ Known \subseteq Known' /\ Known' \subseteq Slugs
      /\ \A s \in Known : path'[s] \in Paths /\ path[s] \in Paths
  BY SetsAssumption DEF Known, Quiet, OneMove
<1>2. UNCHANGED <<disk, lastWritten, cur, knownFolders, dead>>
  BY DEF Quiet
<1>3. Working \/ Working' => UNCHANGED pc /\ cur \in Slugs /\ Held(cur) /\ Held(cur)'
                               /\ UNCHANGED Target
  BY <1>2 DEF Quiet, Working, Held, Target
<1>4. Owners'
  <2>1. \A t \in Slugs, q \in Paths : Claims(t, q)' => Claims(t, q) \/ q = path'[t]
    BY <1>2 DEF Quiet, Claims
  <2>2. CASE path' = path
    <3>1. Known' = Known
      BY <2>2 DEF Known
    <3>2. \A t \in Slugs, q \in Paths : Claims(t, q)' => Claims(t, q)
      BY <2>1, <2>2 DEF Claims
    <3> QED BY <1>1, <1>2, <2>2, <3>1, <3>2 DEF Tidy, Owners
  <2>3. ASSUME NEW s \in Slugs, NEW p \in Paths, path' = [path EXCEPT ![s] = p],
               s \notin dead, p[1] \in knownFolders, p \notin Taken(s), ~Haunted(s, p)
        PROVE  Owners'
    <3>1. Known' = Known \cup {s} /\ path'[s] = p
      BY <2>3, SetsAssumption DEF Known
    <3>2. \A t \in Known, q \in Paths : t # s /\ Claims(t, q)' => Claims(t, q) /\ q # p
      <4>1. \A t \in Known : t # s => /\ path'[t] = path[t]
                                     /\ p \notin {path[t], lastWritten[t], snapPath[t]}
        BY <1>1, <2>3 DEF Taken, Haunted
      <4> QED BY <1>1, <2>1, <4>1 DEF Claims
    <3>3. \A q \in Paths : Claims(s, q)' => q = p \/ (s \in Known /\ Claims(s, q))
      <4>1. s \notin Known => path[s] = NoPath /\ lastWritten[s] = NoPath
                              /\ (Held(s) => snapPath[s] = NoPath)
        BY <2>3 DEF Known, Tidy, Owners, PassPlaced
      <4> QED BY <2>1, <3>1, <4>1, SetsAssumption DEF Claims
    <3>4. \A t, u \in Known', q \in Paths : t # u => ~(Claims(t, q)' /\ Claims(u, q)')
      BY <3>1, <3>2, <3>3 DEF Tidy, Owners
    <3>5. \A t \in Known', q \in Paths : Claims(t, q)' => q[1] \in knownFolders
      BY <2>3, <3>1, <3>2, <3>3 DEF Tidy, Owners
    <3>6. \A t \in Slugs \ dead : path'[t] = NoPath => lastWritten[t] = NoPath
      BY <2>3, <3>1 DEF Tidy, Owners, Known
    <3> QED BY <1>2, <3>4, <3>5, <3>6 DEF Tidy, Owners
  <2> QED BY <2>2, <2>3 DEF Quiet, OneMove
<1>5. PassPlaced'
  <2>1. \A s \in Slugs : Held(s)' /\ snapPath'[s] # NoPath => path'[s] # NoPath
    <3>1. \A s \in Slugs : path[s] # NoPath => path'[s] # NoPath
      BY <1>1 DEF Known
    <3> QED BY <3>1 DEF Quiet, Tidy, PassPlaced
  <2>2. pc' \in {"idle", "loop"} => cur = NoSlug
    BY DEF Quiet, Tidy, PassPlaced
  <2>3. pc' = "idle" => todo' = {}
    BY DEF Quiet
  <2>4. Working' => UNCHANGED <<disk, lastWritten, cur, pc, Target>>
    BY <1>2, <1>3
  <2> QED BY <1>2, <2>1, <2>2, <2>3, <2>4 DEF Tidy, PassPlaced, Working, Writing
<1>6. \A s \in Slugs, p \in Paths : Tracked(s, p) => Tracked(s, p)'
  <2>1. \A s \in Slugs : s = cur => Working
    BY SetsAssumption DEF Tidy, PassPlaced, Working
  <2> QED BY <1>2, <1>3, <2>1 DEF Tracked, Target
<1>7. FilesPlaced'
  <2>1. /\ Gone' <=> Gone
        /\ Gone => UNCHANGED job
        /\ job.at = "rewrite" <=> job'.at = "rewrite"
    <3>1. CASE job' = job
      BY <3>1 DEF Gone
    <3>2. CASE {job.at, job'.at} \cap {"rewrite", "teardown"} = {}
      <4>1. job.at \notin {"rewrite", "teardown"} /\ job'.at \notin {"rewrite", "teardown"}
        BY <3>2
      <4> QED BY <4>1 DEF Gone
    <3> QED BY <3>1, <3>2
  <2>2. \A s \in Known : s = cur /\ Writing => Writing'
    BY <1>3 DEF Writing, Working
  <2>3. job.at = "rewrite" => \A s \in Known, p \in Paths :
            p \in Files(job.to) /\ path[s] = Rebase(p, job.from) => path'[s] = path[s]
    <3>1. ASSUME job.at = "rewrite", NEW s \in Known, path'[s] # path[s]
          PROVE  path[s] \notin Files(job.from)
      BY <1>1, <3>1 DEF Quiet, OneMove, Tidy, JobIsAbout
    <3>2. job.at = "rewrite" => \A p \in Paths : Rebase(p, job.from) \in Files(job.from)
      BY GridFacts DEF Tidy, JobIsAbout
    <3> QED BY <3>1, <3>2
  <2>4. ASSUME NEW p \in Paths, disk[p] # Missing
        PROVE  IF job'.at = "rewrite" /\ p \in Files(job'.to)
               THEN \E s \in Known' : path'[s] = Rebase(p, job'.from)
               ELSE \E s \in Known' : Tracked(s, p)'
    <3>1. CASE job.at = "rewrite" /\ p \in Files(job.to)
      <4>1. job' = job
        BY <2>1, <3>1 DEF Gone
      <4>2. PICK s \in Known : path[s] = Rebase(p, job.from)
        BY <2>4, <3>1 DEF Tidy, FilesPlaced
      <4>3. path'[s] = path[s]
        BY <2>3, <3>1, <4>2
      <4> QED BY <1>1, <3>1, <4>1, <4>2, <4>3
    <3>2. CASE ~(job.at = "rewrite" /\ p \in Files(job.to))
      <4>1. ~(job'.at = "rewrite" /\ p \in Files(job'.to))
        BY <2>1, <3>2 DEF Gone
      <4>2. PICK s \in Known : Tracked(s, p)
        BY <2>4, <3>2 DEF Tidy, FilesPlaced
      <4> QED BY <1>1, <1>6, <4>1, <4>2
    <3> QED BY <3>1, <3>2
  <2>5. ASSUME NEW s \in Known', lastWritten[s] # NoPath
        PROVE  \/ disk[lastWritten[s]] # Missing
               \/ Gone' /\ lastWritten[s] \in job'.files
               \/ s = cur /\ Writing'
    <3>1. s \in Known
      <4>1. s \in Slugs /\ (s \notin dead \/ path'[s] = path[s])
        BY <1>1 DEF Quiet, OneMove
      <4> QED BY <1>1, <2>5, <4>1 DEF Tidy, Owners, Known
    <3> QED BY <2>1, <2>2, <2>5, <3>1 DEF Tidy, FilesPlaced
  <2> QED BY <1>2, <2>4, <2>5 DEF FilesPlaced
<1> QED BY <1>4, <1>5, <1>7

\* Nor does it bring a note to files that are gone, or take one away from there.
LEMMA QuietKeepsJob ==
    ASSUME TypeOK, JobTyped, Tidy, Quiet,
           job' = job \/ (job.at = "flush" /\ job' = [job EXCEPT !.at = "rename"])
    PROVE  JobIsAbout' /\ GoneIsGuarded'
<1> USE DEF TypeOK, JobTyped
<1>1. UNCHANGED <<disk, lastWritten, cur, knownFolders, dead>>
  BY DEF Quiet
<1>2. /\ job'.from = job.from /\ job'.to = job.to /\ job'.files = job.files
      /\ job'.notes = job.notes
      /\ job'.at = job.at \/ (job.at = "flush" /\ job'.at = "rename")
  <2>1. CASE job' = job
    BY <2>1
  <2>2. CASE job.at = "flush" /\ job' = [job EXCEPT !.at = "rename"]
    BY <2>2
  <2> QED BY <2>1, <2>2
<1>3. job.at \in {"rewrite", "trash", "teardown"} =>
          \A s \in Slugs : path'[s] # path[s] =>
              s \notin dead /\ path'[s] \in Paths /\ {path[s], path'[s]} \cap job.files = {}
  BY DEF Quiet, OneMove
<1>4. JobIsAbout'
  <2>1. job'.at \in {"flush", "rename", "rewrite"} => job.at \in {"flush", "rename", "rewrite"}
    BY <1>2
  <2>2. job'.at \in {"trash", "teardown"} =>
            /\ job.at = job'.at
            /\ \A s \in Slugs : path'[s] \in job.files <=> path[s] \in job.files
    BY <1>2, <1>3
  <2> QED BY <1>1, <1>2, <2>1, <2>2 DEF Tidy, JobIsAbout
<1>5. ASSUME Gone'
      PROVE  GoneIsGuarded'
  <2>1. job' = job /\ Gone /\ job.at \in {"rewrite", "trash", "teardown"}
    BY <1>5 DEF Gone
  <2>2. NoPath \notin job.files
    BY SetsAssumption
  <2>3. \A s \in Known' \ Known : lastWritten[s] = NoPath /\ (Held(s) => snapPath[s] = NoPath)
    <3>1. \A s \in Known' \ Known : s \in Slugs \ dead /\ path[s] = NoPath
      BY <1>3, <2>1 DEF Known
    <3> QED BY <3>1 DEF Tidy, Owners, PassPlaced
  <2>4. ASSUME NEW s \in Known', {path'[s], lastWritten[s]} \cap job.files # {}
        PROVE  path'[s] = lastWritten[s]
    <3>1. s \in Slugs
      BY DEF Known
    <3>2. CASE path'[s] = path[s]
      BY <2>1, <2>4, <3>1, <3>2 DEF Tidy, GoneIsGuarded, Known
    <3>3. CASE path'[s] # path[s]
      <4>1. path[s] \notin job.files /\ path'[s] \notin job.files
        BY <1>3, <2>1, <3>1, <3>3
      <4>2. lastWritten[s] \in job.files /\ s \in Known
        BY ZenonT(30), <2>2, <2>3, <2>4, <3>1, <4>1
      <4> QED BY <2>1, <4>1, <4>2 DEF Tidy, GoneIsGuarded
    <3> QED BY <3>2, <3>3
  <2>5. ASSUME NEW s \in Known', Held(s)', {path'[s], snapPath'[s]} \cap job.files # {}
        PROVE  path'[s] = snapPath'[s] /\ (s = cur => pc' = "guard")
    <3>1. s \in Slugs
      BY DEF Known
    <3>2. CASE s # cur /\ snapPath'[s] = path'[s]
      BY <3>2
    <3>3. CASE Held(s) /\ snapPath'[s] = snapPath[s]
      <4>1. CASE path'[s] = path[s]
        <5>1. path[s] = snapPath[s] /\ (s = cur => pc = "guard")
          BY <2>1, <2>5, <3>1, <3>3, <4>1 DEF Tidy, GoneIsGuarded, Known
        <5> QED BY <3>3, <4>1, <5>1 DEF Quiet
      <4>2. CASE path'[s] # path[s]
        <5>1. path[s] \notin job.files /\ path'[s] \notin job.files
          BY <1>3, <2>1, <3>1, <4>2
        <5>2. snapPath[s] \in job.files
          <6>1. path'[s] \in job.files \/ snapPath'[s] \in job.files
            BY <2>5
          <6> QED BY <3>3, <5>1, <6>1
        <5>3. s \in Known
          BY <2>2, <2>3, <3>3, <5>2
        <5> QED BY <2>1, <3>3, <5>1, <5>2, <5>3 DEF Tidy, GoneIsGuarded
      <4> QED BY <4>1, <4>2
    <3> QED BY <2>5, <3>1, <3>2, <3>3 DEF Quiet
  <2>6. job.at = "rewrite" => \A s \in Known' :
            path'[s] \in job.files => disk[Rebase(path'[s], job.to)] # Missing
    <3>1. \A s \in Slugs : path'[s] \in job.files => path'[s] = path[s]
      BY <1>3, <2>1
    <3> QED BY <2>1, <3>1 DEF Tidy, GoneIsGuarded, Known
  <2>7. \A p \in job.files : disk[p] = Missing
    BY <2>1 DEF Tidy, GoneIsGuarded
  <2> QED BY <1>1, <2>1, <2>4, <2>5, <2>6, <2>7 DEF GoneIsGuarded
<1>6. ~Gone' => GoneIsGuarded'
  BY DEF Gone, GoneIsGuarded
<1> QED BY <1>4, <1>5, <1>6

\* The user, the timer and the loads leave the files alone.
LEMMA EditorIsQuiet ==
    ASSUME TypeOK, JobTyped, Tidy, CatalogStep, ~crossed',
           UserStep \/ FlushTick \/ \E s \in Slugs : Hydrate(s)
    PROVE  Quiet
<1> USE DEF TypeOK
<1>1. UNCHANGED <<disk, lastWritten, knownFolders, dead>>
  BY DEF CatalogStep, UserStep, FlushTick, EnsureHandle, Mount, Unmount, MarkConflict,
     Hydrate, DismissConflict, Edit, ReplaceBody, MoveDocToFolder, CreateNew, CreateSeeded,
     fileVars
<1>2. RequestFlush \/ UNCHANGED passVars
  BY DEF UserStep, FlushTick, EnsureHandle, Mount, Unmount, MarkConflict, Hydrate,
     DismissConflict, Edit, ReplaceBody, MoveDocToFolder, CreateNew, CreateSeeded
<1>3. \/ path' = path
      \/ \E s \in Slugs, p \in Paths :
            path' = [path EXCEPT ![s] = p] /\ p # path[s] /\ p \notin Taken(s)
  <2>1. ASSUME NEW s \in Slugs, NEW p \in Paths,
               MoveDocToFolder(s, p) \/ CreateNew(s, p)
                   \/ \E b \in UserBodies : CreateSeeded(s, p, b)
        PROVE  path' = [path EXCEPT ![s] = p] /\ p # path[s] /\ p \notin Taken(s)
    BY <2>1, SetsAssumption DEF MoveDocToFolder, CreateNew, CreateSeeded, AddOpenDoc
  <2>2. ASSUME NEW s \in Slugs, \/ EnsureHandle(s) \/ Mount(s) \/ Unmount(s) \/ Hydrate(s)
                               \/ MarkConflict(s) \/ DismissConflict(s)
                               \/ \E b \in UserBodies : Edit(s, b) \/ ReplaceBody(s, b)
        PROVE  path' = path
    BY <2>2 DEF EnsureHandle, Mount, Unmount, MarkConflict, DismissConflict, Edit,
       ReplaceBody, Hydrate, docVars
  <2>3. CASE FlushTick
    BY <2>3 DEF FlushTick, docVars
  <2> QED BY <2>1, <2>2, <2>3 DEF UserStep
<1>4. OneMove
  <2>1. ASSUME NEW s \in Slugs, NEW p \in Paths, path' = [path EXCEPT ![s] = p],
               p # path[s], p \notin Taken(s)
        PROVE  OneMove
    <3>1. path'[s] = p /\ path'[s] # path[s]
      BY <2>1
    <3>2. s \notin dead /\ p[1] \in knownFolders
      BY <3>1 DEF CatalogStep
    <3>3. ~Haunted(s, p) /\ (job.at \in {"rewrite", "trash", "teardown"} =>
                                 {path[s], p} \cap job.files = {})
      BY <3>1 DEF CatalogStep
    <3> QED BY <2>1, <3>2, <3>3 DEF OneMove
  <2> QED BY <1>3, <2>1 DEF OneMove
<1>5. CASE UNCHANGED passVars
  <2>1. UNCHANGED <<pc, todo, snapPath, cur>>
    BY <1>5 DEF passVars, snapVars, curVars
  <2> QED BY <1>1, <1>4, <2>1 DEF Quiet, Held, Tidy, PassPlaced
<1>6. CASE pc = "idle" /\ StartPass
  <2>1. cur' = cur /\ cur = NoSlug /\ snapPath' = path' /\ pc' = "loop"
    BY <1>6 DEF StartPass, curVars, Tidy, PassPlaced
  <2> QED BY <1>1, <1>4, <1>6, <2>1, SetsAssumption DEF Quiet
<1> QED BY <1>2, <1>5, <1>6 DEF RequestFlush

\* So does the pass between two notes.
LEMMA LoopIsQuiet ==
    ASSUME TypeOK, JobTyped, Tidy, CatalogStep,
           \/ EndPass
           \/ \E s \in Slugs : SkipConflicted(s) \/ DropUnopened(s) \/ SkipLoading(s)
    PROVE  Quiet
<1> USE DEF TypeOK
<1>1. UNCHANGED <<disk, lastWritten, knownFolders, dead, path, cur>>
  BY DEF CatalogStep, EndPass, StartPass, PassOver, SkipConflicted, DropUnopened,
     SkipLoading, fileVars, docVars, curVars
<1>2. CASE EndPass
  <2>1. {pc, pc'} \subseteq {"idle", "loop"} /\ cur = NoSlug
        /\ (pc' = "idle" => todo' = {}) /\ (snapPath' = path' \/ todo' = {})
    BY <1>2 DEF EndPass, StartPass, PassOver, Tidy, PassPlaced
  <2> QED BY <1>1, <2>1, SetsAssumption DEF Quiet, OneMove, Held
<1>3. ASSUME NEW s \in Slugs, SkipConflicted(s) \/ DropUnopened(s) \/ SkipLoading(s)
      PROVE  Quiet
  <2>1. UNCHANGED <<pc, snapPath>> /\ pc = "loop" /\ todo' \subseteq todo
    BY <1>3 DEF SkipConflicted, DropUnopened, SkipLoading, AtNote
  <2> QED BY <1>1, <2>1 DEF Quiet, OneMove, Held
<1> QED BY <1>2, <1>3

\* A write takes nobody's path.
LEMMA PassKeepsOwners ==
    ASSUME TypeOK, Tidy, UNCHANGED <<path, snapPath, knownFolders, dead>>,
           \A s \in Slugs : Held(s)' => Held(s),
           \A s \in Slugs : \/ lastWritten'[s] = lastWritten[s]
                           \/ /\ Held(s) /\ lastWritten'[s] = snapPath[s]
                              /\ snapPath[s] # NoPath
    PROVE  Owners'
<1>1. Known' = Known
  BY DEF Known
<1>2. \A s \in Slugs, p \in Paths : Claims(s, p)' => Claims(s, p)
  BY DEF Claims
<1>3. \A s \in Slugs : path[s] = NoPath => lastWritten'[s] = lastWritten[s]
  BY DEF Tidy, PassPlaced
<1>4. Known \subseteq Slugs
  BY DEF Known
<1> QED BY <1>1, <1>2, <1>3, <1>4 DEF Tidy, Owners

\* A note that the pass is writing has a path in the tree and is none of those whose
\* files are gone.
LEMMA CurIsApart ==
    ASSUME TypeOK, JobTyped, Tidy, Working
    PROVE  /\ cur \in Known /\ cur \in Slugs /\ Held(cur)
           /\ Target \in Paths /\ Target # NoPath /\ curBody # Missing
           /\ Gone /\ pc # "guard" =>
                 {path[cur], lastWritten[cur], Target} \cap job.files = {}
           /\ job.at = "rewrite" => {lastWritten[cur], Target} \cap Files(job.to) = {}
<1>1. /\ cur \in Slugs /\ Held(cur)
      /\ Target \in Paths /\ Target # NoPath /\ curBody # Missing
  BY SetsAssumption DEF TypeOK, Held
<1>2. cur \in Known
  BY <1>1 DEF Tidy, PassPlaced, Known, Target
<1>3. ASSUME Gone, pc # "guard"
      PROVE  {path[cur], lastWritten[cur], Target} \cap job.files = {}
  <2>1. path[cur] \notin job.files /\ Target \notin job.files
    BY <1>1, <1>2, <1>3 DEF Tidy, GoneIsGuarded, Target
  <2>2. lastWritten[cur] \notin job.files
    BY <1>2, <1>3, <2>1 DEF Tidy, GoneIsGuarded
  <2> QED BY <2>1, <2>2
<1>4. ASSUME job.at = "rewrite"
      PROVE  {lastWritten[cur], Target} \cap Files(job.to) = {}
  <2>1. job.to \in Folders /\ job.to \notin knownFolders
    BY <1>4 DEF Tidy, JobIsAbout
  <2>2. \A p \in Paths : p \in {lastWritten[cur], Target} => p[1] \in knownFolders
    BY <1>1, <1>2 DEF Tidy, Owners, Claims, Target
  <2>3. \A p \in Files(job.to) : p \in Paths /\ p[1] = job.to
    BY <2>1, GridFacts
  <2> QED BY <2>1, <2>2, <2>3
<1> QED BY <1>1, <1>2, <1>3, <1>4

\* The pass stops at no note of the operation beyond the stale-path guard, writes to
\* none of its files, and leaves the new directory alone.
LEMMA PassKeepsGone ==
    ASSUME TypeOK, JobTyped, Tidy, UNCHANGED <<path, snapPath, job>>,
           \A s \in Slugs : Held(s)' => Held(s),
           \A s \in Slugs : lastWritten'[s] # lastWritten[s] =>
               s = cur /\ Working /\ pc # "guard" /\ lastWritten'[s] = Target,
           \/ cur' \notin Slugs \/ pc' = "guard"
           \/ Gone => {path[cur'], snapPath[cur']} \cap job.files = {},
           \A p \in Paths : disk'[p] # disk[p] =>
               Working /\ pc # "guard" /\ p \in {lastWritten[cur], Target}
    PROVE  GoneIsGuarded'
<1>1. Known' = Known /\ Known \subseteq Slugs /\ job.files \subseteq Paths
  BY DEF Known, JobTyped
<1>2. CASE ~Gone
  BY <1>2 DEF Gone, GoneIsGuarded
<1>3. ASSUME Gone
      PROVE  GoneIsGuarded'
  <2>1. \A p \in job.files : disk'[p] = Missing
    BY <1>1, <1>3, CurIsApart DEF Tidy, GoneIsGuarded
  <2>2. \A s \in Known : {path[s], lastWritten'[s]} \cap job.files # {}
                             => path[s] = lastWritten'[s]
    <3> SUFFICES ASSUME NEW s \in Known, {path[s], lastWritten'[s]} \cap job.files # {}
                 PROVE  path[s] = lastWritten'[s]
      OBVIOUS
    <3>1. CASE lastWritten'[s] = lastWritten[s]
      BY <1>3, <3>1 DEF Tidy, GoneIsGuarded
    <3>2. CASE lastWritten'[s] # lastWritten[s]
      <4>1. s = cur /\ Working /\ pc # "guard" /\ lastWritten'[s] = Target
        BY <1>1, <3>2
      <4> QED BY <1>3, <4>1, CurIsApart
    <3> QED BY <3>1, <3>2
  <2>3. \A s \in Known : Held(s)' /\ {path[s], snapPath[s]} \cap job.files # {} =>
             path[s] = snapPath[s] /\ (s = cur' => pc' = "guard")
    BY <1>1, <1>3 DEF Tidy, GoneIsGuarded
  <2>4. ASSUME job.at = "rewrite", NEW s \in Known, path[s] \in job.files
        PROVE  disk'[Rebase(path[s], job.to)] # Missing
    <3>1. job.to \in Folders /\ path[s] \in Paths
      BY <1>1, <2>4 DEF Tidy, JobIsAbout
    <3>2. Rebase(path[s], job.to) \in Files(job.to) /\ Rebase(path[s], job.to) \in Paths
      BY <3>1, GridFacts
    <3>3. disk'[Rebase(path[s], job.to)] = disk[Rebase(path[s], job.to)]
      BY <2>4, <3>2, CurIsApart
    <3> QED BY <2>4, <3>3 DEF Tidy, GoneIsGuarded
  <2> QED BY <1>1, <2>1, <2>2, <2>3, <2>4 DEF GoneIsGuarded
<1> QED BY <1>2, <1>3

\* A step that writes no file and lets go of none keeps them in place.
LEMMA SameFiles ==
    ASSUME Tidy, UNCHANGED <<disk, lastWritten, path, job>>,
           \A s \in Known, p \in Paths : Tracked(s, p) => Tracked(s, p)',
           Writing => Writing' /\ cur' = cur
    PROVE  FilesPlaced'
<1>1. Known' = Known /\ (Gone' <=> Gone)
  BY DEF Known, Gone
<1>2. \A p \in Paths : (\E s \in Known : Tracked(s, p)) => \E s \in Known : Tracked(s, p)'
  OBVIOUS
<1> QED BY <1>1, <1>2 DEF Tidy, FilesPlaced

\* What the operation is about does not change while it and the catalog do not.
LEMMA JobStays ==
    ASSUME Tidy, UNCHANGED <<path, job, knownFolders>>
    PROVE  JobIsAbout'
BY DEF Tidy, JobIsAbout

\* The pass takes up a note of the catalog.
LEMMA TidyBegin ==
    ASSUME TypeOK, JobTyped, Tidy, NEW s \in Slugs, BeginNote(s),
           UNCHANGED <<job, knownFolders, dead>>
    PROVE  Tidy'
<1>1. /\ UNCHANGED <<path, disk, lastWritten, snapPath>> /\ snapPath[s] # NoPath
      /\ pc = "loop" /\ cur = NoSlug /\ cur' = s /\ s \in todo /\ todo' \subseteq todo
      /\ pc' \in {"compare", "guard", "probe"}
      /\ pc' = "compare" <=> lastWritten[s] = NoPath
      /\ pc' = "guard" => lastWritten[s] = snapPath[s]
      /\ lastWritten[s] = snapPath[s] => pc' = "guard"
  BY DEF BeginNote, AtNote, Writable, docVars, fileVars, Tidy, PassPlaced
<1>2. \A t \in Slugs : Held(t)' => Held(t)
  BY <1>1 DEF Held
<1>3. s \in Known /\ Held(s)
  BY <1>1 DEF Tidy, PassPlaced, Known, Held
<1>4. Owners'
  BY <1>1, <1>2, PassKeepsOwners
<1>5. PassPlaced'
  <2>1. snapPath[s] # lastWritten[s] => disk[snapPath[s]] = Missing
    <3>1. snapPath[s] \in Paths /\ Claims(s, snapPath[s])
      BY <1>1, <1>3 DEF TypeOK, Claims
    <3>2. ~(job.at = "rewrite" /\ snapPath[s] \in Files(job.to))
      BY <1>3, <3>1, GridFacts DEF Tidy, Owners, JobIsAbout
    <3>3. ASSUME NEW t \in Known, snapPath[s] = lastWritten[t] PROVE t = s
      BY <1>3, <3>1, <3>3 DEF Tidy, Owners, Claims
    <3>4. \A t \in Known : t # cur
      BY <1>1, SetsAssumption DEF Known
    <3> QED BY <3>1, <3>2, <3>3, <3>4 DEF Tidy, FilesPlaced, Tracked
  <2> QED BY <1>1, <1>2, <1>3, <2>1 DEF PassPlaced, Tidy, Target, Writing, Known
<1>6. FilesPlaced'
  <2>1. \A t \in Known, p \in Paths : Tracked(t, p) => Tracked(t, p)'
    BY <1>1, SetsAssumption DEF Tracked, Known
  <2>2. ~Writing
    BY <1>1 DEF Writing
  <2> QED BY <1>1, <2>1, <2>2, SameFiles
<1>7. GoneIsGuarded'
  <2>1. Gone /\ {path[s], snapPath[s]} \cap job.files # {} => pc' = "guard"
    BY <1>1, <1>3 DEF Tidy, GoneIsGuarded
  <2> QED BY <1>1, <1>2, <2>1, PassKeepsGone
<1> QED BY <1>1, <1>4, <1>5, <1>6, <1>7, JobStays DEF Tidy

\* It looks where the files are, and what they hold.
LEMMA TidyLook ==
    ASSUME TypeOK, JobTyped, Tidy, ProbeOld \/ CheckTarget \/ Compare \/ NoteWrite,
           UNCHANGED <<job, knownFolders, dead>>
    PROVE  Tidy'
<1>1. /\ UNCHANGED <<path, disk, lastWritten, snapPath, todo>> /\ Working
      /\ \/ cur' = cur
         \/ pc = "guard" /\ pc' = "loop" /\ cur' = NoSlug
  BY DEF ProbeOld, CheckTarget, Compare, NoteWrite, Goto, LeaveNote, docVars, fileVars,
     snapVars, curVars, Working
<1>2. /\ cur' = cur /\ pc = "probe" => \/ pc' = "compare" /\ disk[lastWritten[cur]] = Missing
                                       \/ pc' = "rename"
      /\ cur' = cur /\ pc = "guard" => pc' = "compare"
      /\ Writing => Writing' /\ cur' = cur /\ (pc' = "settle" => disk[Target] = curBody)
      /\ pc \notin {"rename", "settle"}
  BY SetsAssumption DEF ProbeOld, CheckTarget, Compare, NoteWrite, Goto, LeaveNote, docVars,
     fileVars, snapVars, curVars, Writing, TypeOK, Working
<1>3. \A t \in Slugs : Held(t)' => Held(t)
  BY <1>1, SetsAssumption DEF Held
<1>4. cur \in Known /\ curBody # Missing
  BY <1>1, CurIsApart
<1>5. Owners'
  BY <1>1, <1>3, PassKeepsOwners
<1>6. PassPlaced'
  <2>1. \A s \in Slugs : Held(s)' /\ snapPath'[s] # NoPath => path'[s] # NoPath
    BY <1>1, <1>3 DEF Tidy, PassPlaced
  <2>2. CASE pc' = "loop" /\ cur' = NoSlug
    BY <2>1, <2>2 DEF PassPlaced, Writing
  <2>3. CASE cur' = cur
    BY <1>1, <1>2, <1>4, <2>1, <2>3 DEF Tidy, PassPlaced, Writing, Working, Target, TypeOK
  <2> QED BY <1>1, <2>2, <2>3
<1>7. FilesPlaced'
  <2>1. \A t \in Known, p \in Paths : Tracked(t, p) => Tracked(t, p)'
    BY <1>1 DEF Tracked, Target, Tidy, PassPlaced
  <2> QED BY <1>1, <1>2, <2>1, SameFiles
<1>8. GoneIsGuarded'
  <2>1. CASE pc = "guard" /\ disk[Target] # Missing
    <3>1. Gone => Target \notin job.files
      BY <2>1 DEF Tidy, GoneIsGuarded
    <3>2. Gone => path[cur] \notin job.files
      BY <1>1, <1>4, <3>1, CurIsApart DEF Tidy, GoneIsGuarded, Target
    <3>3. cur' \notin Slugs \/ (Gone => {path[cur'], snapPath[cur']} \cap job.files = {})
      BY <1>1, <3>1, <3>2, SetsAssumption DEF Target
    <3> QED BY <1>1, <1>3, <3>3, PassKeepsGone
  <2>2. CASE pc = "guard" /\ disk[Target] = Missing
    <3>1. cur' = NoSlug
      BY <2>2 DEF ProbeOld, CheckTarget, Compare, NoteWrite, LeaveNote
    <3> QED BY <1>1, <1>3, <3>1, PassKeepsGone, SetsAssumption
  <2>3. CASE pc # "guard"
    <3>1. cur' = cur /\ (Gone => {path[cur], snapPath[cur]} \cap job.files = {})
      BY <1>1, <2>3, CurIsApart DEF Target
    <3> QED BY <1>1, <1>3, <3>1, PassKeepsGone
  <2> QED BY <2>1, <2>2, <2>3
<1> QED BY <1>1, <1>5, <1>6, <1>7, <1>8, JobStays DEF Tidy

\* It takes the file of a note along to where the catalog has the note.
LEMMA TidyMove ==
    ASSUME TypeOK, JobTyped, Tidy, MoveFile, UNCHANGED <<job, knownFolders, dead>>
    PROVE  Tidy'
<1>1. /\ UNCHANGED <<path, lastWritten, snapPath, todo, cur>>
      /\ Working /\ pc = "rename" /\ pc' = "compare" /\ disk[lastWritten[cur]] # Missing
  BY DEF MoveFile, Goto, docVars, snapVars, curVars, Working
<1>2. lastWritten[cur] \in Paths /\ lastWritten[cur] # Target
  BY <1>1 DEF TypeOK, Tidy, PassPlaced
<1>3. \A p \in Paths : disk'[p] = IF p = lastWritten[cur] THEN Missing
                                 ELSE IF p = Target THEN disk[lastWritten[cur]] ELSE disk[p]
  BY <1>2, CurIsApart DEF MoveFile, TypeOK
<1>4. \A t \in Slugs : Held(t)' <=> Held(t)
  BY <1>1 DEF Held
<1>5. Owners'
  BY <1>1, <1>4, PassKeepsOwners
<1>6. PassPlaced'
  BY <1>1, <1>2, <1>3, <1>4 DEF Tidy, PassPlaced, Target, Writing
<1>7. FilesPlaced'
  <2>1. Known' = Known /\ Known \subseteq Slugs /\ (Gone' <=> Gone) /\ Writing'
    BY <1>1 DEF Known, Gone, Writing
  <2>2. job.at = "rewrite" => {lastWritten[cur], Target} \cap Files(job.to) = {}
    BY <1>1, CurIsApart
  <2>3. \A s \in Known, p \in Paths : Tracked(s, p)' <=> Tracked(s, p)
    BY <1>1 DEF Tracked
  <2>4. ASSUME NEW p \in Paths, disk'[p] # Missing
        PROVE  IF job.at = "rewrite" /\ p \in Files(job.to)
               THEN \E s \in Known : path[s] = Rebase(p, job.from)
               ELSE \E s \in Known : Tracked(s, p)
    <3>1. CASE p = Target
      <4>1. cur \in Known /\ Tracked(cur, p)
        BY <1>1, <3>1, CurIsApart DEF Tracked, Target
      <4> QED BY <2>2, <3>1, <4>1
    <3>2. CASE p # Target
      BY <1>3, <2>4, <3>2 DEF Tidy, FilesPlaced
    <3> QED BY <3>1, <3>2
  <2>5. ASSUME NEW s \in Known, lastWritten[s] # NoPath, s # cur
        PROVE  disk'[lastWritten[s]] # Missing \/ (Gone /\ lastWritten[s] \in job.files)
    <3>1. lastWritten[s] \in Paths /\ cur \in Known
      BY <1>1, <2>1, <2>5, CurIsApart DEF TypeOK
    <3>2. lastWritten[s] # lastWritten[cur]
      BY <1>2, <2>5, <3>1 DEF Tidy, Owners, Claims
    <3>3. disk[lastWritten[s]] # Missing => disk'[lastWritten[s]] # Missing
      BY <1>1, <1>3, <3>1, <3>2
    <3> QED BY <2>5, <3>3 DEF Tidy, FilesPlaced
  <2> QED BY <1>1, <2>1, <2>3, <2>4, <2>5 DEF FilesPlaced
<1>8. GoneIsGuarded'
  <2>1. Gone => {path[cur'], snapPath[cur']} \cap job.files = {}
    BY <1>1, CurIsApart DEF Target
  <2> QED BY <1>1, <1>3, <1>4, <2>1, PassKeepsGone
<1> QED BY <1>1, <1>5, <1>6, <1>7, <1>8, JobStays DEF Tidy

\* It writes where the catalog had the note when the pass began.
LEMMA TidyCommit ==
    ASSUME TypeOK, JobTyped, Tidy, CommitWrite, UNCHANGED <<job, knownFolders, dead>>
    PROVE  Tidy'
<1>1. /\ UNCHANGED <<path, lastWritten, snapPath, todo, cur>>
      /\ Working /\ pc = "commit" /\ pc' = "settle"
  BY DEF CommitWrite, Goto, docVars, snapVars, curVars, Working
<1>2. /\ cur \in Known /\ Target \in Paths /\ curBody # Missing
      /\ \A p \in Paths : disk'[p] = IF p = Target THEN curBody ELSE disk[p]
  BY <1>1, CurIsApart DEF CommitWrite, TypeOK
<1>3. \A t \in Slugs : Held(t)' <=> Held(t)
  BY <1>1 DEF Held
<1>4. Owners'
  BY <1>1, <1>3, PassKeepsOwners
<1>5. PassPlaced'
  <2>1. \/ lastWritten[cur] \in {NoPath, Target}
        \/ disk'[lastWritten[cur]] = Missing
    <3>1. lastWritten[cur] \in Paths \cup {NoPath}
      BY <1>2 DEF TypeOK, Known
    <3> QED BY <1>1, <1>2, <3>1 DEF Tidy, PassPlaced, Writing
  <2> QED BY <1>1, <1>2, <1>3, <2>1 DEF Tidy, PassPlaced, Target, Writing
<1>6. FilesPlaced'
  <2>1. Known' = Known /\ Known \subseteq Slugs /\ (Gone' <=> Gone) /\ Writing'
    BY <1>1 DEF Known, Gone, Writing
  <2>2. job.at = "rewrite" => Target \notin Files(job.to)
    BY <1>1, CurIsApart
  <2>3. \A s \in Known, p \in Paths : Tracked(s, p)' <=> Tracked(s, p)
    BY <1>1 DEF Tracked
  <2>4. Tracked(cur, Target)
    BY DEF Tracked, Target
  <2>5. \A p \in Paths : disk[p] # Missing => disk'[p] # Missing
    BY <1>2
  <2>6. \A s \in Known : lastWritten[s] # NoPath => lastWritten[s] \in Paths
    BY <2>1 DEF TypeOK
  <2>7. \A s \in Known : lastWritten[s] # NoPath =>
            \/ disk'[lastWritten[s]] # Missing
            \/ Gone /\ lastWritten[s] \in job.files
            \/ s = cur
    BY <2>5, <2>6 DEF Tidy, FilesPlaced
  <2>8. \A p \in Paths : disk'[p] # Missing =>
            IF job.at = "rewrite" /\ p \in Files(job.to)
            THEN \E s \in Known : path[s] = Rebase(p, job.from)
            ELSE \E s \in Known : Tracked(s, p)
    BY <1>2, <2>2, <2>4 DEF Tidy, FilesPlaced
  <2> QED BY <1>1, <2>1, <2>3, <2>7, <2>8 DEF FilesPlaced
<1>7. GoneIsGuarded'
  <2>1. Gone => {path[cur'], snapPath[cur']} \cap job.files = {}
    BY <1>1, CurIsApart DEF Target
  <2> QED BY <1>1, <1>2, <1>3, <2>1, PassKeepsGone
<1> QED BY <1>1, <1>4, <1>5, <1>6, <1>7, JobStays DEF Tidy

\* It tells the rename tracker where it has written the note, and leaves it.
LEMMA TidySettle ==
    ASSUME TypeOK, JobTyped, Tidy, Settle, UNCHANGED <<job, knownFolders, dead>>
    PROVE  Tidy'
<1>1. /\ UNCHANGED <<path, disk, snapPath, todo>>
      /\ Working /\ pc = "settle" /\ pc' = "loop" /\ cur' = NoSlug
  BY DEF Settle, LeaveNote, docVars, snapVars, Working
<1>2. /\ cur \in Known /\ cur \in Slugs /\ Held(cur)
      /\ Target \in Paths /\ Target # NoPath /\ disk[Target] # Missing
      /\ \A s \in Slugs : lastWritten'[s] = IF s = cur THEN Target ELSE lastWritten[s]
  BY <1>1, CurIsApart DEF Settle, TypeOK, Tidy, PassPlaced
<1>3. \A t \in Slugs : Held(t)' => Held(t)
  BY <1>1, SetsAssumption DEF Held
<1>4. Owners'
  BY <1>1, <1>2, <1>3, PassKeepsOwners DEF Target
<1>5. PassPlaced'
  BY <1>1, <1>2, <1>3 DEF Tidy, PassPlaced, Writing
<1>6. FilesPlaced'
  <2>1. Known' = Known /\ Known \subseteq Slugs /\ (Gone' <=> Gone)
    BY <1>1 DEF Known, Gone
  <2>2. \A s \in Known, p \in Paths : disk[p] # Missing /\ Tracked(s, p) => Tracked(s, p)'
    <3>1. \A s \in Known : s # cur => \A p \in Paths : Tracked(s, p) => Tracked(s, p)'
      BY <1>2, <2>1 DEF Tracked
    <3>2. \A p \in Paths : disk[p] # Missing /\ Tracked(cur, p) => p = Target
      BY <1>1, SetsAssumption DEF Tracked, Target, Tidy, PassPlaced, Writing
    <3>3. \A p \in Paths : disk[p] # Missing /\ Tracked(cur, p) => lastWritten'[cur] = p
      BY <1>2, <3>2
    <3> QED BY <3>1, <3>3 DEF Tracked
  <2>3. \A s \in Known : lastWritten'[s] # NoPath =>
            disk[lastWritten'[s]] # Missing \/ (Gone /\ lastWritten'[s] \in job.files)
    BY <1>2, <2>1 DEF Tidy, FilesPlaced
  <2>4. \A p \in Paths : disk[p] # Missing /\ ~(job.at = "rewrite" /\ p \in Files(job.to)) =>
            \E s \in Known : Tracked(s, p)'
    BY <2>2 DEF Tidy, FilesPlaced
  <2> QED BY <1>1, <2>1, <2>3, <2>4 DEF Tidy, FilesPlaced
<1>7. GoneIsGuarded'
  BY <1>1, <1>2, <1>3, PassKeepsGone, SetsAssumption
<1> QED BY <1>1, <1>4, <1>5, <1>6, <1>7, JobStays DEF Tidy

\* No step of the rest of the program loses the track of a file, when no write fails.
LEMMA TidyCatalog ==
    ASSUME MaxFails = 0, TypeOK, TypeOK', JobTyped, Tidy, CatalogStep, ~crossed'
    PROVE  Tidy'
<1>1. job' = job \/ (job.at = "flush" /\ job' = [job EXCEPT !.at = "rename"])
  BY DEF CatalogStep, At
<1>2. ASSUME Quiet PROVE Tidy'
  <2>1. job' = job \/ {job.at, job'.at} \cap {"rewrite", "teardown"} = {}
    BY <1>1 DEF JobTyped
  <2> QED BY <1>1, <1>2, <2>1, QuietKeepsFiles, QuietKeepsJob DEF Tidy
<1>3. CASE UserStep \/ FlushTick \/ \E s \in Slugs : Hydrate(s)
  BY <1>2, <1>3, EditorIsQuiet
<1>4. CASE EndPass \/ \E s \in Slugs : SkipConflicted(s) \/ DropUnopened(s) \/ SkipLoading(s)
  BY <1>2, <1>4, LoopIsQuiet
<1>5. pc' # "idle" => UNCHANGED <<job, knownFolders, dead>>
  BY DEF CatalogStep
<1>6. ASSUME NEW s \in Slugs, BeginNote(s) PROVE Tidy'
  <2>1. pc' # "idle"
    BY <1>6 DEF BeginNote
  <2> QED BY <1>5, <1>6, <2>1, TidyBegin
<1>7. CASE FileStep \/ Settle
  <2>1. pc' # "idle"
    BY <1>7 DEF FileStep, ProbeOld, MoveFile, CheckTarget, Compare, NoteWrite, CommitWrite,
       Settle, Goto, LeaveNote
  <2> QED BY <1>5, <1>7, <2>1, TidyLook, TidyMove, TidyCommit, TidySettle DEF FileStep
<1>8. ~WriteFails
  <2>1. WriteFails => fails[cur] \in Nat
    BY DEF WriteFails, TypeOK, Working
  <2> QED BY <2>1 DEF WriteFails
<1> QED BY <1>3, <1>4, <1>6, <1>7, <1>8 DEF CatalogStep, PassStep, LoopStep

\* A call leaves the files alone, and an operation that fails does too.
LEMMA TidyCalls ==
    ASSUME TypeOK, TypeOK', JobTyped, Tidy,
           UNCHANGED <<path, disk, lastWritten, knownFolders, dead>>,
           UNCHANGED passVars \/ RequestFlush,
           {job.at, job'.at} \cap {"rewrite", "teardown"} = {}, JobIsAbout'
    PROVE  Tidy'
<1>1. Quiet
  <2>1. CASE UNCHANGED passVars
    <3>1. UNCHANGED <<pc, todo, snapPath, cur>>
      BY <2>1 DEF passVars, snapVars, curVars
    <3> QED BY <3>1 DEF Quiet, OneMove, Held, Tidy, PassPlaced
  <2>2. CASE pc = "idle" /\ StartPass
    BY <2>2, SetsAssumption DEF StartPass, curVars, Tidy, PassPlaced, Quiet, OneMove
  <2> QED BY <2>1, <2>2 DEF RequestFlush
<1>2. GoneIsGuarded'
  BY DEF Gone, GoneIsGuarded
<1> QED BY <1>1, <1>2, QuietKeepsFiles DEF Tidy

\* When the operation takes the files of nobody who is being loaded, written or moved,
\* they are where both the catalog and the rename tracker have their notes, and the
\* pass is not at work on those.
LEMMA Unexposed ==
    ASSUME Tidy, ~Exposed(job.files)
    PROVE  /\ \A s \in Slugs : Held(s) =>
                 path[s] \notin job.files /\ snapPath[s] \notin job.files
           /\ \A s \in Known : path[s] \in job.files \/ lastWritten[s] \in job.files
                                   => path[s] = lastWritten[s] /\ ~Held(s)
           /\ Working /\ cur \in Slugs => Target \notin job.files
BY DEF Exposed, Held, Known, Target

\* The directory is renamed: its files are now where their notes will be, and no pass is at
\* work on them.
LEMMA TidyRename ==
    ASSUME TypeOK, JobTyped, Tidy, RenameDirectory, ~crossed', job' # NoJob
    PROVE  Tidy'
<1>1. /\ UNCHANGED <<path, lastWritten, snapPath, todo, cur, pc, knownFolders, dead>>
      /\ job.at = "rename" /\ job' = [job EXCEPT !.at = "rewrite"] /\ ~Exposed(job.files)
      /\ \A q \in Files(job.to) : disk[q] = Missing
      /\ disk' = [p \in Paths |->
                    CASE p \in Files(job.to)   -> disk[Rebase(p, job.from)]
                      [] p \in Files(job.from) -> Missing
                      [] OTHER                 -> disk[p]]
  BY DEF RenameDirectory, At, Step, PassFrame, docVars, passVars, snapVars, curVars
<1>2. /\ job.from \in Folders /\ job.to \in Folders /\ job.from # job.to
      /\ job.files = Files(job.from) /\ job.to \notin knownFolders
  BY <1>1 DEF Tidy, JobIsAbout
<1>3. /\ job'.at = "rewrite" /\ job'.from = job.from /\ job'.to = job.to
      /\ job'.files = job.files /\ job'.notes = job.notes
  BY <1>1 DEF JobTyped
<1>4. /\ \A p \in Paths : p \in Files(job.to) => disk'[p] = disk[Rebase(p, job.from)]
      /\ \A p \in Paths : p \in job.files => disk'[p] = Missing
      /\ \A p \in Paths : p \notin Files(job.to) /\ p \notin job.files => disk'[p] = disk[p]
  <2>1. \A p \in Paths : ~(p \in Files(job.to) /\ p \in Files(job.from))
    BY <1>2, GridFacts
  <2> QED BY <1>1, <1>2, <2>1
<1>5. \A t \in Slugs : Held(t)' <=> Held(t)
  BY <1>1 DEF Held
<1>6. Known' = Known /\ Known \subseteq Slugs /\ \A s \in Known : path[s] \in Paths
  BY <1>1 DEF Known, TypeOK
<1>7. \A s \in Known, p \in Paths : Claims(s, p) => p \notin Files(job.to)
  BY <1>2, GridFacts DEF Tidy, Owners
<1>8. Owners'
  BY <1>1, <1>5, <1>6, PassKeepsOwners
<1>9. PassPlaced'
  <2>1. ASSUME Working
        PROVE  /\ disk'[Target] = disk[Target]
               /\ lastWritten[cur] # NoPath /\ disk[lastWritten[cur]] = Missing
                      => disk'[lastWritten[cur]] = Missing
    <3>1. cur \in Known /\ cur \in Slugs /\ Held(cur) /\ Target \in Paths
      BY <2>1, CurIsApart
    <3>2. Claims(cur, Target) /\ Claims(cur, lastWritten[cur])
      BY <3>1 DEF Claims, Target
    <3>3. Target \notin job.files
      BY <1>1, <2>1, <3>1, Unexposed
    <3>4. lastWritten[cur] # NoPath => lastWritten[cur] \in Paths
      BY <3>1 DEF TypeOK
    <3> QED BY <1>4, <1>7, <3>1, <3>2, <3>3, <3>4
  <2>2. Target' = Target
    BY <1>1 DEF Target
  <2> QED BY <1>1, <1>5, <2>1, <2>2 DEF Tidy, PassPlaced, Writing, Working
<1>10. FilesPlaced'
  <2>1. \A s \in Known, p \in Paths : Tracked(s, p)' <=> Tracked(s, p)
    BY <1>1 DEF Tracked
  <2>2. ASSUME NEW p \in Paths, disk'[p] # Missing, p \in Files(job.to)
        PROVE  \E s \in Known : path[s] = Rebase(p, job.from)
    <3>1. /\ Rebase(p, job.from) \in job.files /\ Rebase(p, job.from) \in Paths
          /\ disk[Rebase(p, job.from)] # Missing
      BY <1>2, <1>4, <2>2, GridFacts
    <3>2. PICK s \in Known : Tracked(s, Rebase(p, job.from))
      BY <1>1, <3>1 DEF Tidy, FilesPlaced
    <3>3. Rebase(p, job.from) = lastWritten[s]
      BY <1>1, <1>6, <3>1, <3>2, Unexposed DEF Tracked, Held
    <3> QED BY <1>1, <3>1, <3>3, Unexposed
  <2>3. ASSUME NEW p \in Paths, disk'[p] # Missing, p \notin Files(job.to)
        PROVE  \E s \in Known : Tracked(s, p)
    BY <1>1, <1>4, <2>3 DEF Tidy, FilesPlaced
  <2>4. ASSUME NEW s \in Known, lastWritten[s] # NoPath, lastWritten[s] \notin job.files
        PROVE  disk'[lastWritten[s]] # Missing \/ (s = cur /\ Writing)
    <3>1. lastWritten[s] \in Paths /\ Claims(s, lastWritten[s])
      BY <1>6, <2>4 DEF TypeOK, Claims
    <3>2. disk'[lastWritten[s]] = disk[lastWritten[s]]
      BY <1>4, <1>7, <2>4, <3>1
    <3> QED BY <2>4, <3>2 DEF Tidy, FilesPlaced
  <2> QED BY <1>1, <1>3, <1>6, <2>1, <2>2, <2>3, <2>4 DEF FilesPlaced, Gone, Writing
<1>11. JobIsAbout'
  BY <1>1, <1>2, <1>3 DEF JobIsAbout
<1>12. GoneIsGuarded'
  <2>1. ASSUME NEW s \in Known, path[s] \in job.files
        PROVE  disk'[Rebase(path[s], job.to)] # Missing
    <3>1. path[s] = lastWritten[s] /\ ~Held(s)
      BY <1>1, <2>1, Unexposed
    <3>2. disk[path[s]] # Missing
      BY <1>1, <1>6, <3>1, SetsAssumption DEF Tidy, FilesPlaced, Gone, Held, TypeOK
    <3>3. /\ Rebase(path[s], job.to) \in Paths /\ Rebase(path[s], job.to) \in Files(job.to)
          /\ Rebase(Rebase(path[s], job.to), job.from) = path[s]
      BY <1>2, <1>6, <2>1, GridFacts
    <3> QED BY <1>4, <3>2, <3>3
  <2>2. job.files \subseteq Paths
    BY DEF JobTyped
  <2>3. /\ \A s \in Known : {path[s], lastWritten[s]} \cap job.files # {}
                                 => path[s] = lastWritten[s]
        /\ \A s \in Known : Held(s) => {path[s], snapPath[s]} \cap job.files = {}
    BY <1>1, <1>6, Unexposed
  <2> QED BY <1>1, <1>3, <1>4, <1>5, <1>6, <2>1, <2>2, <2>3 DEF GoneIsGuarded
<1> QED BY <1>8, <1>9, <1>10, <1>11, <1>12 DEF Tidy

\* The notes of the folder, the ones that came in meanwhile with them, follow to where
\* the files are; nobody else is there.
LEMMA TidyRewrite ==
    ASSUME TypeOK, JobTyped, Tidy, RewriteCatalog, ~crossed'
    PROVE  Tidy'
<1> DEFINE Moved == NotesIn(job.from)
<1>1. /\ UNCHANGED <<disk, snapPath, todo, cur, pc, dead>>
      /\ job.at = "rewrite" /\ job'.at = "done" /\ ~Exposed(job.files)
      /\ knownFolders' = (knownFolders \ {job.from}) \cup {job.to}
      /\ \A s \in Slugs :
             /\ path'[s] = IF s \in Moved THEN Rebase(path[s], job.to) ELSE path[s]
             /\ lastWritten'[s] = IF s \in Moved THEN path'[s] ELSE lastWritten[s]
  BY DEF RewriteCatalog, Follow, At, NoJob, PassFrame, passVars, snapVars, curVars
<1>2. /\ job.from \in Folders /\ job.to \in Folders /\ job.from # job.to
      /\ job.files = Files(job.from) /\ job.to \notin knownFolders
      /\ knownFolders \subseteq Folders
  BY <1>1 DEF Tidy, JobIsAbout, Owners
<1>3. /\ Known \subseteq Slugs /\ Moved \subseteq Known
      /\ \A s \in Known : path[s] \in Paths /\ (s \in Moved <=> path[s] \in job.files)
  BY <1>2 DEF Known, NotesIn, TypeOK
<1> HIDE DEF Moved
\* Where the notes of the folder go.
<1>4. \A s \in Moved :
          /\ ~Held(s) /\ path[s] = lastWritten[s]
          /\ path'[s] \in Paths /\ path'[s] \in Files(job.to) /\ path'[s][1] = job.to
          /\ path'[s] # NoPath /\ lastWritten'[s] = path'[s]
          /\ path[s] = Rebase(path'[s], job.from)
          /\ disk[path'[s]] # Missing
  <2> SUFFICES ASSUME NEW s \in Moved
               PROVE  /\ ~Held(s) /\ path[s] = lastWritten[s]
                      /\ path'[s] \in Paths /\ path'[s] \in Files(job.to)
                      /\ path'[s][1] = job.to
                      /\ path'[s] # NoPath /\ lastWritten'[s] = path'[s]
                      /\ path[s] = Rebase(path'[s], job.from)
                      /\ disk[path'[s]] # Missing
    OBVIOUS
  <2>1. s \in Slugs /\ s \in Known /\ path[s] \in Paths /\ path[s] \in job.files
    BY <1>3
  <2>2. path'[s] = Rebase(path[s], job.to) /\ lastWritten'[s] = path'[s]
    BY <1>1, <2>1
  <2>3. ~Held(s) /\ path[s] = lastWritten[s]
    BY <1>1, <2>1, Unexposed
  <2>4. path'[s] \in Paths /\ path'[s] \in Files(job.to)
    BY <1>2, <2>1, <2>2, GridFacts
  <2>5. path'[s][1] = job.to /\ path[s] = Rebase(path'[s], job.from)
    BY <1>2, <2>1, <2>2, <2>4, GridFacts
  <2>6. disk[path'[s]] # Missing
    BY <1>1, <2>1, <2>2 DEF Tidy, GoneIsGuarded
  <2> QED BY <2>2, <2>3, <2>4, <2>5, <2>6, SetsAssumption
\* The others stay where they are, outside both folders.
<1>5. /\ \A s \in Known : s \notin Moved => path[s] \notin job.files
      /\ \A s \in Known : s \notin Moved => lastWritten[s] \notin job.files
      /\ \A s \in Known : s \notin Moved /\ Held(s) => snapPath[s] \notin job.files
  BY <1>1, <1>3, Unexposed
<1>6. Known' = Known
  BY <1>1, <1>3, <1>4 DEF Known
<1>7. \A s \in Slugs : Held(s)' <=> Held(s)
  BY <1>1 DEF Held
<1>8. \A s \in Moved, p \in Paths : Claims(s, p)' => p = path'[s]
  BY <1>3, <1>4, <1>7 DEF Claims
<1>9. \A s \in Known, p \in Paths : s \notin Moved /\ Claims(s, p)' =>
          Claims(s, p) /\ p \notin job.files
  <2> SUFFICES ASSUME NEW s \in Known, NEW p \in Paths, s \notin Moved, Claims(s, p)'
               PROVE  Claims(s, p) /\ p \notin job.files
    OBVIOUS
  <2>1. s \in Slugs /\ path'[s] = path[s] /\ lastWritten'[s] = lastWritten[s]
    BY <1>1, <1>3
  <2> QED BY <1>1, <1>5, <1>7, <2>1 DEF Claims
<1>10. Owners'
  <2>1. \A s \in Known, p \in Paths : s \notin Moved /\ Claims(s, p)' =>
            p[1] \in knownFolders /\ p[1] # job.from
    BY <1>2, <1>9, GridFacts DEF Tidy, Owners
  <2>2. \A s, t \in Moved : s # t => path'[s] # path'[t]
    <3> SUFFICES ASSUME NEW s \in Moved, NEW t \in Moved, path'[s] = path'[t] PROVE s = t
      OBVIOUS
    <3>1. path[s] = path[t] /\ path[s] \in Paths /\ s \in Known /\ t \in Known
      BY <1>3, <1>4
    <3> QED BY <3>1 DEF Tidy, Owners, Claims
  <2>3. ASSUME NEW s \in Known, NEW t \in Known, NEW p \in Paths, s # t
        PROVE  ~(Claims(s, p)' /\ Claims(t, p)')
    <3>1. CASE s \in Moved /\ t \in Moved
      BY <1>8, <2>2, <2>3, <3>1
    <3>2. CASE s \notin Moved /\ t \notin Moved
      BY <1>9, <2>3, <3>2 DEF Tidy, Owners
    <3>3. CASE s \in Moved /\ t \notin Moved
      BY <1>2, <1>4, <1>8, <2>1, <3>3
    <3>4. CASE s \notin Moved /\ t \in Moved
      BY <1>2, <1>4, <1>8, <2>1, <3>4
    <3> QED BY <3>1, <3>2, <3>3, <3>4
  <2>4. \A s \in Known, p \in Paths : Claims(s, p)' => p[1] \in knownFolders'
    BY <1>1, <1>4, <1>8, <2>1
  <2>5. \A s \in Slugs \ dead : path'[s] = NoPath => lastWritten'[s] = NoPath
    BY <1>1, <1>4 DEF Tidy, Owners
  <2> QED BY <1>1, <1>2, <1>6, <2>3, <2>4, <2>5 DEF Owners
<1>11. \A s \in Known : Held(s) \/ s = cur => s \notin Moved /\ lastWritten'[s] = lastWritten[s]
  BY <1>1, <1>3, <1>4 DEF Held
<1>12. PassPlaced'
  <2>1. \A s \in Slugs : Held(s)' /\ snapPath'[s] # NoPath => path'[s] # NoPath
    BY <1>1, <1>6, <1>7 DEF Tidy, PassPlaced, Known
  <2>2. Working => lastWritten'[cur] = lastWritten[cur]
    BY <1>11, CurIsApart
  <2> QED BY <1>1, <2>1, <2>2 DEF Tidy, PassPlaced, Working, Writing, Target
<1>13. FilesPlaced'
  <2>1. ASSUME NEW p \in Paths, disk[p] # Missing
        PROVE  \E s \in Known : Tracked(s, p)'
    <3>1. CASE p \in Files(job.to)
      <4>1. PICK s \in Known : path[s] = Rebase(p, job.from)
        BY <1>1, <2>1, <3>1 DEF Tidy, FilesPlaced
      <4>2. s \in Moved
        BY <1>2, <1>3, <4>1, GridFacts
      <4>3. path'[s] = p
        BY <1>1, <1>2, <1>3, <3>1, <4>1, <4>2, GridFacts
      <4> QED BY <1>4, <4>2, <4>3 DEF Tracked
    <3>2. CASE p \notin Files(job.to)
      <4>1. PICK s \in Known : Tracked(s, p)
        BY <1>1, <2>1, <3>2 DEF Tidy, FilesPlaced
      <4>2. p \notin job.files
        BY <1>1, <2>1 DEF Tidy, GoneIsGuarded, Gone
      <4>3. s \notin Moved
        BY <1>3, <1>4, <4>1, <4>2 DEF Tracked, Held
      <4> QED BY <1>1, <1>3, <4>1, <4>3 DEF Tracked
    <3> QED BY <3>1, <3>2
  <2>2. ASSUME NEW s \in Known, lastWritten'[s] # NoPath
        PROVE  disk[lastWritten'[s]] # Missing \/ (s = cur /\ Writing)
    <3>1. CASE s \in Moved
      BY <1>4, <3>1
    <3>2. CASE s \notin Moved
      <4>1. lastWritten'[s] = lastWritten[s] /\ lastWritten[s] \notin job.files
        BY <1>1, <1>3, <1>5, <3>2
      <4> QED BY <2>2, <4>1 DEF Tidy, FilesPlaced
    <3> QED BY <3>1, <3>2
  <2> QED BY <1>1, <1>6, <2>1, <2>2 DEF FilesPlaced, Writing
<1>14. JobIsAbout' /\ GoneIsGuarded'
  BY <1>1 DEF JobIsAbout, GoneIsGuarded, Gone
<1> QED BY <1>10, <1>12, <1>13, <1>14 DEF Tidy

\* The files go to the trash; their notes are still in the catalog, and guarded.
LEMMA TidyTrash ==
    ASSUME TypeOK, JobTyped, Tidy, MoveToTrash, ~crossed'
    PROVE  Tidy'
<1>1. /\ UNCHANGED <<path, lastWritten, snapPath, todo, cur, pc, knownFolders, dead>>
      /\ job.at = "trash" /\ job' = [job EXCEPT !.at = "teardown"] /\ ~Exposed(job.files)
      /\ disk' = [p \in Paths |-> IF p \in job.files THEN Missing ELSE disk[p]]
  BY DEF MoveToTrash, Step, PassFrame, docVars, passVars, snapVars, curVars
<1>2. /\ job'.at = "teardown" /\ job'.from = job.from /\ job'.to = job.to
      /\ job'.files = job.files /\ job'.notes = job.notes
  BY <1>1 DEF JobTyped
<1>3. /\ \A p \in Paths : p \in job.files => disk'[p] = Missing
      /\ \A p \in Paths : p \notin job.files => disk'[p] = disk[p]
  BY <1>1
<1>4. \A t \in Slugs : Held(t)' <=> Held(t)
  BY <1>1 DEF Held
<1>5. Known' = Known /\ Known \subseteq Slugs /\ job.files \subseteq Paths
  BY <1>1 DEF Known, JobTyped
<1>6. Owners'
  BY <1>1, <1>4, PassKeepsOwners
<1>7. PassPlaced'
  <2>1. ASSUME Working
        PROVE  /\ disk'[Target] = disk[Target]
               /\ lastWritten[cur] # NoPath /\ disk[lastWritten[cur]] = Missing
                      => disk'[lastWritten[cur]] = Missing
    <3>1. cur \in Slugs /\ Target \in Paths
      BY <2>1, CurIsApart
    <3>2. Target \notin job.files
      BY <1>1, <2>1, <3>1, Unexposed
    <3>3. lastWritten[cur] # NoPath => lastWritten[cur] \in Paths
      BY <3>1 DEF TypeOK
    <3> QED BY <1>3, <3>1, <3>2, <3>3
  <2>2. Target' = Target
    BY <1>1 DEF Target
  <2> QED BY <1>1, <1>4, <2>1, <2>2 DEF Tidy, PassPlaced, Writing, Working
<1>8. FilesPlaced'
  <2>1. \A s \in Known, p \in Paths : Tracked(s, p)' <=> Tracked(s, p)
    BY <1>1 DEF Tracked
  <2>2. \A p \in Paths : disk'[p] # Missing => \E s \in Known : Tracked(s, p)
    BY <1>1, <1>3 DEF Tidy, FilesPlaced
  <2>3. ASSUME NEW s \in Known, lastWritten[s] # NoPath, lastWritten[s] \notin job.files
        PROVE  disk'[lastWritten[s]] # Missing \/ (s = cur /\ Writing)
    <3>1. lastWritten[s] \in Paths
      BY <1>5, <2>3 DEF TypeOK
    <3> QED BY <1>3, <2>3, <3>1 DEF Tidy, FilesPlaced
  <2> QED BY <1>1, <1>2, <1>5, <2>1, <2>2, <2>3 DEF FilesPlaced, Gone, Writing
<1>9. JobIsAbout'
  BY <1>1, <1>2 DEF Tidy, JobIsAbout
<1>10. GoneIsGuarded'
  <2>1. /\ \A s \in Known : {path[s], lastWritten[s]} \cap job.files # {}
                                 => path[s] = lastWritten[s]
        /\ \A s \in Known : Held(s) => {path[s], snapPath[s]} \cap job.files = {}
    BY <1>1, <1>5, Unexposed
  <2> QED BY <1>1, <1>2, <1>3, <1>4, <1>5, <2>1 DEF GoneIsGuarded
<1> QED BY <1>6, <1>7, <1>8, <1>9, <1>10 DEF Tidy

\* The notes that leave the catalog are those whose files are gone.
LEMMA TidyTearDown ==
    ASSUME TypeOK, JobTyped, Tidy, TearDown, ~crossed'
    PROVE  Tidy'
<1>1. /\ UNCHANGED <<disk, lastWritten, snapPath, todo, cur, pc>>
      /\ job.at = "teardown" /\ job'.at = "done" /\ ~Exposed(job.files) /\ cur \notin job.notes
      /\ knownFolders' = knownFolders \ {job.from} /\ dead' = dead \cup job.notes
      /\ \A s \in Slugs : path'[s] = IF s \in job.notes THEN NoPath ELSE path[s]
  BY DEF TearDown, Reset, NoJob, PassFrame, fileVars, passVars, snapVars, curVars
<1>2. /\ \A s \in Slugs : path[s] \in job.files <=> s \in job.notes
      /\ job.from \in Folders => job.files = Files(job.from)
      /\ knownFolders \subseteq Folders /\ job.files \subseteq Paths
  BY <1>1 DEF Tidy, JobIsAbout, Owners, JobTyped
<1>3. Known' = Known \ job.notes /\ Known \subseteq Slugs
  BY <1>1 DEF Known
<1>4. \A s \in Known : s \notin job.notes =>
          /\ path[s] \notin job.files /\ lastWritten[s] \notin job.files
          /\ Held(s) => snapPath[s] \notin job.files
  BY <1>1, <1>2, <1>3, Unexposed
<1>5. \A s \in Slugs : Held(s)' <=> Held(s)
  BY <1>1 DEF Held
<1>6. Owners'
  <2>1. \A s \in Known', p \in Paths : Claims(s, p)' => Claims(s, p) /\ p \notin job.files
    BY <1>1, <1>3, <1>4, <1>5 DEF Claims
  <2>2. \A s \in Known', p \in Paths : Claims(s, p)' => p[1] \in knownFolders /\ p[1] # job.from
    <3>1. \A p \in Paths : job.from \in Folders /\ p[1] = job.from => p \in job.files
      BY <1>2, GridFacts
    <3> QED BY <1>2, <1>3, <2>1, <3>1 DEF Tidy, Owners
  <2>3. \A s \in Slugs \ dead' : path'[s] = NoPath => lastWritten[s] = NoPath
    BY <1>1 DEF Tidy, Owners
  <2>4. \A s, t \in Known', p \in Paths : s # t => ~(Claims(s, p)' /\ Claims(t, p)')
    BY <1>3, <2>1 DEF Tidy, Owners
  <2> QED BY <1>1, <1>2, <2>2, <2>3, <2>4 DEF Owners
<1>7. PassPlaced'
  <2>1. \A s \in Slugs : Held(s)' /\ snapPath'[s] # NoPath => path'[s] # NoPath
    BY <1>1, <1>2, <1>5, Unexposed DEF Tidy, PassPlaced
  <2> QED BY <1>1, <2>1 DEF Tidy, PassPlaced, Writing, Target
<1>8. FilesPlaced'
  <2>1. ASSUME NEW p \in Paths, disk[p] # Missing
        PROVE  \E s \in Known' : Tracked(s, p)'
    <3>1. PICK s \in Known : Tracked(s, p)
      BY <1>1, <2>1 DEF Tidy, FilesPlaced
    <3>2. p \notin job.files
      BY <1>1, <2>1 DEF Tidy, GoneIsGuarded, Gone
    <3>3. s \notin job.notes
      BY <1>1, <1>2, <1>3, <3>1, <3>2, Unexposed DEF Tracked
    <3>4. Tracked(s, p)'
      BY <1>1, <3>1 DEF Tracked
    <3> QED BY <1>3, <3>1, <3>3, <3>4
  <2>2. \A s \in Known' : lastWritten[s] # NoPath =>
            disk[lastWritten[s]] # Missing \/ (s = cur /\ Writing)
    BY <1>3, <1>4 DEF Tidy, FilesPlaced
  <2> QED BY <1>1, <2>1, <2>2 DEF FilesPlaced, Writing
<1>9. JobIsAbout' /\ GoneIsGuarded'
  BY <1>1 DEF JobIsAbout, GoneIsGuarded, Gone
<1> QED BY <1>6, <1>7, <1>8, <1>9 DEF Tidy

\* No step of an operation loses the track of a file.
LEMMA TidyJob ==
    ASSUME TypeOK, TypeOK', JobTyped, Tidy, JobStep, ~crossed'
    PROVE  Tidy'
<1>1. ASSUME NEW f \in Folders, NEW g \in Folders, RelocateFolder(f, g)
      PROVE  Tidy'
  <2>1. /\ UNCHANGED <<path, disk, lastWritten, knownFolders, dead>> /\ RequestFlush
        /\ job = NoJob /\ f \in knownFolders /\ g \notin knownFolders
        /\ job'.at \in {"flush", "rename"} /\ job'.from = f /\ job'.to = g
        /\ job'.files = Files(f)
    BY <1>1 DEF RelocateFolder, MayStart, NoJob, docVars, fileVars
  <2>2. JobIsAbout'
    BY <2>1 DEF JobIsAbout
  <2>3. {job.at, job'.at} \cap {"rewrite", "teardown"} = {}
    BY <2>1 DEF NoJob
  <2> QED BY <2>1, <2>2, <2>3, TidyCalls
<1>2. ASSUME NEW op, NEW f, NEW notes, NEW files, StartTrash(op, f, notes, files),
             \A s \in Slugs : path[s] \in files <=> s \in notes,
             f \in Folders => files = Files(f)
      PROVE  Tidy'
  <2>1. /\ UNCHANGED <<path, disk, lastWritten, knownFolders, dead, passVars>>
        /\ job = NoJob /\ job'.at = "trash" /\ job'.from = f
        /\ job'.files = files /\ job'.notes = notes
    BY <1>2 DEF StartTrash, MayStart, NoJob, PassFrame, docVars, fileVars
  <2>2. JobIsAbout'
    BY <1>2, <2>1 DEF JobIsAbout
  <2>3. {job.at, job'.at} \cap {"rewrite", "teardown"} = {}
    BY <2>1 DEF NoJob
  <2> QED BY <2>1, <2>2, <2>3, TidyCalls
<1>3. ASSUME NEW f \in Folders, DeleteFolder(f) PROVE Tidy'
  <2>1. \A s \in Slugs : path[s] \in Files(f) <=> s \in NotesIn(f)
    <3>1. NoPath \notin Files(f)
      BY GridFacts, SetsAssumption
    <3> QED BY <3>1 DEF NotesIn, Known
  <2> QED BY <1>2, <1>3, <2>1 DEF DeleteFolder
<1>4. ASSUME NEW s \in Slugs, DeleteToTrash(s) PROVE Tidy'
  <2>1. s \in Known /\ path[s] \in Paths
    BY <1>4 DEF DeleteToTrash, Known, TypeOK
  <2>2. \A t \in Slugs : path[t] \in {path[s]} <=> t \in {s}
    <3>1. \A t \in Slugs : path[t] = path[s] => t \in Known
      BY <2>1 DEF Known
    <3> QED BY <2>1, <3>1 DEF Tidy, Owners, Claims
  <2> QED BY <1>2, <1>4, <2>2, FoldersAssumption DEF DeleteToTrash
<1>5. ASSUME UNCHANGED <<path, disk, lastWritten, knownFolders, dead, passVars>>,
             job' = NoJob, job.at \notin {"rewrite", "teardown"}
      PROVE  Tidy'
  <2>1. JobIsAbout'
    BY <1>5 DEF JobIsAbout, NoJob
  <2>2. {job.at, job'.at} \cap {"rewrite", "teardown"} = {}
    BY <1>5 DEF NoJob
  <2> QED BY <1>5, <2>1, <2>2, TidyCalls
<1>6. CASE RenameDirectory
  <2>1. CASE job' = NoJob
    <3>1. UNCHANGED <<path, disk, lastWritten, knownFolders, dead, passVars>>
      BY <1>6, <2>1 DEF RenameDirectory, Step, At, NoJob, PassFrame, docVars, JobTyped
    <3>2. job.at = "rename"
      BY <1>6 DEF RenameDirectory, At
    <3> QED BY <1>5, <2>1, <3>1, <3>2
  <2>2. CASE job' # NoJob
    <3>1. job' # NoJob
      BY <2>2
    <3> QED BY <1>6, <3>1, TidyRename
  <2> QED BY <2>1, <2>2
<1>7. CASE TrashFails
  BY <1>5, <1>7 DEF TrashFails, PassFrame, docVars, fileVars
<1> QED BY <1>1, <1>3, <1>4, <1>6, <1>7, TidyRewrite, TidyTrash, TidyTearDown DEF JobStep

\* What has been crossed remains so.
LEMMA CrossedStays == [CatNext]_catalogVars => (crossed => crossed')
BY DEF CatNext, CatalogStep, JobStep, DeleteFolder, DeleteToTrash, StartTrash,
   RelocateFolder, RenameDirectory, RewriteCatalog, Follow, MoveToTrash, TrashFails,
   TearDown, catalogVars, catVars

\* When no write fails, the invariant is inductive.
LEMMA TreeNext ==
    ASSUME MaxFails = 0, TreeInv, [CatNext]_catalogVars
    PROVE  TreeInv'
<1>1. JobTyped'
  BY JobNext DEF TreeInv
<1>2. CatalogStep => [Next]_vars
  BY DEF CatalogStep, Next
<1>3. UNCHANGED catalogVars => UNCHANGED vars
  BY DEF catalogVars
<1>4. TypeOK'
  BY <1>2, <1>3, TypeNext, TypeJob DEF TreeInv, CatNext
<1>5. ~crossed' => ~crossed
  BY CrossedStays
<1>6. ASSUME ~crossed', Tidy PROVE Tidy'
  <2>1. CASE UNCHANGED catalogVars
    BY <1>6, <2>1 DEF catalogVars, catVars, vars, docVars, fileVars, passVars, snapVars,
       curVars, Tidy, Owners, Claims, Held, Known, PassPlaced, Target, Writing, FilesPlaced,
       Tracked, Gone, JobIsAbout, GoneIsGuarded
  <2> QED BY <1>4, <1>6, <2>1, TidyCatalog, TidyJob DEF CatNext, TreeInv
<1> QED BY <1>1, <1>4, <1>5, <1>6 DEF TreeInv

\* Between two operations every file is the file of a note of the catalog, and a note whose
\* file is believed to be where the catalog has it does have it there, whatever is moved,
\* relocated and trashed while the pass runs, as long as no write fails
\* (CatalogMatchesDisk).
THEOREM CatalogAndDiskAgree ==
    ASSUME MaxFails = 0
    PROVE  CatSpec => []CatalogMatchesDisk
<1>1. TreeInv /\ [CatNext]_catalogVars => TreeInv'
  BY TreeNext
<1>2. TreeInv => CatalogMatchesDisk
  <2> SUFFICES ASSUME TreeInv, ~crossed, job = NoJob
               PROVE  /\ \A p \in Paths : disk[p] # Missing =>
                             \E s \in Known : p \in {path[s], lastWritten[s], snapPath[s]}
                      /\ \A s \in Known \ {cur} :
                             lastWritten[s] = path[s] => disk[path[s]] # Missing
    BY DEF CatalogMatchesDisk
  <2>1. FilesPlaced /\ job.at = "done" /\ ~Gone
    BY DEF TreeInv, Tidy, NoJob, Gone
  <2> QED BY <2>1 DEF FilesPlaced, Tracked, Known
<1> QED BY TreeInit, <1>1, <1>2, PTL DEF CatSpec

\* "Rename-on-change": the pass puts nothing over, and takes nothing away from, a path that
\* the catalog or the rename tracker has for another note, and its renames replace no
\* file at all, unless a note was given a path where another's file may still be.
PassWritesOwn ==
    [][~crossed' /\ PassStep =>
          /\ \A p \in Paths : disk'[p] # disk[p] =>
                 \A s \in Known \ {cur} : p \notin {path[s], lastWritten[s]}
          /\ MoveFile => disk[Target] = Missing]_catalogVars

\* No file of a note is overwritten or removed on behalf of another (PassWritesOwn), as long
\* as no write fails.
THEOREM PassOverwritesNoOther ==
    ASSUME MaxFails = 0
    PROVE  CatSpec => PassWritesOwn
<1>1. TreeInv /\ [CatNext]_catalogVars => TreeInv'
  BY TreeNext
<1>2. TreeInv /\ [CatNext]_catalogVars =>
          [~crossed' /\ PassStep =>
              /\ \A p \in Paths : disk'[p] # disk[p] =>
                     \A s \in Known \ {cur} : p \notin {path[s], lastWritten[s]}
              /\ MoveFile => disk[Target] = Missing]_catalogVars
  <2> SUFFICES ASSUME TreeInv, CatNext, ~crossed', PassStep
               PROVE  /\ \A p \in Paths : disk'[p] # disk[p] =>
                             \A s \in Known \ {cur} : p \notin {path[s], lastWritten[s]}
                      /\ MoveFile => disk[Target] = Missing
    BY DEF catalogVars
  <2>1. TypeOK /\ JobTyped /\ Tidy
    BY CrossedStays DEF TreeInv
  <2>2. ASSUME NEW p \in Paths, disk'[p] # disk[p]
        PROVE  Working /\ p \in {lastWritten[cur], Target}
    <3>1. CASE MoveFile \/ CommitWrite
      <4>1. Working /\ disk \in [Paths -> Bodies \cup {Missing}]
        BY <2>1, <3>1 DEF MoveFile, CommitWrite, Working, TypeOK
      <4>2. MoveFile => p \in {lastWritten[cur], Target}
        BY <2>2, <4>1 DEF MoveFile
      <4>3. CommitWrite => p = Target
        BY <2>2, <4>1 DEF CommitWrite
      <4> QED BY <3>1, <4>1, <4>2, <4>3
    <3>2. CASE ~MoveFile /\ ~CommitWrite
      BY <2>2, <3>2 DEF PassStep, LoopStep, FileStep, SkipConflicted, DropUnopened,
         SkipLoading, BeginNote, ProbeOld, CheckTarget, Compare, NoteWrite, Settle, EndPass,
         fileVars
    <3> QED BY <3>1, <3>2
  <2>3. ASSUME NEW p \in Paths, disk'[p] # disk[p], NEW s \in Known \ {cur}
        PROVE  p \notin {path[s], lastWritten[s]}
    <3>1. cur \in Known /\ Claims(cur, p)
      BY <2>1, <2>2, <2>3, CurIsApart DEF Claims, Target
    <3> QED BY <2>1, <2>3, <3>1 DEF Tidy, Owners, Claims
  <2>4. MoveFile => disk[Target] = Missing
    BY <2>1 DEF MoveFile, Tidy, PassPlaced
  <2> QED BY <2>3, <2>4
<1> QED BY TreeInit, <1>1, <1>2, PTL DEF CatSpec, PassWritesOwn

-----------------------------------------------------------------------------
(* The watcher of the vault                                                  *)

\* What the flows of the watcher carry with them.
FlowTypes ==
    /\ belief \in [Paths -> Bodies \cup {Missing}]
    /\ events \subseteq [kind : Kinds, at : Paths]
    /\ checks \subseteq [kind : Kinds, at : Paths, seen : Bodies \cup {Missing}]
    /\ legs \subseteq Paths /\ adds \subseteq Paths
    /\ \A r \in reads : r.note \in Slugs /\ r.from \in Paths
    /\ \A r \in loads : r.note \in Slugs /\ r.body \in Bodies
    /\ matches \subseteq [at : Paths, note : Slugs \cup {NoSlug}]
    /\ removing \in [Slugs -> Paths \cup {NoPath}]
    /\ retired \subseteq Slugs

SyncTypes == TypeOK /\ FlowTypes

OpenInv == SyncTypes /\ ConflictIsOpen

\* The editor takes no step that DocFlush does not know.
LEMMA EditorIsNext == OwnStep => Next
BY DEF OwnStep, NoteContent, WriteContent, RenameContent, OtherStep, NoteWrite,
       CommitWrite, MoveFile, Next, PassStep, FileStep, ProbeOld, CheckTarget, Compare,
       Settle, EndPass, LoopStep, SkipConflicted, DropUnopened, SkipLoading, BeginNote,
       AtNote

\* No step of the editor closes a note or takes it out of the catalog.
LEMMA EditorOpens ==
    ASSUME TypeOK, Next
    PROVE  Opened \subseteq Opened' /\ Known \subseteq Known'
<1> USE SetsAssumption DEF Opened, Known, TypeOK
<1>1. CASE UNCHANGED <<path, handle>>
  BY <1>1
<1>2. CASE UserStep
  <2>1. ASSUME NEW s \in Slugs, \/ EnsureHandle(s) \/ Mount(s) \/ Unmount(s)
                               \/ MarkConflict(s) \/ DismissConflict(s)
        PROVE  Opened \subseteq Opened' /\ Known \subseteq Known'
    BY <1>1, <2>1 DEF EnsureHandle, Mount, Unmount, MarkConflict, DismissConflict, docVars
  <2>2. ASSUME NEW s \in Slugs, NEW b \in UserBodies, Edit(s, b) \/ ReplaceBody(s, b)
        PROVE  Opened \subseteq Opened' /\ Known \subseteq Known'
    BY <1>1, <2>2 DEF Edit, ReplaceBody
  <2>3. ASSUME NEW s \in Slugs, NEW p \in Paths, MoveDocToFolder(s, p)
        PROVE  Opened \subseteq Opened' /\ Known \subseteq Known'
    BY <2>3 DEF MoveDocToFolder
  <2>4. ASSUME NEW s \in Slugs, NEW p \in Paths, AddOpenDoc(s, p)
        PROVE  Opened \subseteq Opened' /\ Known \subseteq Known'
    BY <2>4 DEF AddOpenDoc
  <2> QED BY <1>2, <2>1, <2>2, <2>3, <2>4 DEF UserStep, CreateNew, CreateSeeded
<1>3. ASSUME NEW s \in Slugs, Hydrate(s)
      PROVE  Opened \subseteq Opened' /\ Known \subseteq Known'
  BY <1>3 DEF Hydrate
<1>4. CASE FlushTick \/ PassStep \/ WriteFails
  BY <1>1, <1>4 DEF FlushTick, PassStep, LoopStep, SkipConflicted, DropUnopened,
     SkipLoading, BeginNote, FileStep, ProbeOld, MoveFile, CheckTarget, Compare,
     NoteWrite, CommitWrite, Settle, EndPass, WriteFails, docVars
<1> QED BY <1>2, <1>3, <1>4 DEF Next

\* A step of the editor leaves the flows of the watcher alone, and reports, and
\* believes, only what it does to its files.
LEMMA EditorFlows ==
    ASSUME OpenInv, OwnStep
    PROVE  FlowTypes'
<1>1. CASE NoteContent
  <2>1. Target \in Paths /\ curBody \in Bodies
    BY <1>1 DEF NoteContent, NoteWrite, OpenInv, SyncTypes, TypeOK, Working
  <2> QED BY <1>1, <2>1 DEF NoteContent, OpenInv, SyncTypes, FlowTypes, flowVars
<1>2. CASE WriteContent
  <2>1. Target \in Paths
    BY <1>2 DEF WriteContent, CommitWrite, OpenInv, SyncTypes, TypeOK, Working
  <2> QED BY <1>2, <2>1, OutsideAssumption
          DEF WriteContent, OpenInv, SyncTypes, FlowTypes, flowVars, Report
<1>3. CASE RenameContent
  <2>1. /\ Target \in Paths /\ lastWritten[cur] \in Paths
        /\ disk[lastWritten[cur]] \in Bodies
    BY <1>3 DEF RenameContent, MoveFile, OpenInv, SyncTypes, TypeOK, Working
  <2> QED BY <1>3, <2>1
          DEF RenameContent, OpenInv, SyncTypes, FlowTypes, flowVars, Report, Kinds
<1>4. CASE OtherStep
  BY <1>4 DEF OtherStep, OpenInv, SyncTypes, FlowTypes, flowVars
<1> QED BY <1>1, <1>2, <1>3, <1>4 DEF OwnStep

LEMMA EditorKeepsOpen ==
    ASSUME OpenInv, OwnStep
    PROVE  OpenInv'
<1>1. TypeOK'
  BY EditorIsNext, TypeNext DEF OpenInv, SyncTypes
<1>2. conflict' \subseteq conflict
  BY DEF OwnStep, NoteContent, WriteContent, RenameContent, OtherStep, NoteWrite,
         CommitWrite, MoveFile, flagVars
<1>3. ConflictIsOpen'
  BY <1>2, EditorIsNext, EditorOpens DEF OpenInv, SyncTypes, ConflictIsOpen
<1> QED BY <1>1, <1>3, EditorFlows DEF OpenInv, SyncTypes

-----------------------------------------------------------------------------
(* Steps of the watcher and of other programs                                *)

\* Of the editor's state, most steps change the conflicts at most.
LEMMA ConflictsOnly ==
    ASSUME TypeOK, conflict' \subseteq Slugs,
           UNCHANGED <<docVars, markVars, fileVars, fails, queued, passVars>>
    PROVE  TypeOK'
BY DEF TypeOK, docVars, markVars, fileVars, passVars, snapVars, curVars, Working, Target

\* Files change, and reports come in.
LEMMA ChangesKeepOpen ==
    ASSUME OpenInv, NEW how, NEW files \in [Paths -> Bodies \cup {Missing}],
           NEW reports, reports \subseteq [kind : Kinds, at : Paths],
           ChangeOutside(how, files, reports)
    PROVE  OpenInv'
BY DEF ChangeOutside, OpenInv, SyncTypes, FlowTypes, TypeOK, ConflictIsOpen, Opened,
       Known, docVars, markVars, flagVars, passVars, snapVars, curVars, flowVars,
       Working, Target

LEMMA ReportType ==
    \A p \in Paths : \A kind \in {"data", "rename", "remove", "create"} :
        Report(kind, p) \in [kind : Kinds, at : Paths]
BY DEF Report, Kinds

LEMMA OutsideKeepsOpen ==
    ASSUME OpenInv, OutsideStep
    PROVE  OpenInv'
<1> USE ReportType, ChangesKeepOpen
<1>1. disk \in [Paths -> Bodies \cup {Missing}]
  BY DEF OpenInv, SyncTypes, TypeOK
<1>2. PICK p \in Paths, b \in OutsideBodies :
        \/ ChangeOutside("write", [disk EXCEPT ![p] = b], {Report("data", p)})
        \/ ChangeOutside("replace", [disk EXCEPT ![p] = b], {Report("rename", p)})
        \/ ChangeOutside("delete", [disk EXCEPT ![p] = Missing], {Report("remove", p)})
        \/ ChangeOutside("create", [disk EXCEPT ![p] = b], {Report("create", p)})
        \/ \E q \in Paths :
              ChangeOutside("move", [disk EXCEPT ![q] = disk[p], ![p] = Missing],
                            {Report("rename", p), Report("rename", q)})
  BY DEF OutsideStep
<1>3. /\ [disk EXCEPT ![p] = b] \in [Paths -> Bodies \cup {Missing}]
      /\ [disk EXCEPT ![p] = Missing] \in [Paths -> Bodies \cup {Missing}]
  BY <1>1, OutsideAssumption
<1>4. CASE ChangeOutside("write", [disk EXCEPT ![p] = b], {Report("data", p)})
  BY <1>3, <1>4
<1>5. CASE ChangeOutside("replace", [disk EXCEPT ![p] = b], {Report("rename", p)})
  BY <1>3, <1>5
<1>6. CASE ChangeOutside("delete", [disk EXCEPT ![p] = Missing], {Report("remove", p)})
  BY <1>3, <1>6
<1>7. CASE ChangeOutside("create", [disk EXCEPT ![p] = b], {Report("create", p)})
  BY <1>3, <1>7
<1>8. ASSUME NEW q \in Paths,
             ChangeOutside("move", [disk EXCEPT ![q] = disk[p], ![p] = Missing],
                           {Report("rename", p), Report("rename", q)})
      PROVE  OpenInv'
  <2> DEFINE files == [disk EXCEPT ![q] = disk[p], ![p] = Missing]
             reports == {Report("rename", p), Report("rename", q)}
  <2>1. files \in [Paths -> Bodies \cup {Missing}]
    BY <1>1
  <2>2. reports \subseteq [kind : Kinds, at : Paths]
    OBVIOUS
  <2>3. ChangeOutside("move", files, reports)
    BY <1>8
  <2> HIDE DEF files, reports
  <2> QED BY <2>1, <2>2, <2>3
<1> QED BY <1>2, <1>4, <1>5, <1>6, <1>7, <1>8

LEMMA ReadBackKeepsOpen ==
    ASSUME OpenInv, NEW e \in events, ReadBack(e)
    PROVE  OpenInv'
<1>1. TypeOK'
  BY ConflictsOnly DEF ReadBack, SaveFrame, flagVars, OpenInv, SyncTypes, TypeOK
<1>2. ConflictIsOpen'
  BY DEF ReadBack, SaveFrame, flagVars, docVars, OpenInv, ConflictIsOpen, Opened, Known
<1>3. e.kind \in Kinds /\ e.at \in Paths /\ disk[e.at] \in Bodies \cup {Missing}
  BY DEF OpenInv, SyncTypes, FlowTypes, TypeOK
<1> QED BY <1>1, <1>2, <1>3 DEF ReadBack, OpenInv, SyncTypes, FlowTypes

\* What the handlers of reports do to conflicts and flows.
LEMMA HandlersKeepOpen ==
    ASSUME OpenInv, NEW p \in Paths,
           \/ HandleExternalReload(p)
           \/ HandleExternalAdd(p) \/ HandleExternalRemove(p),
           UNCHANGED <<docVars, markVars, fileVars, fails, queued, passVars>>,
           events' \subseteq events, checks' \subseteq checks, legs' \subseteq legs,
           UNCHANGED <<loads, matches, retired>>,
           belief' \in [Paths -> Bodies \cup {Missing}]
    PROVE  OpenInv'
<1>1. conflict' \subseteq conflict \cup (NotesAt(p) \cap Opened)
  BY DEF HandleExternalReload, HandleExternalAdd, HandleExternalRemove
<1>2. ConflictIsOpen'
  BY <1>1, SetsAssumption DEF OpenInv, ConflictIsOpen, NotesAt, Opened, Known, docVars
<1>3. TypeOK'
  BY <1>2, ConflictsOnly DEF OpenInv, SyncTypes, ConflictIsOpen, Known
<1>4. \A r \in reads' : r.note \in Slugs /\ r.from \in Paths
  BY DEF HandleExternalReload, HandleExternalAdd, HandleExternalRemove, NotesAt,
         OpenInv, SyncTypes, FlowTypes
<1>5. adds' \subseteq Paths /\ removing' \in [Slugs -> Paths \cup {NoPath}]
  BY DEF HandleExternalReload, HandleExternalAdd, HandleExternalRemove, NotesAt,
         OpenInv, SyncTypes, FlowTypes
<1> QED BY <1>2, <1>3, <1>4, <1>5 DEF OpenInv, SyncTypes, FlowTypes

LEMMA CompareKeepsOpen ==
    ASSUME OpenInv, NEW c \in checks, CompareSeen(c)
    PROVE  OpenInv'
<1>0. c.kind \in Kinds /\ c.at \in Paths /\ c.seen \in Bodies \cup {Missing}
  BY DEF OpenInv, SyncTypes, FlowTypes
<1>1. belief' \in [Paths -> Bodies \cup {Missing}]
  BY <1>0 DEF CompareSeen, OpenInv, SyncTypes, FlowTypes
<1>2. CASE UNCHANGED conflict /\ UNCHANGED <<reads, adds, removing>>
           /\ legs' \subseteq legs \cup {c.at}
  <2>1. TypeOK'
    BY <1>2, ConflictsOnly DEF CompareSeen, OpenInv, SyncTypes, TypeOK
  <2>2. ConflictIsOpen'
    BY <1>2 DEF CompareSeen, OpenInv, ConflictIsOpen, docVars, Opened, Known
  <2> QED BY <1>0, <1>1, <1>2, <2>1, <2>2 DEF CompareSeen, OpenInv, SyncTypes, FlowTypes
<1>3. CASE \/ HandleExternalReload(c.at)
           \/ /\ HandleExternalAdd(c.at) \/ HandleExternalRemove(c.at)
              /\ UNCHANGED legs
  <2>1. legs' \subseteq legs
    BY <1>3 DEF HandleExternalReload
  <2> QED BY <1>0, <1>1, <1>3, <2>1, HandlersKeepOpen DEF CompareSeen
<1> QED BY <1>2, <1>3 DEF CompareSeen, Dispatch

LEMMA RenameLegKeepsOpen ==
    ASSUME OpenInv, NEW p \in legs, RenameLeg(p)
    PROVE  OpenInv'
<1>1. p \in Paths /\ belief' \in [Paths -> Bodies \cup {Missing}]
  BY DEF RenameLeg, OpenInv, SyncTypes, FlowTypes
<1> QED BY <1>1, HandlersKeepOpen DEF RenameLeg

LEMMA ReloadReadKeepsOpen ==
    ASSUME OpenInv, NEW r \in reads, ReloadRead(r)
    PROVE  OpenInv'
<1>1. r.note \in Slugs /\ r.from \in Paths /\ disk[r.from] \in Bodies \cup {Missing}
  BY DEF OpenInv, SyncTypes, FlowTypes, TypeOK
<1>2. conflict' \subseteq conflict
  BY DEF ReloadRead
<1>3. TypeOK'
  BY <1>2, ConflictsOnly DEF ReloadRead, OpenInv, SyncTypes, TypeOK
<1>4. ConflictIsOpen'
  BY <1>2 DEF ReloadRead, OpenInv, ConflictIsOpen, docVars, Opened, Known
<1>5. \A l \in loads' : l.note \in Slugs /\ l.body \in Bodies
  BY <1>1 DEF ReloadRead, OpenInv, SyncTypes, FlowTypes
<1> QED BY <1>3, <1>4, <1>5 DEF ReloadRead, OpenInv, SyncTypes, FlowTypes

LEMMA ReloadApplyKeepsOpen ==
    ASSUME OpenInv, NEW r \in loads, ReloadApply(r)
    PROVE  OpenInv'
<1> USE DEF OpenInv, SyncTypes
<1>1. r.note \in Slugs /\ r.body \in Bodies
  BY DEF FlowTypes
<1>2. conflict' \subseteq conflict
  BY DEF ReloadApply, ReloadFrame
<1>3. /\ handle' = [handle EXCEPT ![r.note] = "ready"] /\ UNCHANGED path
      /\ UNCHANGED <<disk, lastWritten, fails, queued, passVars, loadPath, active>>
  BY DEF ReloadApply, ReloadFrame
<1>4. ConflictIsOpen'
  BY <1>1, <1>2, <1>3 DEF ConflictIsOpen, Opened, Known, TypeOK
<1>5. /\ mirror' \in [Slugs -> Bodies] /\ buffer' \in Bodies
      /\ dirty' \subseteq Slugs /\ gen' \in [Slugs -> Nat] /\ saved' \in [Slugs -> Bodies]
  BY <1>1 DEF ReloadApply, MarkDirty, ClearDirty, markVars, TypeOK
<1>6. TypeOK'
  BY <1>1, <1>2, <1>3, <1>5 DEF TypeOK, passVars, snapVars, curVars, Working, Target
<1> QED BY <1>4, <1>6 DEF ReloadApply, ReloadFrame, FlowTypes

LEMMA AddKeepsOpen ==
    ASSUME OpenInv,
           \/ \E p \in adds : AddMatch(p)
           \/ \E m \in matches : AddApply(m)
    PROVE  OpenInv'
<1> USE DEF OpenInv, SyncTypes
<1>1. ASSUME NEW p \in adds, AddMatch(p) PROVE OpenInv'
  <2>1. TypeOK'
    BY <1>1, ConflictsOnly DEF AddMatch, SaveFrame, flagVars, TypeOK
  <2>2. ConflictIsOpen'
    BY <1>1 DEF AddMatch, SaveFrame, flagVars, docVars, ConflictIsOpen, Opened, Known
  <2>3. matches' \subseteq [at : Paths, note : Slugs \cup {NoSlug}]
    BY <1>1 DEF AddMatch, FlowTypes, SameBody, Opened
  <2> QED BY <1>1, <2>1, <2>2, <2>3 DEF AddMatch, FlowTypes
<1>2. ASSUME NEW m \in matches, AddApply(m) PROVE OpenInv'
  <2>1. m.at \in Paths /\ m.note \in Slugs \cup {NoSlug}
    BY DEF FlowTypes
  <2>2. /\ path' \in [Slugs -> Paths \cup {NoPath}]
        /\ removing' \in [Slugs -> Paths \cup {NoPath}]
        /\ \A s \in Slugs : path[s] # NoPath => path'[s] # NoPath
    BY <1>2, <2>1, SetsAssumption DEF AddApply, FollowMove, AddNote, TypeOK, FlowTypes
  <2>3. UNCHANGED <<handle, loadPath, mirror, active, buffer, markVars, fileVars,
                    flagVars, queued, passVars>>
    BY <1>2 DEF AddApply
  <2>4. TypeOK'
    BY <2>2, <2>3 DEF TypeOK, markVars, fileVars, flagVars, passVars, snapVars, curVars,
                      Working, Target
  <2>5. ConflictIsOpen'
    BY <2>2, <2>3 DEF ConflictIsOpen, Opened, Known, flagVars
  <2> QED BY <1>2, <2>2, <2>4, <2>5 DEF AddApply, FlowTypes
<1> QED BY <1>1, <1>2

LEMMA RemoveKeepsOpen ==
    ASSUME OpenInv, NEW s \in Slugs, RemoveDue(s)
    PROVE  OpenInv'
<1> USE DEF OpenInv, SyncTypes
<1>1. UNCHANGED <<active, buffer, gen, fileVars, fails, queued, passVars,
                  belief, events, checks, legs, reads, loads, adds, matches>>
      /\ removing' \in [Slugs -> Paths \cup {NoPath}]
  BY DEF RemoveDue, FlowTypes
<1>2. CASE RemoveKnownDoc(s)
  <2>1. TypeOK'
    BY <1>1, <1>2, SetsAssumption DEF RemoveKnownDoc, LeaveCatalog, CloseDoc, LeaveOpen,
       TypeOK, fileVars, passVars, snapVars, curVars, Working, Target
  <2>2. \A t \in Slugs \ {s} : /\ path'[t] = path[t]
                               /\ handle[t] # "none" => handle'[t] # "none"
    BY <1>2 DEF RemoveKnownDoc, LeaveCatalog, CloseDoc, LeaveOpen, TypeOK
  <2>3. conflict' = conflict \ {s}
    BY <1>2 DEF RemoveKnownDoc
  <2>4. ConflictIsOpen'
    BY <2>2, <2>3 DEF ConflictIsOpen, Opened, Known
  <2> QED BY <1>1, <1>2, <2>1, <2>4 DEF RemoveKnownDoc, LeaveCatalog, FlowTypes
<1>3. CASE UNCHANGED <<path, conflict, retired>> /\ LeaveOpen
  <2> USE DEF LeaveOpen
  <2>1. TypeOK'
    BY <1>1, <1>3 DEF TypeOK, fileVars, passVars, snapVars, curVars, Working, Target
  <2> QED BY <1>1, <1>3, <2>1 DEF FlowTypes, ConflictIsOpen, Opened, Known
<1> QED BY <1>2, <1>3 DEF RemoveDue

LEMMA ReopenKeepsOpen ==
    ASSUME OpenInv, NEW s \in Slugs, Reopen(s)
    PROVE  OpenInv'
<1> USE DEF OpenInv, SyncTypes
<1>1. path[s] \in Paths
  BY DEF Reopen, ConflictIsOpen, Known, TypeOK
<1>2. TypeOK'
  BY ConflictsOnly DEF Reopen, SaveFrame, flagVars, TypeOK
<1>3. ConflictIsOpen'
  BY DEF Reopen, SaveFrame, flagVars, docVars, ConflictIsOpen, Opened, Known
<1> QED BY <1>1, <1>2, <1>3 DEF Reopen, FlowTypes

LEMMA OpenInit == SyncInit => OpenInv
BY TypeInit, SetsAssumption
   DEF SyncInit, Init, OpenInv, SyncTypes, FlowTypes, ConflictIsOpen

LEMMA OpenNext == OpenInv /\ [SyncNext]_vaultVars => OpenInv'
<1> SUFFICES ASSUME OpenInv, [SyncNext]_vaultVars PROVE OpenInv'
  OBVIOUS
<1>1. CASE WatcherStep
  BY <1>1, ReadBackKeepsOpen, CompareKeepsOpen, RenameLegKeepsOpen, ReloadReadKeepsOpen,
     ReloadApplyKeepsOpen, AddKeepsOpen, RemoveKeepsOpen DEF WatcherStep
<1>2. CASE UNCHANGED vaultVars
  <2>1. TypeOK'
    BY <1>2, TypeNext DEF vaultVars, OpenInv, SyncTypes
  <2> QED BY <1>2, <2>1 DEF OpenInv, SyncTypes, FlowTypes, ConflictIsOpen, Opened, Known,
          vaultVars, vars, docVars, flagVars, syncVars, flowVars
<1> QED BY <1>1, <1>2, OutsideKeepsOpen, EditorKeepsOpen, ReopenKeepsOpen DEF SyncNext

\* removeKnownDoc drops the conflict of a note that goes, "so no stale entry
\* lingers in the conflict set" (handlesSlice), whether the note has a tab and is closed,
\* or is open in the background and keeps its handle; and nobody enters it too late.
THEOREM ConflictIsOpenAlways == SyncSpec => []ConflictIsOpen
<1>1. OpenInv => ConflictIsOpen
  BY DEF OpenInv
<1> QED BY <1>1, OpenInit, OpenNext, PTL DEF SyncSpec

-----------------------------------------------------------------------------
(* No edit is lost.  A note that has left the catalog is retired for good,   *)
(* and exempt; of the others, a mark is cleared by the pass, on the strength *)
(* of the captured generation, or by a reload, which makes what is shown     *)
(* what is saved.  A reload in the middle of the note's own write leaves the *)
(* two to differ (reloaded) until the pass takes the note up again, which it *)
(* does only for an edit, or a reload, that has set them right.              *)

\* Who is open is in the catalog, and who is dirty is open, now and in the
\* snapshots of the pass and of the reloads under way.
OpenIsKnown ==
    /\ \A s \in retired : path[s] = NoPath
    /\ \A s \in Opened \ retired : path[s] # NoPath
    /\ dirty \ retired \subseteq Opened
    /\ \A s \in todo \ retired : s \in snapOpen /\ snapPath[s] # NoPath
    /\ pc = "idle" => todo = {}
    /\ active # NoSlug /\ active \notin retired => handle[active] = "ready"
    /\ \A r \in reads \cup loads : r.note \in Opened \cup retired

\* A clean note has no generation, and shows what is saved, certainly if the
\* pass is about to take it up.
CleanIsSaved ==
    \A s \in Slugs \ (retired \cup dirty) :
        /\ gen[s] = 0
        /\ handle[s] = "ready" /\ (s \in reloaded => s \in todo) => Live(s) = saved[s]

\* What the captured generation means, unless a reload fell into the write.
CapturedIsShown ==
    /\ Working => cur \notin todo
    /\ Working /\ cur \notin retired \cup reloaded =>
          /\ handle[cur] = "ready" /\ curGen <= gen[cur]
          /\ gen[cur] = curGen => curBody = Live(cur)
          /\ cur \notin dirty => gen[cur] = curGen

KeptInv == OpenIsKnown /\ CleanIsSaved /\ CapturedIsShown

\* Watching the editor: the flows, the retired notes and the history stay.
Aside == UNCHANGED <<reads, loads, retired, reloaded>>

LEMMA KeptInit == SyncInit => KeptInv
BY SetsAssumption DEF SyncInit, Init, KeptInv, OpenIsKnown, CleanIsSaved, CapturedIsShown,
   Opened, Working

\* A pass that starts takes up dirty notes only, and their handles and paths.
LEMMA KeptRequestFlush ==
    ASSUME OpenInv, KeptInv, RequestFlush,
           dirty \subseteq dirty', dirty' \ retired \subseteq Opened', Opened' \subseteq Slugs,
           dirty' \subseteq Slugs, \A s \in Opened' \ retired : path'[s] # NoPath
    PROVE  /\ \A s \in todo' \ retired : s \in snapOpen' /\ snapPath'[s] # NoPath
           /\ pc' = "idle" => todo' = {}
           /\ todo' \ dirty' \subseteq todo
           /\ cur' = cur /\ curGen' = curGen /\ curBody' = curBody
           /\ Working' => Working /\ todo' = todo
BY DEF OpenInv, SyncTypes, TypeOK, KeptInv, OpenIsKnown, RequestFlush, StartPass, Opened,
   passVars, snapVars, curVars, Working

\* A step of the user bumps the generation of a note whose body it changes, and
\* closes no note.
LEMMA KeptUser ==
    ASSUME MoveScope # "any", OpenInv, KeptInv, TypeOK', UserStep, Aside,
           \A s \in retired : path'[s] = NoPath
    PROVE  KeptInv'
<1> USE SetsAssumption, BoundsAssumption
<1> USE DEF OpenInv, SyncTypes, TypeOK, KeptInv, OpenIsKnown, CleanIsSaved,
            CapturedIsShown, Live, Opened, Working, Aside
<1>1. ASSUME NEW s \in Slugs, EnsureHandle(s) PROVE KeptInv'
  BY <1>1 DEF EnsureHandle, MarkDirty, fileVars, flagVars, passVars, snapVars, curVars
<1>2. ASSUME NEW s \in Slugs, Mount(s) PROVE KeptInv'
  BY <1>2 DEF Mount, markVars, fileVars, flagVars, passVars, snapVars, curVars
<1>3. ASSUME NEW s \in Slugs, Unmount(s) PROVE KeptInv'
  <2>1. \A t \in Slugs \ retired : Live(t)' = Live(t)
    BY <1>3 DEF Unmount
  <2> QED
    BY <1>3, <2>1, KeptRequestFlush DEF Unmount, markVars, fileVars
<1>4. ASSUME NEW s \in Slugs, MarkConflict(s) \/ DismissConflict(s) PROVE KeptInv'
  BY <1>4 DEF MarkConflict, DismissConflict, docVars, markVars, fileVars, passVars,
     snapVars, curVars
<1>5. ASSUME NEW s \in Slugs, NEW b \in UserBodies, Edit(s, b) PROVE KeptInv'
  BY <1>5 DEF Edit, MarkDirty, fileVars, flagVars, passVars, snapVars, curVars
<1>6. ASSUME NEW s \in Slugs, NEW b \in UserBodies, ReplaceBody(s, b) PROVE KeptInv'
  BY <1>6 DEF ReplaceBody, MarkDirty, fileVars, flagVars, passVars, snapVars, curVars
<1>7. ASSUME NEW s \in Slugs, NEW p \in Paths, MoveDocToFolder(s, p) PROVE KeptInv'
  BY <1>7, KeptRequestFlush DEF MoveDocToFolder, MarkDirty, fileVars
<1>8. ASSUME NEW s \in Slugs, NEW p \in Paths, CreateNew(s, p) PROVE KeptInv'
  BY <1>8, KeptRequestFlush DEF CreateNew, AddOpenDoc, fileVars
<1>9. ASSUME NEW s \in Slugs, NEW p \in Paths, NEW b \in UserBodies,
             CreateSeeded(s, p, b)
      PROVE  KeptInv'
  BY <1>9 DEF CreateSeeded, AddOpenDoc, fileVars, passVars, snapVars, curVars
<1> QED
  BY <1>1, <1>2, <1>3, <1>4, <1>5, <1>6, <1>7, <1>8, <1>9 DEF UserStep

\* A step of the pass clears a mark only if nothing was edited since the
\* generation was captured; the note it takes up next counts as reloaded no more.
LEMMA KeptPass ==
    ASSUME OpenInv, KeptInv, TypeOK', PassStep \/ WriteFails,
           UNCHANGED <<reads, loads, retired>>,
           reloaded' = IF cur' = cur THEN reloaded ELSE reloaded \ {cur'}
    PROVE  KeptInv'
<1> USE SetsAssumption, BoundsAssumption
<1> USE DEF OpenInv, SyncTypes, TypeOK, KeptInv, OpenIsKnown, CleanIsSaved,
            CapturedIsShown, Live, Opened, Working
<1>1. ASSUME NEW s \in Slugs, SkipConflicted(s) \/ SkipLoading(s) PROVE KeptInv'
  BY <1>1 DEF SkipConflicted, SkipLoading, AtNote, docVars, markVars, fileVars, flagVars,
     curVars
<1>2. ASSUME NEW s \in Slugs, DropUnopened(s) PROVE KeptInv'
  <2>1. s \in retired
    BY <1>2 DEF DropUnopened, AtNote
  <2> QED
    BY <1>2, <2>1 DEF DropUnopened, AtNote, ClearDirty, docVars, fileVars, flagVars, curVars
<1>3. ASSUME NEW s \in Slugs, BeginNote(s) PROVE KeptInv'
  BY <1>3 DEF BeginNote, AtNote, Writable, docVars, markVars, fileVars, flagVars
<1>4. CASE FileStep
  <2>1. /\ UNCHANGED <<docVars, markVars, lastWritten, saved>>
        /\ Working /\ ((Goto(pc') /\ pc' # "idle" /\ pc' # "loop") \/ LeaveNote)
    BY <1>4 DEF FileStep, ProbeOld, MoveFile, CheckTarget, Compare, NoteWrite,
       CommitWrite, Goto, fileVars
  <2> QED
    BY <2>1 DEF Goto, LeaveNote, docVars, markVars, snapVars, curVars
<1>5. CASE Settle
  <2>1. /\ saved' = [saved EXCEPT ![cur] = curBody] /\ LeaveNote /\ cur \in Slugs
        /\ UNCHANGED docVars /\ reloaded' = reloaded \ {NoSlug}
    BY <1>5 DEF Settle, LeaveNote
  <2>2. CASE gen[cur] = curGen
    BY <1>5, <2>1, <2>2 DEF Settle, ClearDirtyIfUnchanged, ClearDirty, LeaveNote,
       docVars, snapVars
  <2>3. CASE gen[cur] # curGen
    BY <1>5, <2>1, <2>3 DEF Settle, ClearDirtyIfUnchanged, LeaveNote, docVars, markVars,
       snapVars
  <2> QED
    BY <2>2, <2>3
<1>6. CASE EndPass
  BY <1>6 DEF EndPass, PassOver, StartPass, docVars, markVars, fileVars, curVars
<1>7. CASE WriteFails
  BY <1>7 DEF WriteFails, LeaveNote, docVars, markVars, fileVars, snapVars
<1> QED
  BY <1>1, <1>2, <1>3, <1>4, <1>5, <1>6, <1>7 DEF PassStep, LoopStep

LEMMA KeptEditor ==
    ASSUME MoveScope # "any", OpenInv, KeptInv, OwnStep
    PROVE  KeptInv'
<1>0. TypeOK'
  BY EditorIsNext, TypeNext DEF OpenInv, SyncTypes
<1>1. CASE NoteContent \/ WriteContent \/ RenameContent
  <2>1. PassStep
    BY <1>1 DEF NoteContent, WriteContent, RenameContent, NoteWrite, CommitWrite,
       MoveFile, PassStep, FileStep
  <2>2. cur' = cur /\ UNCHANGED <<reads, loads, retired, reloaded>>
    BY <1>1 DEF NoteContent, WriteContent, RenameContent, NoteWrite, CommitWrite,
       MoveFile, Goto, curVars, flowVars
  <2> QED BY <1>0, <2>1, <2>2, KeptPass
<1>2. CASE OtherStep
  <2> USE DEF OtherStep, flowVars
  <2>1. CASE UserStep
    <3>1. cur' = cur
      BY <2>1 DEF UserStep, EnsureHandle, Mount, Unmount, MarkConflict, DismissConflict,
         Edit, ReplaceBody, MoveDocToFolder, CreateNew, CreateSeeded, RequestFlush,
         StartPass, passVars, curVars
    <3> QED BY <1>0, <1>2, <2>1, <3>1, KeptUser DEF Aside
  <2>2. ASSUME NEW s \in Slugs, Hydrate(s) PROVE KeptInv'
    <3>1. UNCHANGED <<passVars, markVars, path, active, buffer, reads, loads, retired,
                      reloaded>>
      BY <1>2, <2>2 DEF Hydrate, passVars, curVars
    <3> QED BY <1>0, <2>2, <3>1, SetsAssumption
            DEF OpenInv, SyncTypes, TypeOK, KeptInv, OpenIsKnown, CleanIsSaved,
                CapturedIsShown, Live, Opened, Working, Hydrate, markVars, passVars,
                snapVars, curVars
  <2>3. CASE FlushTick
    <3>1. UNCHANGED <<docVars, markVars, fileVars>> /\ RequestFlush
      BY <2>3 DEF FlushTick
    <3>2. Opened' = Opened /\ Opened \subseteq Slugs
      BY <3>1 DEF docVars, Opened
    <3>3. /\ \A s \in todo' \ retired : s \in snapOpen' /\ snapPath'[s] # NoPath
          /\ pc' = "idle" => todo' = {}
          /\ todo' \ dirty' \subseteq todo
          /\ cur' = cur /\ curGen' = curGen /\ curBody' = curBody
          /\ Working' => Working /\ todo' = todo
      BY <3>1, <3>2, KeptRequestFlush
         DEF OpenInv, SyncTypes, TypeOK, KeptInv, OpenIsKnown, docVars, markVars
    <3>4. reloaded' = reloaded
      BY <1>2, <3>3
    <3> QED BY <1>0, <1>2, <3>1, <3>2, <3>3, <3>4
            DEF KeptInv, OpenIsKnown, CleanIsSaved, CapturedIsShown, Live, docVars,
                markVars, fileVars
  <2>4. CASE PassStep \/ WriteFails
    BY <1>0, <1>2, <2>4, KeptPass
  <2>5. \/ UserStep \/ FlushTick \/ PassStep \/ WriteFails
        \/ \E s \in Slugs : Hydrate(s)
    BY <1>2 DEF PassStep, FileStep, ProbeOld, CheckTarget, Compare, Settle, EndPass,
       LoopStep, SkipConflicted, DropUnopened, SkipLoading, BeginNote, AtNote
  <2> QED BY <2>1, <2>2, <2>3, <2>4, <2>5
<1> QED BY <1>1, <1>2 DEF OwnStep

\* Of the watcher, only three steps touch what KeptInv speaks of: a reload that
\* is applied, a note that appears or follows its file, a note that goes.
LEMMA KeptAside ==
    ASSUME KeptInv,
           UNCHANGED <<docVars, markVars, saved, passVars, retired, reloaded>>,
           \A r \in reads' \cup loads' : r.note \in Opened \cup retired
    PROVE  KeptInv'
BY DEF KeptInv, OpenIsKnown, CleanIsSaved, CapturedIsShown, Live, Opened, Working, docVars,
       markVars, passVars, snapVars, curVars

LEMMA KeptReloadApply ==
    ASSUME OpenInv, KeptInv, NEW r \in loads, ReloadApply(r)
    PROVE  KeptInv'
<1> USE DEF OpenInv, SyncTypes, TypeOK, FlowTypes
<1>1. /\ r.note \in Slugs /\ r.note \in Opened \cup retired
      /\ handle' = [handle EXCEPT ![r.note] = "ready"]
      /\ UNCHANGED <<path, loadPath, active, lastWritten, passVars, reads, retired>>
      /\ loads' \subseteq loads
  BY DEF ReloadApply, ReloadFrame, KeptInv, OpenIsKnown
<1>2. r.note \notin retired => handle[r.note] = "ready"
  BY <1>1 DEF ReloadApply, Opened
<1>3. /\ Opened' = Opened \cup {r.note}
      /\ \A s \in Slugs \ retired : handle'[s] = handle[s]
  BY <1>1, <1>2 DEF Opened
<1>6. /\ UNCHANGED <<pc, todo, snapOpen, snapPath, cur, curGen, curBody>>
      /\ active \in Slugs \cup {NoSlug} /\ (Working => cur \in Slugs)
      /\ todo \subseteq Slugs
  BY <1>1 DEF passVars, snapVars, curVars
<1>4. CASE /\ IF handle[r.note] = "none" THEN MarkDirty(r.note) ELSE UNCHANGED markVars
           /\ UNCHANGED <<mirror, buffer, saved, reloaded>>
  <2>1. \A s \in Slugs \ retired : /\ gen'[s] = gen[s] /\ (s \in dirty' <=> s \in dirty)
                                   /\ Live(s)' = Live(s)
    BY <1>1, <1>2, <1>4 DEF MarkDirty, markVars, Live
  <2>2. saved' = saved /\ reloaded' = reloaded /\ dirty' \subseteq Slugs
    BY <1>1, <1>4 DEF MarkDirty, markVars
  <2>3. OpenIsKnown'
    BY <1>1, <1>3, <1>6, <2>1, <2>2 DEF KeptInv, OpenIsKnown
  <2>4. CleanIsSaved'
    BY <1>1, <1>3, <1>6, <2>1, <2>2 DEF KeptInv, CleanIsSaved, Live
  <2>5. CapturedIsShown'
    BY <1>1, <1>3, <1>6, <2>1, <2>2 DEF KeptInv, CapturedIsShown, Working, Live
  <2> QED BY <2>3, <2>4, <2>5 DEF KeptInv
<1>5. CASE /\ mirror' = [mirror EXCEPT ![r.note] = r.body]
           /\ buffer' = IF active = r.note THEN r.body ELSE buffer
           /\ ClearDirty(r.note)
           /\ saved' = [saved EXCEPT ![r.note] = r.body]
           /\ reloaded' = IF cur = r.note THEN reloaded \cup {cur} ELSE reloaded
  <2>1. \A s \in Slugs \ {r.note} :
           /\ gen'[s] = gen[s] /\ (s \in dirty' <=> s \in dirty)
           /\ saved'[s] = saved[s] /\ (s \in reloaded' <=> s \in reloaded)
           /\ Live(s)' = Live(s)
    BY <1>1, <1>5 DEF ClearDirty, Live
  <2>2. /\ gen'[r.note] = 0 /\ r.note \notin dirty' /\ saved'[r.note] = r.body
        /\ Live(r.note)' = r.body /\ (cur = r.note => cur \in reloaded')
        /\ dirty' \subseteq dirty
    BY <1>1, <1>5 DEF ClearDirty, Live
  <2>3. OpenIsKnown'
    BY <1>1, <1>3, <1>6, <2>1, <2>2 DEF KeptInv, OpenIsKnown
  <2>4. CleanIsSaved'
    BY <1>1, <1>3, <1>6, <2>1, <2>2 DEF KeptInv, CleanIsSaved, Live
  <2>5. CapturedIsShown'
    BY <1>1, <1>3, <1>6, <2>1, <2>2 DEF KeptInv, CapturedIsShown, Working, Live
  <2> QED BY <2>3, <2>4, <2>5 DEF KeptInv
<1> QED BY <1>4, <1>5 DEF ReloadApply

LEMMA KeptAddApply ==
    ASSUME OpenInv, KeptInv, NEW m \in matches, AddApply(m)
    PROVE  KeptInv'
<1>1. /\ \A s \in Slugs : path[s] # NoPath => path'[s] # NoPath
      /\ \A s \in retired : path'[s] = NoPath
  BY SetsAssumption DEF AddApply, FollowMove, AddNote, OpenInv, SyncTypes, FlowTypes,
     TypeOK, KeptInv, OpenIsKnown
<1>2. UNCHANGED <<handle, loadPath, mirror, active, buffer, markVars, fileVars, passVars,
                  reads, loads, retired, reloaded>>
  BY DEF AddApply
<1> QED BY <1>1, <1>2 DEF KeptInv, OpenIsKnown, CleanIsSaved, CapturedIsShown, Live,
        Opened, Working, markVars, fileVars, passVars, snapVars, curVars

LEMMA KeptRemove ==
    ASSUME OpenInv, KeptInv, NEW s \in Slugs, RemoveDue(s)
    PROVE  KeptInv'
<1>1. UNCHANGED <<active, buffer, gen, fileVars, passVars, reads, loads, reloaded>>
  BY DEF RemoveDue
<1>2. CASE RemoveKnownDoc(s)
  <2>1. /\ retired' = retired \cup {s} /\ path'[s] = NoPath
        /\ Opened' \subseteq Opened /\ Opened \ {s} \subseteq Opened' /\ dirty' \subseteq dirty
        /\ \A t \in Slugs \ {s} : /\ path'[t] = path[t] /\ handle'[t] = handle[t]
                                  /\ t \in dirty' <=> t \in dirty
                                  /\ Live(t)' = Live(t)
    BY <1>1, <1>2 DEF RemoveKnownDoc, LeaveCatalog, CloseDoc, LeaveOpen, Opened, Live,
       OpenInv, SyncTypes, TypeOK
  <2>2. UNCHANGED <<active, gen, saved, reloaded, reads, loads, pc, todo, snapOpen, snapPath,
                    cur, curGen, curBody>>
    BY <1>1 DEF fileVars, passVars, snapVars, curVars
  <2>3. active \in Slugs \cup {NoSlug} /\ (Working => cur \in Slugs)
        /\ todo \subseteq Slugs /\ Opened \subseteq Slugs
    BY DEF OpenInv, SyncTypes, TypeOK, Opened
  <2>4. OpenIsKnown'
    <3>1. \A t \in Slugs \ retired' :
              /\ t # s /\ t \notin retired /\ path'[t] = path[t] /\ handle'[t] = handle[t]
              /\ (t \in Opened' <=> t \in Opened)
      BY <2>1
    <3>2. \A t \in retired' : path'[t] = NoPath
      BY <2>1 DEF KeptInv, OpenIsKnown, OpenInv, SyncTypes, FlowTypes
    <3>3. \A r \in reads' \cup loads' : r.note \in Opened' \cup retired'
      BY <2>1, <2>2 DEF KeptInv, OpenIsKnown
    <3> QED BY <2>1, <2>2, <2>3, <3>1, <3>2, <3>3 DEF KeptInv, OpenIsKnown
  <2>5. CleanIsSaved'
    BY <2>1, <2>2 DEF KeptInv, CleanIsSaved, Live
  <2>6. CapturedIsShown'
    BY <2>1, <2>2, <2>3 DEF KeptInv, CapturedIsShown, Working, Live
  <2> QED BY <2>4, <2>5, <2>6 DEF KeptInv
<1>3. CASE UNCHANGED <<path, conflict, retired>> /\ LeaveOpen
  BY <1>1, <1>3 DEF LeaveOpen, KeptInv, OpenIsKnown, CleanIsSaved, CapturedIsShown, Live,
     Opened, Working, fileVars, passVars, snapVars, curVars
<1> QED BY <1>2, <1>3 DEF RemoveDue

LEMMA KeptWatcher ==
    ASSUME OpenInv, KeptInv, WatcherStep \/ OutsideStep \/ \E s \in Slugs : Reopen(s)
    PROVE  KeptInv'
<1>0. \A r \in reads \cup loads : r.note \in Opened \cup retired
  BY DEF KeptInv, OpenIsKnown
<1>1. CASE \/ OutsideStep \/ \E e \in events : ReadBack(e)
           \/ \E p \in adds : AddMatch(p)
  BY <1>0, <1>1, KeptAside DEF OutsideStep, ChangeOutside, ReadBack, AddMatch, SaveFrame,
     flowVars, fileVars
<1>2. ASSUME NEW c \in checks, CompareSeen(c) PROVE KeptInv'
  <2>1. \A r \in reads' : r \in reads \/ r.note \in Opened
    BY <1>2 DEF CompareSeen, Dispatch, HandleExternalReload, HandleExternalAdd,
       HandleExternalRemove
  <2> QED BY <1>0, <1>2, <2>1, KeptAside DEF CompareSeen, fileVars
<1>3. ASSUME NEW p \in legs, RenameLeg(p) PROVE KeptInv'
  <2>1. reads' = reads
    BY <1>3 DEF RenameLeg, HandleExternalAdd, HandleExternalRemove
  <2> QED BY <1>0, <1>3, <2>1, KeptAside DEF RenameLeg, fileVars
<1>4. ASSUME NEW r \in reads, ReloadRead(r) PROVE KeptInv'
  <2>1. \A l \in loads' : l \in loads \/ l.note = r.note
    BY <1>4 DEF ReloadRead
  <2> QED BY <1>0, <1>4, <2>1, KeptAside DEF ReloadRead, fileVars
<1>5. ASSUME NEW s \in Slugs, Reopen(s) PROVE KeptInv'
  <2>1. s \in Opened
    BY <1>5 DEF Reopen, OpenInv, ConflictIsOpen
  <2> QED BY <1>0, <1>5, <2>1, KeptAside DEF Reopen, SaveFrame, fileVars
<1> QED BY <1>1, <1>2, <1>3, <1>4, <1>5, KeptReloadApply, KeptAddApply, KeptRemove
        DEF WatcherStep

\* No edit is "silently never written" (the comment above dirtyGeneration in
\* docFileSync.ts), whatever other programs do to the files meanwhile, as long as
\* notes are moved only while they are open.
THEOREM EditsKept ==
    ASSUME MoveScope # "any"
    PROVE  SyncSpec => []EditsKeptUnlessCrossed
<1>1. SyncInit => OpenInv /\ KeptInv
  BY OpenInit, KeptInit
<1>2. OpenInv /\ KeptInv /\ [SyncNext]_vaultVars => (OpenInv /\ KeptInv)'
  <2> SUFFICES ASSUME OpenInv, KeptInv, [SyncNext]_vaultVars PROVE KeptInv'
    BY OpenNext
  <2>1. CASE UNCHANGED vaultVars
    BY <2>1, KeptAside DEF vaultVars, vars, syncVars, flowVars, fileVars, KeptInv,
       OpenIsKnown
  <2> QED BY <2>1, KeptEditor, KeptWatcher DEF SyncNext
<1>3. KeptInv => EditsKeptUnlessCrossed
  BY DEF KeptInv, OpenIsKnown, CleanIsSaved, EditsKeptUnlessCrossed, Known
<1> QED BY <1>1, <1>2, <1>3, PTL DEF SyncSpec

-----------------------------------------------------------------------------
(* The program's own writes                                                  *)

\* The file of a note of the catalog.
Placed(p) == disk[p] # Missing /\ NotesAt(p) # {}

\* While nobody else changes a file, only the program's own reports are under way,
\* each about a file that exists and belongs to a note ...
QuietFlows ==
    /\ conflict = {} /\ retired = {} /\ reads = {} /\ loads = {}
    /\ adds = {} /\ matches = {}
    /\ \A s \in Slugs : removing[s] = NoPath
    /\ \A e \in events : e.kind \in {"rename", "create"} /\ Placed(e.at)
    /\ \A c \in checks : c.kind \in {"rename", "create"} /\ Placed(c.at)
    /\ \A p \in legs : Placed(p)

\* ... and a note stays where it is, so that the pass has no file to rename.
NothingMoves ==
    /\ \A s \in Slugs : snapPath[s] \in {NoPath, path[s]}
    /\ \A s \in Slugs : lastWritten[s] \in {NoPath, path[s]}
    /\ pc \notin {"probe", "rename"}

QuietInv == outside \in Nat /\ (outside = 0 => QuietFlows /\ NothingMoves)

LEMMA QuietInit == SyncInit => QuietInv
BY SetsAssumption DEF SyncInit, Init, QuietInv, QuietFlows, NothingMoves

\* A file that belongs to a note still does so if no file and no path goes.
LEMMA PlacedStays ==
    ASSUME NEW p, Placed(p), p \in Paths,
           disk' = disk \/ disk'[p] # Missing,
           \A s \in Slugs : path[s] # NoPath => path'[s] = path[s]
    PROVE  Placed(p)'
BY SetsAssumption DEF Placed, NotesAt

\* What the user does moves no note.
LEMMA QuietUser ==
    ASSUME MoveScope = "none", TypeOK, NothingMoves,
           UserStep \/ FlushTick \/ \E s \in Slugs : Hydrate(s)
    PROVE  /\ NothingMoves' /\ UNCHANGED disk
           /\ \A s \in Slugs : path[s] # NoPath => path'[s] = path[s]
<1> USE DEF NothingMoves, TypeOK
<1>1. ASSUME RequestFlush, UNCHANGED lastWritten,
             path' \in [Slugs -> Paths \cup {NoPath}],
             \A s \in Slugs : path[s] # NoPath => path'[s] = path[s]
      PROVE  NothingMoves'
  BY <1>1, SetsAssumption
     DEF RequestFlush, StartPass, passVars, snapVars, curVars
<1>2. ASSUME UNCHANGED <<path, lastWritten, passVars>> PROVE NothingMoves'
  BY <1>2 DEF passVars, snapVars
<1>3. ASSUME NEW s \in Slugs, NEW p \in Paths, AddOpenDoc(s, p)
      PROVE  /\ path' \in [Slugs -> Paths \cup {NoPath}]
             /\ \A t \in Slugs : path[t] # NoPath => path'[t] = path[t]
  BY <1>3 DEF AddOpenDoc
<1>4. ASSUME NEW s \in Slugs, NEW p \in Paths, CreateNew(s, p)
      PROVE  NothingMoves'
  BY <1>1, <1>3, <1>4 DEF CreateNew, fileVars
<1>5. ASSUME NEW s \in Slugs, NEW p \in Paths, NEW b \in UserBodies,
             CreateSeeded(s, p, b)
      PROVE  NothingMoves'
  BY <1>3, <1>5, SetsAssumption DEF CreateSeeded, fileVars, passVars, snapVars
<1>6. ASSUME NEW s \in Slugs, Unmount(s) PROVE NothingMoves'
  BY <1>1, <1>6 DEF Unmount, fileVars
<1>7. CASE FlushTick
  BY <1>1, <1>7 DEF FlushTick, docVars, fileVars
<1>8. ASSUME NEW s \in Slugs, Hydrate(s) PROVE NothingMoves'
  BY <1>2, <1>8 DEF Hydrate
<1>9. ASSUME NEW s \in Slugs, \/ EnsureHandle(s) \/ Mount(s)
                              \/ MarkConflict(s) \/ DismissConflict(s)
                              \/ \E b \in UserBodies : Edit(s, b) \/ ReplaceBody(s, b)
      PROVE  NothingMoves'
  BY <1>2, <1>9 DEF EnsureHandle, Mount, MarkConflict, DismissConflict, Edit,
     ReplaceBody, fileVars, docVars
<1>10. ASSUME NEW s \in Slugs, NEW p \in Paths, MoveDocToFolder(s, p) PROVE FALSE
  BY <1>10 DEF MoveDocToFolder
<1>11. NothingMoves'
  BY <1>4, <1>5, <1>6, <1>7, <1>8, <1>9, <1>10 DEF UserStep
<1>12. \/ UNCHANGED <<path, disk>>
       \/ UNCHANGED disk /\ \E s \in Slugs, p \in Paths : AddOpenDoc(s, p)
  BY <1>10 DEF UserStep, FlushTick, Hydrate, EnsureHandle, Mount, Unmount, MarkConflict,
     DismissConflict, Edit, ReplaceBody, CreateNew, CreateSeeded, fileVars, docVars
<1> QED BY <1>3, <1>11, <1>12

\* Nor does the pass: it has no old file to look for.
LEMMA QuietPass ==
    ASSUME TypeOK, NothingMoves, PassStep \/ WriteFails
    PROVE  /\ NothingMoves' /\ UNCHANGED path
           /\ \A p \in Paths : disk[p] # Missing => disk'[p] # Missing
<1> USE DEF NothingMoves, TypeOK
<1>1. ASSUME NEW s \in Slugs, LoopStep(s)
      PROVE  NothingMoves' /\ UNCHANGED <<path, disk>>
  <2>1. UNCHANGED <<path, lastWritten, snapPath, disk>>
    BY <1>1 DEF LoopStep, SkipConflicted, DropUnopened, SkipLoading, BeginNote, docVars,
       fileVars
  <2>2. pc' \notin {"probe", "rename"}
    BY <1>1 DEF LoopStep, SkipConflicted, DropUnopened, SkipLoading, BeginNote, Writable
  <2> QED BY <2>1, <2>2
<1>2. CASE ProbeOld \/ MoveFile
  BY <1>2 DEF ProbeOld, MoveFile
<1>3. CASE CheckTarget \/ Compare \/ NoteWrite \/ WriteFails
  BY <1>3 DEF CheckTarget, Compare, NoteWrite, WriteFails, Goto, LeaveNote, snapVars,
     docVars, fileVars
<1>4. CASE CommitWrite
  <2>1. Target \in Paths /\ disk' = [disk EXCEPT ![Target] = curBody]
    BY <1>4 DEF CommitWrite, Working
  <2> QED BY <1>4, <2>1, SetsAssumption DEF CommitWrite, Goto, snapVars, docVars
<1>5. CASE Settle
  <2>1. cur \in Slugs /\ Target = path[cur] /\ UNCHANGED <<path, disk, snapPath>>
    BY <1>5, SetsAssumption DEF Settle, Working, Target, LeaveNote, snapVars, docVars
  <2> QED BY <1>5, <2>1 DEF Settle, LeaveNote
<1>6. CASE EndPass
  BY <1>6 DEF EndPass, StartPass, PassOver, docVars, fileVars
<1> QED BY <1>1, <1>2, <1>3, <1>4, <1>5, <1>6 DEF PassStep, FileStep

\* The editor's own writes report a file that exists and belongs to their note.
LEMMA QuietEditor ==
    ASSUME MoveScope = "none", OwnKinds \subseteq {"rename", "create"}, OpenInv, QuietInv,
           outside = 0, OwnStep
    PROVE  QuietInv'
<1> USE DEF OpenInv, SyncTypes
<1>1. QuietFlows /\ NothingMoves
  BY DEF QuietInv
<1>2. /\ outside' = 0 /\ conflict' = {}
      /\ UNCHANGED <<checks, legs, reads, loads, adds, matches, removing, retired>>
  BY <1>1 DEF OwnStep, NoteContent, WriteContent, RenameContent, OtherStep, flowVars,
     QuietFlows, NoteWrite, CommitWrite, MoveFile, flagVars
<1>5. /\ NothingMoves'
      /\ \A p \in Paths : disk[p] # Missing => disk'[p] # Missing
      /\ \A s \in Slugs : path[s] # NoPath => path'[s] = path[s]
  <2>1. \/ UserStep \/ FlushTick \/ PassStep \/ WriteFails
        \/ \E s \in Slugs : Hydrate(s)
    BY EditorIsNext DEF Next
  <2> QED BY <1>1, <2>1, QuietUser, QuietPass DEF SyncTypes
<1>6. \A p \in Paths : Placed(p) => Placed(p)'
  BY <1>5, SetsAssumption DEF Placed, NotesAt
<1>7. \A e \in events' : /\ e.kind \in {"rename", "create"} /\ e.at \in Paths
                         /\ Placed(e.at)'
  <2>1. \A e \in events : /\ e.kind \in {"rename", "create"} /\ e.at \in Paths
                          /\ Placed(e.at)'
    BY <1>1, <1>6 DEF QuietFlows, FlowTypes
  <2>2. CASE WriteContent
    <3>1. /\ Target \in Paths /\ path[cur] = Target /\ cur \in Slugs /\ path' = path
          /\ disk'[Target] # Missing
      BY <1>1, <2>2, SetsAssumption
         DEF WriteContent, CommitWrite, TypeOK, Working, Target, NothingMoves, docVars
    <3>2. \A p : p = Target => disk'[p] # Missing /\ NotesAt(p)' # {}
      BY <3>1 DEF NotesAt
    <3>3. \A e \in events' : e \in events \/ (e.kind \in OwnKinds /\ e.at = Target)
      BY <2>2 DEF WriteContent, Report
    <3>4. ASSUME NEW e \in events', e.kind \in OwnKinds, e.at = Target
          PROVE  Placed(e.at)'
      BY <3>2, <3>4 DEF Placed, NotesAt
    <3> QED BY <2>1, <3>1, <3>3, <3>4
  <2>3. CASE RenameContent
    BY <1>1, <2>3 DEF RenameContent, MoveFile, NothingMoves
  <2>4. CASE NoteContent \/ OtherStep
    BY <2>1, <2>4 DEF NoteContent, OtherStep
  <2> QED BY <2>2, <2>3, <2>4 DEF OwnStep
<1>8. QuietFlows'
  <2>1. /\ \A c \in checks' : c.kind \in {"rename", "create"} /\ Placed(c.at)'
        /\ \A p \in legs' : Placed(p)'
    BY <1>1, <1>2, <1>6 DEF QuietFlows, FlowTypes
  <2> QED BY <1>1, <1>2, <1>7, <2>1 DEF QuietFlows
<1> QED BY <1>2, <1>5, <1>8 DEF QuietInv

\* The reports of these writes come to nothing: the path is in the catalog, and
\* the file is there.
LEMMA QuietWatcher ==
    ASSUME OpenInv, QuietInv, outside = 0, WatcherStep \/ \E s \in Slugs : Reopen(s)
    PROVE  QuietInv'
<1> USE DEF OpenInv, SyncTypes
<1>1. QuietFlows /\ NothingMoves
  BY DEF QuietInv
<1>2. ASSUME NEW e \in events, ReadBack(e) PROVE QuietInv'
  BY <1>1, <1>2 DEF ReadBack, SaveFrame, QuietInv, QuietFlows, NothingMoves, docVars,
     fileVars, flagVars, passVars, snapVars, Placed, NotesAt
<1>3. ASSUME NEW c \in checks, CompareSeen(c) PROVE QuietInv'
  <2>1. c.kind \in {"rename", "create"} /\ Placed(c.at)
    BY <1>1 DEF QuietFlows
  <2>2. /\ UNCHANGED <<conflict, reads, adds, removing>>
        /\ legs' \subseteq legs \cup {c.at}
    BY <1>3, <2>1 DEF CompareSeen, Dispatch, HandleExternalAdd, Placed
  <2> QED BY <1>1, <1>3, <2>1, <2>2
          DEF CompareSeen, QuietInv, QuietFlows, NothingMoves, docVars, fileVars,
              passVars, snapVars, Placed, NotesAt
<1>4. ASSUME NEW p \in legs, RenameLeg(p) PROVE QuietInv'
  <2>1. UNCHANGED <<conflict, reads, adds, removing>>
    BY <1>1, <1>4 DEF RenameLeg, HandleExternalAdd, QuietFlows, Placed
  <2> QED BY <1>1, <1>4, <2>1
          DEF RenameLeg, QuietInv, QuietFlows, NothingMoves, docVars, fileVars, passVars,
              snapVars, Placed, NotesAt
<1>5. ASSUME NEW s \in Slugs, Reopen(s) \/ RemoveDue(s) PROVE FALSE
  BY <1>1, <1>5 DEF Reopen, RemoveDue, QuietFlows
<1> QED BY <1>1, <1>2, <1>3, <1>4, <1>5 DEF WatcherStep, QuietFlows

\* "Own writes are dropped" (vaultWatcher.ts): without outside changes, reports of
\* the program's own writes cause no conflict, no reload and no removal, if notes
\* are not moved and the system reports a write as the rename or the creation that
\* the atomic replacement of a file is.
THEOREM OwnWritesAreDropped ==
    ASSUME MoveScope = "none", OwnKinds \subseteq {"rename", "create"}
    PROVE  SyncSpec => []OwnWritesQuiet
<1>1. SyncInit => OpenInv /\ QuietInv
  BY OpenInit, QuietInit
<1>2. OpenInv /\ QuietInv /\ [SyncNext]_vaultVars => (OpenInv /\ QuietInv)'
  <2> SUFFICES ASSUME OpenInv, QuietInv, [SyncNext]_vaultVars PROVE QuietInv'
    BY OpenNext
  <2>1. CASE UNCHANGED vaultVars
    BY <2>1 DEF vaultVars, vars, syncVars, flowVars, docVars, fileVars, flagVars, passVars,
       snapVars, QuietInv, QuietFlows, NothingMoves, Placed, NotesAt
  <2>2. CASE outside # 0 \/ OutsideStep
    <3>1. OutsideStep => outside' = outside + 1
      BY DEF OutsideStep, ChangeOutside
    <3>2. OwnStep \/ UNCHANGED vaultVars => outside' = outside
      BY DEF OwnStep, NoteContent, WriteContent, RenameContent, OtherStep, vaultVars,
         syncVars
    <3>3. WatcherStep \/ (\E s \in Slugs : Reopen(s)) => outside' = outside
      BY DEF WatcherStep, ReadBack, CompareSeen, RenameLeg, ReloadRead, ReloadApply,
         ReloadFrame, AddMatch, AddApply, RemoveDue, Reopen
    <3>4. outside' \in Nat /\ outside' # 0
      BY <2>2, <3>1, <3>2, <3>3 DEF QuietInv, SyncNext
    <3> QED BY <3>4 DEF QuietInv
  <2> QED BY <2>1, <2>2, QuietEditor, QuietWatcher DEF SyncNext
<1>3. QuietInv => OwnWritesQuiet
  BY DEF QuietInv, QuietFlows, OwnWritesQuiet
<1> QED BY <1>1, <1>2, <1>3, PTL DEF SyncSpec
=============================================================================
