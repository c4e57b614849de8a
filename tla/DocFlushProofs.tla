--------------------------- MODULE DocFlushProofs ---------------------------
(***************************************************************************)
(* Proofs about DocFlush: its type invariant for every value of the        *)
(* constants; that no edit is lost to a save (CleanMeansSaved) as long as  *)
(* notes are only moved while they are open; and, when notes are not       *)
(* moved, that the file of a clean note holds what is shown (DiskCurrent)  *)
(* and that no write empties a file (NeverWiped).                          *)
(***************************************************************************)
EXTENDS DocFlush, TLAPS

\* The initial states are well typed.
LEMMA TypeInit == Init => TypeOK
<1> SUFFICES ASSUME Init PROVE TypeOK
  OBVIOUS
<1>1. /\ disk \in [Paths -> Bodies \cup {Missing}]
      /\ path \in [Slugs -> Paths \cup {NoPath}] /\ lastWritten = path
      /\ handle = [s \in Slugs |-> "none"]
      /\ loadPath = [s \in Slugs |-> NoPath]
      /\ mirror = [s \in Slugs |-> EmptyBody]
      /\ active = NoSlug /\ buffer = EmptyBody
      /\ dirty = {} /\ gen = [s \in Slugs |-> 0]
      /\ conflict = {} /\ fails = [s \in Slugs |-> 0] /\ queued = FALSE
      /\ pc = "idle" /\ todo = {} /\ snapOpen = {}
      /\ snapPath = [s \in Slugs |-> NoPath]
      /\ cur = NoSlug /\ curGen = 0 /\ curBody = EmptyBody
      /\ saved = [s \in Slugs |-> EmptyBody]
  BY DEF Init
<1> QED
  BY <1>1, SetsAssumption DEF TypeOK, Working

\* The parts of a step that several actions share keep their variables typed.
LEMMA TypeRequestFlush ==
  ASSUME TypeOK, RequestFlush,
         path' \in [Slugs -> Paths \cup {NoPath}],
         dirty' \subseteq Slugs, lastWritten' = lastWritten
  PROVE  /\ queued' \in BOOLEAN
         /\ pc' \in {"idle", "loop", "probe", "rename", "guard", "compare",
                     "note", "commit", "settle"}
         /\ todo' \subseteq Slugs /\ snapOpen' \subseteq Slugs
         /\ snapPath' \in [Slugs -> Paths \cup {NoPath}]
         /\ cur' \in Slugs \cup {NoSlug} /\ curGen' \in Nat
         /\ curBody' \in Bodies
         /\ Working' => cur' \in Slugs /\ Target' \in Paths
         /\ pc' \in {"probe", "rename"} => lastWritten'[cur'] \in Paths
  BY DEF TypeOK, RequestFlush, StartPass, passVars, snapVars, curVars,
     Working, Target

\* Every step of the user keeps the state well typed.
LEMMA TypeUser == TypeOK /\ UserStep => TypeOK'
<1> SUFFICES ASSUME TypeOK, UserStep PROVE TypeOK'
  OBVIOUS
<1> USE SetsAssumption, BoundsAssumption DEF Working, Target
<1>1. ASSUME NEW s \in Slugs, EnsureHandle(s) PROVE TypeOK'
  BY <1>1 DEF TypeOK, EnsureHandle, MarkDirty, fileVars, flagVars, passVars,
     snapVars, curVars
<1>2. ASSUME NEW s \in Slugs, Mount(s) PROVE TypeOK'
  BY <1>2 DEF TypeOK, Mount, markVars, fileVars, flagVars, passVars,
     snapVars, curVars
<1>3. ASSUME NEW s \in Slugs, Unmount(s) PROVE TypeOK'
  BY <1>3, TypeRequestFlush
     DEF TypeOK, Unmount, markVars, fileVars, flagVars
<1>4. ASSUME NEW s \in Slugs, MarkConflict(s) \/ DismissConflict(s)
      PROVE  TypeOK'
  BY <1>4 DEF TypeOK, MarkConflict, DismissConflict, docVars, markVars,
     fileVars, passVars, snapVars, curVars
<1>5. ASSUME NEW s \in Slugs, NEW b \in UserBodies, Edit(s, b) PROVE TypeOK'
  BY <1>5 DEF TypeOK, Edit, MarkDirty, fileVars, flagVars, passVars,
     snapVars, curVars
<1>6. ASSUME NEW s \in Slugs, NEW b \in UserBodies, ReplaceBody(s, b)
      PROVE  TypeOK'
  BY <1>6 DEF TypeOK, ReplaceBody, MarkDirty, fileVars, flagVars, passVars,
     snapVars, curVars
<1>7. ASSUME NEW s \in Slugs, NEW p \in Paths, MoveDocToFolder(s, p)
      PROVE  TypeOK'
  <2>1. /\ path' \in [Slugs -> Paths \cup {NoPath}]
        /\ dirty' \subseteq Slugs /\ gen' \in [Slugs -> Nat]
    BY <1>7 DEF TypeOK, MoveDocToFolder, MarkDirty
  <2> QED
    BY <1>7, <2>1, TypeRequestFlush
       DEF TypeOK, MoveDocToFolder, fileVars, flagVars
<1>8. ASSUME NEW s \in Slugs, NEW p \in Paths, AddOpenDoc(s, p)
      PROVE  /\ path' \in [Slugs -> Paths \cup {NoPath}]
             /\ handle' \in [Slugs -> {"none", "loading", "ready"}]
             /\ loadPath' \in [Slugs -> Paths \cup {NoPath}]
             /\ active' \in Slugs \cup {NoSlug} /\ buffer' \in Bodies
             /\ dirty' \subseteq Slugs /\ gen' \in [Slugs -> Nat]
             /\ \A t \in Slugs :
                   handle'[t] = "loading" => loadPath'[t] \in Paths
  BY <1>8 DEF TypeOK, AddOpenDoc
<1>9. ASSUME NEW s \in Slugs, NEW p \in Paths, CreateNew(s, p) PROVE TypeOK'
  <2>1. AddOpenDoc(s, p) /\ RequestFlush
    BY <1>9 DEF CreateNew
  <2>2. /\ disk' = disk /\ lastWritten' = lastWritten /\ saved' = saved
        /\ conflict' = conflict /\ fails' = fails
        /\ mirror' = [mirror EXCEPT ![s] = EmptyBody]
    BY <1>9 DEF CreateNew, fileVars, flagVars
  <2> QED
    BY <2>1, <2>2, <1>8, TypeRequestFlush DEF TypeOK
<1>10. ASSUME NEW s \in Slugs, NEW p \in Paths, NEW b \in UserBodies,
              CreateSeeded(s, p, b)
       PROVE  TypeOK'
  <2>1. AddOpenDoc(s, p)
    BY <1>10 DEF CreateSeeded
  <2>2. /\ disk' = disk /\ lastWritten' = lastWritten /\ saved' = saved
        /\ conflict' = conflict /\ fails' = fails
        /\ queued' = queued /\ UNCHANGED <<pc, todo, snapPath, snapOpen>>
        /\ UNCHANGED <<cur, curGen, curBody>>
        /\ mirror' = [mirror EXCEPT ![s] = b]
    BY <1>10 DEF CreateSeeded, fileVars, flagVars, passVars, snapVars, curVars
  <2> QED
    BY <2>1, <2>2, <1>8 DEF TypeOK
<1> QED
  BY <1>1, <1>2, <1>3, <1>4, <1>5, <1>6, <1>7, <1>9, <1>10 DEF UserStep

\* Every step of the flush pass keeps the state well typed.
LEMMA TypePass == TypeOK /\ (PassStep \/ WriteFails) => TypeOK'
<1> SUFFICES ASSUME TypeOK, PassStep \/ WriteFails PROVE TypeOK'
  OBVIOUS
<1> USE SetsAssumption, BoundsAssumption DEF Working, Target
<1>1. ASSUME NEW s \in Slugs, SkipConflicted(s) \/ SkipLoading(s)
      PROVE  TypeOK'
  BY <1>1 DEF TypeOK, SkipConflicted, SkipLoading, AtNote, docVars, markVars,
     fileVars, flagVars, curVars
<1>2. ASSUME NEW s \in Slugs, DropUnopened(s) PROVE TypeOK'
  BY <1>2 DEF TypeOK, DropUnopened, AtNote, ClearDirty, docVars, fileVars,
     flagVars, curVars
<1>3. ASSUME NEW s \in Slugs, BeginNote(s) PROVE TypeOK'
  <2>1. Live(s) \in Bodies
    BY DEF TypeOK, Live
  <2>2. snapPath[s] \in Paths
    BY <1>3 DEF TypeOK, BeginNote, Writable
  <2>3. /\ pc' \in {"compare", "guard", "probe"}
        /\ pc' = "probe" => lastWritten[s] \in Paths
    BY <1>3 DEF TypeOK, BeginNote
  <2>4. cur' = s /\ curGen' = gen[s] /\ curBody' = Live(s) /\ todo' = todo \ {s}
    BY <1>3 DEF BeginNote, AtNote
  <2> QED
    BY <1>3, <2>1, <2>2, <2>3, <2>4 DEF TypeOK, BeginNote, docVars, markVars,
       fileVars, flagVars
<1>4. CASE ProbeOld
  BY <1>4 DEF TypeOK, ProbeOld, Goto, docVars, markVars, fileVars, flagVars,
     snapVars, curVars
<1>5. CASE MoveFile
  <2>1. disk' \in [Paths -> Bodies \cup {Missing}]
    BY <1>5 DEF TypeOK, MoveFile
  <2> QED
    BY <1>5, <2>1 DEF TypeOK, MoveFile, Goto, docVars, markVars, flagVars,
       snapVars, curVars
<1>6. CASE CheckTarget
  BY <1>6 DEF TypeOK, CheckTarget, Goto, LeaveNote, docVars, markVars,
     fileVars, flagVars, snapVars, curVars
<1>7. CASE Compare \/ NoteWrite
  BY <1>7 DEF TypeOK, Compare, NoteWrite, Goto, docVars, markVars, fileVars,
     flagVars, snapVars, curVars
<1>8. CASE CommitWrite
  BY <1>8 DEF TypeOK, CommitWrite, Goto, docVars, markVars, flagVars,
     snapVars, curVars
<1>9. CASE Settle
  <2>1. dirty' \subseteq Slugs /\ gen' \in [Slugs -> Nat]
    BY <1>9 DEF TypeOK, Settle, ClearDirtyIfUnchanged, ClearDirty, markVars
  <2>2. /\ lastWritten' \in [Slugs -> Paths \cup {NoPath}]
        /\ saved' \in [Slugs -> Bodies]
    BY <1>9 DEF TypeOK, Settle
  <2> QED
    BY <1>9, <2>1, <2>2 DEF TypeOK, Settle, LeaveNote, docVars, flagVars,
       snapVars
<1>10. CASE EndPass
  BY <1>10 DEF TypeOK, EndPass, PassOver, StartPass, docVars, markVars,
     fileVars, snapVars, curVars
<1>11. CASE WriteFails
  BY <1>11 DEF TypeOK, WriteFails, LeaveNote, docVars, markVars, fileVars,
     snapVars
<1> QED
  BY <1>1, <1>2, <1>3, <1>4, <1>5, <1>6, <1>7, <1>8, <1>9, <1>10, <1>11
     DEF PassStep, LoopStep, FileStep

\* Every step, of whoever takes it, keeps the state well typed.
LEMMA TypeNext == TypeOK /\ [Next]_vars => TypeOK'
<1> SUFFICES ASSUME TypeOK, [Next]_vars PROVE TypeOK'
  OBVIOUS
<1> USE SetsAssumption, BoundsAssumption DEF Working, Target
<1>1. CASE UserStep
  BY <1>1, TypeUser
<1>2. ASSUME NEW s \in Slugs, Hydrate(s) PROVE TypeOK'
  <2>1. mirror' \in [Slugs -> Bodies]
    <3>1. disk[loadPath[s]] # Missing /\ loadPath[s] \in Paths
             => disk[loadPath[s]] \in Bodies
      BY DEF TypeOK
    <3> QED
      BY <1>2, <3>1 DEF TypeOK, Hydrate
  <2> QED
    BY <1>2, <2>1 DEF TypeOK, Hydrate, markVars, flagVars, passVars,
       snapVars, curVars
<1>3. CASE FlushTick
  BY <1>3, TypeRequestFlush
     DEF TypeOK, FlushTick, docVars, markVars, fileVars, flagVars
<1>4. CASE PassStep \/ WriteFails
  BY <1>4, TypePass
<1>5. CASE UNCHANGED vars
  BY <1>5 DEF TypeOK, vars, docVars, markVars, fileVars, flagVars, passVars,
     snapVars, curVars
<1> QED
  BY <1>1, <1>2, <1>3, <1>4, <1>5 DEF Next

\* Type correctness: whatever is awaited stays defined while the rest of the
\* program runs (TypeOK).
THEOREM TypeCorrect == Spec => []TypeOK
<1>1. TypeOK /\ [Next]_vars => TypeOK'
  BY TypeNext
<1> QED
  BY TypeInit, <1>1, PTL DEF Spec

-----------------------------------------------------------------------------
(* No edit is lost to a save.  CleanMeansSaved is not inductive: Settle      *)
(* clears a mark on the strength of a generation captured several awaits     *)
(* earlier, so the invariant must say what the captured generation means     *)
(* while the pass works (CapturedIsLive), and that a mark is never cleared   *)
(* for another reason (DirtyIsOpen).                                         *)

\* What is proved inductive: the type invariant and the reasons a mark is kept
\* or cleared.
Inv == TypeOK /\ FlushInv

\* Nothing is open, dirty or captured at boot.
LEMMA FlushInit == Init => FlushInv
  BY SetsAssumption DEF Init, FlushInv, CleanMeansSaved, CapturedIsLive,
     DirtyIsOpen, Working, Opened

\* The start of a pass takes marks, paths and handles together, so everything
\* it will visit is open and has a path in its snapshot.
LEMMA OpenRequestFlush ==
  ASSUME Inv, RequestFlush,
         dirty \subseteq dirty', dirty' \subseteq Opened',
         Opened' \subseteq Slugs, \A s \in Opened' : path'[s] # NoPath
  PROVE  /\ todo' \subseteq snapOpen' \cap dirty'
         /\ \A s \in todo' : snapPath'[s] # NoPath
         /\ pc' = "idle" => todo' = {}
         /\ Working' => /\ Working /\ cur' = cur /\ curGen' = curGen
                        /\ curBody' = curBody /\ todo' = todo
  BY DEF Inv, FlushInv, DirtyIsOpen, RequestFlush, StartPass, Opened,
     passVars, snapVars, curVars, Working

\* A step of the user bumps the generation of a note whose body it changes,
\* and closes no note.
LEMMA FlushUser ==
  ASSUME MoveScope # "any", Inv, TypeOK', UserStep
  PROVE  FlushInv'
<1> USE SetsAssumption, BoundsAssumption
<1> USE DEF Inv, FlushInv, CleanMeansSaved, CapturedIsLive, DirtyIsOpen,
            TypeOK, Live, Opened, Working
<1>1. ASSUME NEW s \in Slugs, EnsureHandle(s) PROVE FlushInv'
  BY <1>1 DEF EnsureHandle, MarkDirty, fileVars, flagVars, passVars,
     snapVars, curVars
<1>2. ASSUME NEW s \in Slugs, Mount(s) PROVE FlushInv'
  BY <1>2 DEF Mount, markVars, fileVars, flagVars, passVars, snapVars,
     curVars
<1>3. ASSUME NEW s \in Slugs, Unmount(s) PROVE FlushInv'
  <2>1. handle[s] = "ready" /\ \A t \in Slugs : Live(t)' = Live(t)
    BY <1>3 DEF Unmount
  <2> QED
    BY <1>3, <2>1, OpenRequestFlush DEF Unmount, markVars, fileVars
<1>4. ASSUME NEW s \in Slugs, MarkConflict(s) \/ DismissConflict(s)
      PROVE  FlushInv'
  BY <1>4 DEF MarkConflict, DismissConflict, docVars, markVars, fileVars,
     passVars, snapVars, curVars
<1>5. ASSUME NEW s \in Slugs, NEW b \in UserBodies, Edit(s, b)
      PROVE  FlushInv'
  BY <1>5 DEF Edit, MarkDirty, fileVars, flagVars, passVars, snapVars,
     curVars
<1>6. ASSUME NEW s \in Slugs, NEW b \in UserBodies, ReplaceBody(s, b)
      PROVE  FlushInv'
  BY <1>6 DEF ReplaceBody, MarkDirty, fileVars, flagVars, passVars,
     snapVars, curVars
<1>7. ASSUME NEW s \in Slugs, NEW p \in Paths, MoveDocToFolder(s, p)
      PROVE  FlushInv'
  BY <1>7, OpenRequestFlush DEF MoveDocToFolder, MarkDirty, fileVars
<1>8. ASSUME NEW s \in Slugs, NEW p \in Paths, CreateNew(s, p)
      PROVE  FlushInv'
  BY <1>8, OpenRequestFlush DEF CreateNew, AddOpenDoc, fileVars
<1>9. ASSUME NEW s \in Slugs, NEW p \in Paths, NEW b \in UserBodies,
             CreateSeeded(s, p, b)
      PROVE  FlushInv'
  BY <1>9 DEF CreateSeeded, AddOpenDoc, fileVars, passVars, snapVars,
     curVars
<1> QED
  BY <1>1, <1>2, <1>3, <1>4, <1>5, <1>6, <1>7, <1>8, <1>9 DEF UserStep

\* A step of the pass clears a mark only if nothing was edited since the
\* generation was captured.
LEMMA FlushPass ==
  ASSUME Inv, TypeOK', PassStep \/ WriteFails
  PROVE  FlushInv'
<1> USE SetsAssumption, BoundsAssumption
<1> USE DEF Inv, FlushInv, CleanMeansSaved, CapturedIsLive, DirtyIsOpen,
            TypeOK, Live, Opened, Working
<1>1. ASSUME NEW s \in Slugs, SkipConflicted(s) \/ SkipLoading(s)
      PROVE  FlushInv'
  BY <1>1 DEF SkipConflicted, SkipLoading, AtNote, docVars, markVars,
     fileVars, flagVars, curVars
<1>2. ASSUME NEW s \in Slugs, DropUnopened(s) PROVE FALSE
  BY <1>2 DEF DropUnopened, AtNote
<1>3. ASSUME NEW s \in Slugs, BeginNote(s) PROVE FlushInv'
  BY <1>3 DEF BeginNote, AtNote, Writable, docVars, markVars, fileVars,
     flagVars
<1>4. CASE FileStep
  <2>1. /\ UNCHANGED <<docVars, markVars, lastWritten, saved>>
        /\ Working /\ ((Goto(pc') /\ pc' # "idle" /\ pc' # "loop") \/ LeaveNote)
    BY <1>4 DEF FileStep, ProbeOld, MoveFile, CheckTarget, Compare,
       NoteWrite, CommitWrite, Goto, fileVars
  <2> QED
    BY <2>1 DEF Goto, LeaveNote, docVars, markVars, snapVars, curVars
<1>5. CASE Settle
  <2>1. CASE gen[cur] = curGen
    BY <1>5, <2>1 DEF Settle, ClearDirtyIfUnchanged, ClearDirty, LeaveNote,
       docVars, snapVars
  <2>2. CASE gen[cur] # curGen
    BY <1>5, <2>2 DEF Settle, ClearDirtyIfUnchanged, LeaveNote, docVars,
       markVars, snapVars
  <2> QED
    BY <2>1, <2>2
<1>6. CASE EndPass
  BY <1>6 DEF EndPass, PassOver, StartPass, docVars, markVars, fileVars,
     curVars
<1>7. CASE WriteFails
  BY <1>7 DEF WriteFails, LeaveNote, docVars, markVars, fileVars, snapVars
<1> QED
  BY <1>1, <1>2, <1>3, <1>4, <1>5, <1>6, <1>7 DEF PassStep, LoopStep

\* The invariant is inductive, as long as only open notes are moved.
LEMMA FlushNext ==
  ASSUME MoveScope # "any"
  PROVE  Inv /\ [Next]_vars => Inv'
<1> SUFFICES ASSUME Inv, [Next]_vars PROVE Inv'
  OBVIOUS
<1>0. TypeOK'
  BY TypeNext DEF Inv
<1>1. CASE UserStep
  BY <1>0, <1>1, FlushUser DEF Inv
<1>2. ASSUME NEW s \in Slugs, Hydrate(s) PROVE FlushInv'
  BY <1>0, <1>2, SetsAssumption
     DEF Inv, FlushInv, CleanMeansSaved, CapturedIsLive, DirtyIsOpen, TypeOK,
         Live, Opened, Working, Hydrate, markVars, flagVars, passVars,
         snapVars, curVars
<1>3. CASE FlushTick
  <2>1. UNCHANGED <<path, handle, mirror, active, buffer, dirty, gen, saved>>
    BY <1>3 DEF FlushTick, docVars, markVars, fileVars
  <2>2. dirty' \subseteq Opened' /\ \A s \in Opened' : path'[s] # NoPath
    BY <2>1 DEF Inv, FlushInv, DirtyIsOpen, Opened
  <2>3. RequestFlush
    BY <1>3 DEF FlushTick
  <2>4. DirtyIsOpen' /\ CapturedIsLive'
    BY <2>1, <2>2, <2>3, OpenRequestFlush
       DEF Inv, FlushInv, DirtyIsOpen, CapturedIsLive, Opened, Live
  <2> QED
    BY <1>0, <2>1, <2>4 DEF Inv, FlushInv, CleanMeansSaved, Live
<1>4. CASE PassStep \/ WriteFails
  BY <1>0, <1>4, FlushPass DEF Inv
<1>5. CASE UNCHANGED vars
  BY <1>0, <1>5
     DEF Inv, FlushInv, CleanMeansSaved, CapturedIsLive, DirtyIsOpen, Live,
         Opened, Working, vars, docVars, markVars, fileVars, passVars,
         snapVars, curVars
<1> QED
  BY <1>0, <1>1, <1>2, <1>3, <1>4, <1>5 DEF Next, Inv

\* No edit is silently never written (CleanMeansSaved): a note that is open
\* and clean shows the body last loaded from or written to its file, whatever
\* edits, moves, conflicts and failures fall between the awaits of a save.
THEOREM EditsAreKept ==
  ASSUME MoveScope # "any"
  PROVE  Spec => []CleanMeansSaved
<1>1. Init => Inv
  BY TypeInit, FlushInit DEF Inv
<1>2. Inv /\ [Next]_vars => Inv'
  BY FlushNext
<1>3. Inv => CleanMeansSaved
  BY DEF Inv, FlushInv
<1> QED
  BY <1>1, <1>2, <1>3, PTL DEF Spec

-----------------------------------------------------------------------------
(* The failure store and the dirty set.  A pass that ends prunes the store   *)
(* against the dirty set; between passes marks are only added.               *)

\* No step but the end of a pass leads to the idle state from another one, and
\* no step taken there drops a mark or adds a failure.
LEMMA IdleKeepsMarks ==
  ASSUME TypeOK, [Next]_vars, pc = "idle", pc' = "idle"
  PROVE  dirty \subseteq dirty' /\ fails' = fails
<1> USE DEF docVars, markVars, flagVars, passVars
<1>1. CASE UserStep
  BY <1>1 DEF UserStep, EnsureHandle, Mount, Unmount, MarkConflict,
     DismissConflict, Edit, ReplaceBody, MoveDocToFolder, CreateNew,
     CreateSeeded, AddOpenDoc, MarkDirty
<1>2. ASSUME NEW s \in Slugs, Hydrate(s) PROVE dirty' = dirty /\ fails' = fails
  BY <1>2 DEF Hydrate
<1>3. CASE FlushTick
  BY <1>3 DEF FlushTick
<1>4. ~(PassStep \/ WriteFails)
  BY DEF PassStep, LoopStep, SkipConflicted, DropUnopened, SkipLoading,
     BeginNote, AtNote, FileStep, ProbeOld, MoveFile, CheckTarget, Compare,
     NoteWrite, CommitWrite, Settle, EndPass, WriteFails
<1>5. CASE UNCHANGED vars
  BY <1>5 DEF vars
<1> QED
  BY <1>1, <1>2, <1>3, <1>4, <1>5 DEF Next

\* Every step keeps the failures of an idle program among its dirty notes.
LEMMA FailuresNext ==
  TypeOK /\ FailuresAreDirty /\ [Next]_vars => FailuresAreDirty'
<1> SUFFICES ASSUME TypeOK, FailuresAreDirty, [Next]_vars, pc' = "idle"
             PROVE  \A s \in Slugs : fails'[s] > 0 => s \in dirty'
  BY DEF FailuresAreDirty
<1>1. CASE pc = "idle"
  BY <1>1, IdleKeepsMarks DEF FailuresAreDirty
<1>2. CASE pc # "idle"
  <2> USE DEF passVars
  <2>1. ~UserStep /\ ~FlushTick
    BY <1>2 DEF UserStep, EnsureHandle, Mount, Unmount, MarkConflict,
       DismissConflict, Edit, ReplaceBody, MoveDocToFolder, CreateNew,
       CreateSeeded, FlushTick, RequestFlush, StartPass
  <2>2. \A s \in Slugs : ~Hydrate(s) /\ ~LoopStep(s)
    BY <1>2 DEF Hydrate, LoopStep, SkipConflicted, DropUnopened, SkipLoading,
       BeginNote
  <2>3. ~FileStep /\ ~Settle /\ ~WriteFails /\ vars' # vars
    BY <1>2 DEF FileStep, ProbeOld, MoveFile, CheckTarget, Compare, NoteWrite,
       CommitWrite, Goto, LeaveNote, Settle, WriteFails, vars
  <2>4. EndPass
    BY <2>1, <2>2, <2>3 DEF Next, PassStep
  <2> QED
    BY <2>4 DEF EndPass, markVars
<1> QED
  BY <1>1, <1>2

\* Between passes only notes that are still dirty are reported as failing
\* (FailuresAreDirty): the end of flushDirtyOnce prunes every other entry.
THEOREM FailuresPruned == Spec => []FailuresAreDirty
<1>1. Init => TypeOK /\ FailuresAreDirty
  BY TypeInit DEF Init, FailuresAreDirty
<1>2. TypeOK /\ FailuresAreDirty /\ [Next]_vars => (TypeOK /\ FailuresAreDirty)'
  BY TypeNext, FailuresNext
<1> QED
  BY <1>1, <1>2, PTL DEF Spec
-----------------------------------------------------------------------------
(* The file of a clean open note, when no note is moved.  The pass then      *)
(* never renames and every note it visits is still where its snapshot says,  *)
(* so a write reaches the file of its own note and of no other.              *)

\* Two notes never share a file, and none was last written elsewhere.
OwnFiles ==
    /\ \A s \in Known, t \in Known : path[s] = path[t] => s = t
    /\ \A s \in Slugs : lastWritten[s] \in {NoPath, path[s]}

\* What the pass is about to rely on.
PassInPlace ==
    /\ pc \notin {"probe", "rename"}
    /\ \A s \in todo : snapPath[s] = path[s]
    /\ Working => Target = path[cur]
    /\ pc = "settle" => disk[Target] = curBody

DiskInv == OwnFiles /\ PassInPlace /\ DiskCurrent

\* Nothing is open at boot, and the catalog is what the scan found.
LEMMA DiskInit == Init => DiskInv
  BY DEF Init, DiskInv, OwnFiles, PassInPlace, DiskCurrent, Known, Taken,
     Working

\* A request leaves a running pass where it stands, and a new pass takes its
\* paths from the catalog.
LEMMA PlaceRequestFlush ==
  ASSUME PassInPlace, RequestFlush, disk' = disk, Working => path'[cur] = path[cur],
         \A s \in todo : path'[s] = path[s]
  PROVE  PassInPlace'
  BY DEF PassInPlace, RequestFlush, StartPass, passVars, snapVars, curVars,
     Working, Target

\* A step of the user touches no file, and a note it creates gets a path of its
\* own.
LEMMA DiskUser ==
  ASSUME MoveScope = "none", Inv, DiskInv, UserStep
  PROVE  DiskInv'
<1> USE SetsAssumption DEF Inv, FlushInv, CapturedIsLive, DirtyIsOpen, TypeOK, Opened
<1>1. ASSUME UNCHANGED <<disk, path, lastWritten, passVars>>, DiskCurrent'
      PROVE  DiskInv'
  BY <1>1 DEF DiskInv, OwnFiles, PassInPlace, Known, Working, Target, passVars,
     snapVars, curVars
<1>2. ASSUME NEW s \in Slugs, NEW p \in Paths, AddOpenDoc(s, p),
             UNCHANGED <<disk, lastWritten>>,
             \A t \in Slugs \ {s} : mirror'[t] = mirror[t]
      PROVE  /\ OwnFiles' /\ DiskCurrent'
             /\ \A t \in todo : path'[t] = path[t]
             /\ Working => path'[cur] = path[cur]
  <2>1. s \notin todo /\ (Working => cur # s)
    BY <1>2 DEF AddOpenDoc
  <2>2. OwnFiles'
    BY <1>2 DEF AddOpenDoc, DiskInv, OwnFiles, Known, Taken
  <2>3. DiskCurrent'
    BY <1>2 DEF AddOpenDoc, DiskInv, DiskCurrent, Live
  <2> QED
    BY <1>2, <2>1, <2>2, <2>3 DEF AddOpenDoc
<1>3. ASSUME NEW s \in Slugs, EnsureHandle(s) PROVE DiskInv'
  BY <1>1, <1>3 DEF EnsureHandle, MarkDirty, fileVars, DiskInv, DiskCurrent,
     Live
<1>4. ASSUME NEW s \in Slugs, Mount(s) PROVE DiskInv'
  BY <1>1, <1>4 DEF Mount, markVars, fileVars, DiskInv, DiskCurrent, Live
<1>5. ASSUME NEW s \in Slugs, Unmount(s) PROVE DiskInv'
  <2>1. UNCHANGED <<disk, path, lastWritten>>
    BY <1>5 DEF Unmount, fileVars
  <2>2. DiskCurrent'
    BY <1>5 DEF Unmount, markVars, fileVars, DiskInv, DiskCurrent, Live
  <2>3. OwnFiles'
    BY <2>1 DEF DiskInv, OwnFiles, Known
  <2> QED
    BY <1>5, <2>1, <2>2, <2>3, PlaceRequestFlush DEF Unmount, DiskInv
<1>6. ASSUME NEW s \in Slugs, MarkConflict(s) \/ DismissConflict(s)
      PROVE  DiskInv'
  BY <1>1, <1>6 DEF MarkConflict, DismissConflict, docVars, markVars, fileVars,
     DiskInv, DiskCurrent, Live
<1>7. ASSUME NEW s \in Slugs, NEW b \in UserBodies,
             Edit(s, b) \/ ReplaceBody(s, b)
      PROVE  DiskInv'
  BY <1>1, <1>7 DEF Edit, ReplaceBody, MarkDirty, fileVars, DiskInv,
     DiskCurrent, Live
<1>8. ASSUME NEW s \in Slugs, NEW p \in Paths, CreateNew(s, p) PROVE DiskInv'
  <2>1. UNCHANGED <<disk, lastWritten>> /\ RequestFlush
    BY <1>8 DEF CreateNew, fileVars
  <2>2. \A t \in Slugs \ {s} : mirror'[t] = mirror[t]
    BY <1>8 DEF CreateNew
  <2> QED
    BY <1>2, <1>8, <2>1, <2>2, PlaceRequestFlush DEF CreateNew, DiskInv
<1>9. ASSUME NEW s \in Slugs, NEW p \in Paths, NEW b \in UserBodies,
             CreateSeeded(s, p, b)
      PROVE  DiskInv'
  <2>1. UNCHANGED <<disk, lastWritten, passVars>>
    BY <1>9 DEF CreateSeeded, fileVars
  <2>2. \A t \in Slugs \ {s} : mirror'[t] = mirror[t]
    BY <1>9 DEF CreateSeeded
  <2>3. /\ OwnFiles' /\ DiskCurrent'
        /\ \A t \in todo : path'[t] = path[t]
        /\ Working => path'[cur] = path[cur]
    BY <1>2, <1>9, <2>1, <2>2 DEF CreateSeeded
  <2> QED
    BY <2>1, <2>3 DEF DiskInv, PassInPlace, Working, Target, passVars,
       snapVars, curVars
<1>10. ASSUME NEW s \in Slugs, NEW p \in Paths PROVE ~MoveDocToFolder(s, p)
  BY DEF MoveDocToFolder
<1> QED
  BY <1>3, <1>4, <1>5, <1>6, <1>7, <1>8, <1>9, <1>10 DEF UserStep

\* A step of the pass writes the file of the note it works on, which is dirty,
\* and clears the mark only when that file holds what the user sees.
LEMMA DiskPass ==
  ASSUME MoveScope = "none", Inv, DiskInv, PassStep \/ WriteFails
  PROVE  DiskInv'
<1> USE SetsAssumption
    DEF Inv, FlushInv, CapturedIsLive, DirtyIsOpen, TypeOK, Opened, DiskInv,
        PassInPlace, Working
<1>1. ASSUME UNCHANGED <<path, lastWritten>> PROVE OwnFiles'
  BY <1>1 DEF OwnFiles, Known
<1>2. ASSUME UNCHANGED <<docVars, dirty, disk>> PROVE DiskCurrent'
  BY <1>2 DEF docVars, DiskCurrent, Live
<1>3. ASSUME NEW s \in Slugs, SkipConflicted(s) \/ SkipLoading(s)
      PROVE  DiskInv'
  BY <1>1, <1>2, <1>3 DEF SkipConflicted, SkipLoading, AtNote, docVars,
     markVars, fileVars, curVars, Target
<1>4. ASSUME NEW s \in Slugs, DropUnopened(s) PROVE FALSE
  BY <1>4 DEF DropUnopened, AtNote
<1>5. ASSUME NEW s \in Slugs, BeginNote(s) PROVE DiskInv'
  <2>1. lastWritten[s] \in {NoPath, snapPath[s]}
    BY <1>5 DEF BeginNote, AtNote, OwnFiles
  <2>2. pc' \in {"compare", "guard"}
    BY <1>5, <2>1 DEF BeginNote
  <2> QED
    BY <1>1, <1>2, <1>5, <2>2 DEF BeginNote, AtNote, docVars, markVars,
       fileVars, Target
<1>6. CASE CheckTarget \/ Compare \/ NoteWrite \/ WriteFails
  <2>1. /\ Working /\ UNCHANGED <<docVars, markVars, fileVars>>
        /\ \/ /\ Goto(pc') /\ pc' \in {"compare", "note", "commit", "settle"}
              /\ pc' = "settle" => disk[Target] = curBody
           \/ LeaveNote
    BY <1>6 DEF CheckTarget, Compare, NoteWrite, WriteFails, Goto
  <2> QED
    BY <1>1, <1>2, <2>1 DEF Goto, LeaveNote, docVars, markVars, fileVars,
       snapVars, curVars, Target
<1>7. CASE CommitWrite
  <2>1. Target \in Paths /\ Target = path[cur] /\ cur \in dirty /\ cur \in Slugs
    BY <1>7 DEF CommitWrite, Target
  <2>2. DiskCurrent'
    <3> SUFFICES ASSUME NEW s \in Slugs, handle[s] = "ready", s \notin dirty
                 PROVE  disk'[path[s]] = Live(s)
      BY <1>7 DEF CommitWrite, docVars, markVars, DiskCurrent, Live
    <3>1. path[s] # Target
      BY <2>1 DEF OwnFiles, Known
    <3> QED
      BY <1>7, <3>1 DEF CommitWrite, DiskCurrent
  <2>3. OwnFiles'
    BY <1>1, <1>7 DEF CommitWrite, docVars
  <2> QED
    BY <1>7, <2>1, <2>2, <2>3 DEF CommitWrite, Goto, docVars, snapVars,
       curVars, Target
<1>8. CASE Settle
  <2>1. OwnFiles'
    BY <1>8 DEF Settle, docVars, OwnFiles, Known, Target
  <2>2. DiskCurrent'
    <3>1. CASE gen[cur] = curGen
      BY <1>8, <3>1 DEF Settle, ClearDirtyIfUnchanged, ClearDirty, docVars,
         DiskCurrent, Live
    <3>2. CASE gen[cur] # curGen
      BY <1>2, <1>8, <3>2 DEF Settle, ClearDirtyIfUnchanged, markVars
    <3> QED
      BY <3>1, <3>2
  <2> QED
    BY <1>8, <2>1, <2>2 DEF Settle, LeaveNote, docVars, snapVars
<1>9. CASE EndPass
  BY <1>1, <1>2, <1>9 DEF EndPass, StartPass, PassOver, docVars, markVars,
     fileVars, curVars
<1>10. ~ProbeOld /\ ~MoveFile
  BY DEF ProbeOld, MoveFile
<1> QED
  BY <1>3, <1>4, <1>5, <1>6, <1>7, <1>8, <1>9, <1>10
     DEF PassStep, LoopStep, FileStep

\* When nothing is moved, the strengthened invariant is inductive.
LEMMA DiskNext ==
  ASSUME MoveScope = "none"
  PROVE  Inv /\ DiskInv /\ [Next]_vars => DiskInv'
<1> SUFFICES ASSUME Inv, DiskInv, [Next]_vars PROVE DiskInv'
  OBVIOUS
<1>1. CASE UserStep
  BY <1>1, DiskUser
<1>2. ASSUME NEW s \in Slugs, Hydrate(s) PROVE DiskInv'
  BY <1>2 DEF Inv, FlushInv, DirtyIsOpen, TypeOK, DiskInv, OwnFiles,
     PassInPlace, DiskCurrent, Hydrate, Live, Known, Working, Target, markVars,
     passVars, snapVars, curVars
<1>3. CASE FlushTick
  <2>1. UNCHANGED <<docVars, markVars, fileVars>> /\ RequestFlush
    BY <1>3 DEF FlushTick
  <2>2. PassInPlace'
    BY <2>1, PlaceRequestFlush DEF DiskInv, docVars, fileVars
  <2> QED
    BY <2>1, <2>2 DEF DiskInv, OwnFiles, DiskCurrent, Live, Known, docVars,
       markVars, fileVars
<1>4. CASE PassStep \/ WriteFails
  BY <1>4, DiskPass
<1>5. CASE UNCHANGED vars
  BY <1>5 DEF DiskInv, OwnFiles, PassInPlace, DiskCurrent, Live, Known,
     Working, Target, vars, docVars, markVars, fileVars, passVars, snapVars,
     curVars
<1> QED
  BY <1>1, <1>2, <1>3, <1>4, <1>5 DEF Next

\* Durability (DiskCurrent): as long as notes are not moved, the file of an open
\* note that is not dirty holds exactly what the user sees, at every moment of
\* every pass.
THEOREM CleanIsOnDisk ==
  ASSUME MoveScope = "none"
  PROVE  Spec => []DiskCurrent
<1>1. Init => Inv /\ DiskInv
  BY TypeInit, FlushInit, DiskInit DEF Inv
<1>2. Inv /\ DiskInv /\ [Next]_vars => (Inv /\ DiskInv)'
  <2>1. MoveScope # "any"
    OBVIOUS
  <2> QED
    BY <2>1, FlushNext, DiskNext
<1>3. DiskInv => DiskCurrent
  BY DEF DiskInv
<1> QED
  BY <1>1, <1>2, <1>3, PTL DEF Spec
-----------------------------------------------------------------------------
(* No flush empties a file, when nothing is moved, reads do not fail and     *)
(* nobody empties a note.  An empty body is then never a loss: a note that   *)
(* shows one has come from a file without content, or has none yet.          *)

NoContent == {Missing, EmptyBody}

\* Empty bodies are true: whatever is shown, or is about to be written, as
\* empty belongs to a file without content.
EmptyIsTrue ==
    /\ \A p \in Paths : disk[p] = Missing \/ \E s \in Slugs : path[s] = p
    /\ \A s \in Slugs : handle[s] = "loading" => loadPath[s] = path[s]
    /\ \A s \in Slugs :
          handle[s] = "ready" /\ Live(s) = EmptyBody => disk[path[s]] \in NoContent
    /\ Working =>
          /\ Live(cur) = EmptyBody => curBody = EmptyBody
          /\ curBody = EmptyBody => disk[Target] \in NoContent

\* The scan fills the catalog from the files, and nothing is open.
LEMMA EmptyInit == Init => EmptyIsTrue
  BY DEF Init, EmptyIsTrue, Working

\* A step of the user gives no note an empty body, but the new ones.
LEMMA EmptyUser ==
  ASSUME MoveScope = "none", EmptyBody \notin UserBodies, Inv, DiskInv,
         EmptyIsTrue, UserStep
  PROVE  EmptyIsTrue'
<1> USE SetsAssumption
    DEF Inv, FlushInv, CapturedIsLive, DirtyIsOpen, TypeOK, Opened, DiskInv,
        EmptyIsTrue, NoContent, Working, Target
<1>1. ASSUME NEW s \in Slugs, EnsureHandle(s) PROVE EmptyIsTrue'
  BY <1>1 DEF EnsureHandle, MarkDirty, Live, fileVars, passVars, snapVars,
     curVars
<1>2. ASSUME NEW s \in Slugs, Mount(s) PROVE EmptyIsTrue'
  BY <1>2 DEF Mount, Live, markVars, fileVars, passVars, snapVars, curVars
<1>3. ASSUME RequestFlush
      PROVE  Working' => Working /\ UNCHANGED <<cur, curBody, Target>>
  BY <1>3 DEF RequestFlush, StartPass, passVars, snapVars, curVars
<1>4. ASSUME NEW s \in Slugs, Unmount(s) PROVE EmptyIsTrue'
  <2>1. handle[s] = "ready" /\ \A t \in Slugs : Live(t)' = Live(t)
    BY <1>4 DEF Unmount, Live
  <2> QED
    BY <1>3, <1>4, <2>1 DEF Unmount, fileVars
<1>5. ASSUME NEW s \in Slugs, MarkConflict(s) \/ DismissConflict(s)
      PROVE  EmptyIsTrue'
  BY <1>5 DEF MarkConflict, DismissConflict, Live, docVars, markVars, fileVars,
     passVars, snapVars, curVars
<1>6. ASSUME NEW s \in Slugs, NEW b \in UserBodies,
             Edit(s, b) \/ ReplaceBody(s, b)
      PROVE  EmptyIsTrue'
  BY <1>6 DEF Edit, ReplaceBody, MarkDirty, Live, fileVars, passVars,
     snapVars, curVars
<1>7. ASSUME NEW s \in Slugs, NEW p \in Paths, AddOpenDoc(s, p),
             UNCHANGED <<disk, lastWritten>>,
             \A t \in Slugs \ {s} : mirror'[t] = mirror[t],
             Working' => Working /\ UNCHANGED <<cur, curBody, Target>>
      PROVE  EmptyIsTrue'
  <2>1. Working => cur # s
    BY <1>7 DEF AddOpenDoc
  <2>2. \A t \in Slugs \ {s} : /\ Live(t)' = Live(t) /\ path'[t] = path[t]
                               /\ handle'[t] = handle[t]
                               /\ loadPath'[t] = loadPath[t]
    BY <1>7 DEF AddOpenDoc, Live
  <2>3. handle'[s] = "loading" /\ path'[s] = p /\ loadPath'[s] = p
        /\ path[s] = NoPath
    BY <1>7 DEF AddOpenDoc
  <2> QED
    BY <1>7, <2>1, <2>2, <2>3
<1>8. ASSUME NEW s \in Slugs, NEW p \in Paths, CreateNew(s, p)
      PROVE  EmptyIsTrue'
  <2>1. UNCHANGED <<disk, lastWritten>> /\ RequestFlush
    BY <1>8 DEF CreateNew, fileVars
  <2>2. \A t \in Slugs \ {s} : mirror'[t] = mirror[t]
    BY <1>8 DEF CreateNew
  <2> QED
    BY <1>3, <1>7, <1>8, <2>1, <2>2 DEF CreateNew
<1>9. ASSUME NEW s \in Slugs, NEW p \in Paths, NEW b \in UserBodies,
             CreateSeeded(s, p, b)
      PROVE  EmptyIsTrue'
  <2>1. /\ UNCHANGED <<disk, lastWritten>>
        /\ Working' => Working /\ UNCHANGED <<cur, curBody, Target>>
    BY <1>9 DEF CreateSeeded, fileVars, passVars, snapVars, curVars
  <2>2. \A t \in Slugs \ {s} : mirror'[t] = mirror[t]
    BY <1>9 DEF CreateSeeded
  <2> QED
    BY <1>7, <1>9, <2>1, <2>2 DEF CreateSeeded
<1>10. ASSUME NEW s \in Slugs, NEW p \in Paths PROVE ~MoveDocToFolder(s, p)
  BY DEF MoveDocToFolder
<1> QED
  BY <1>1, <1>2, <1>4, <1>5, <1>6, <1>8, <1>9, <1>10 DEF UserStep

\* A step of the pass writes what its note shows, or showed, to the note's own
\* file.
LEMMA EmptyPass ==
  ASSUME MoveScope = "none", Inv, DiskInv, EmptyIsTrue, PassStep \/ WriteFails
  PROVE  EmptyIsTrue'
<1> USE SetsAssumption
    DEF Inv, FlushInv, CapturedIsLive, DirtyIsOpen, TypeOK, Opened, DiskInv,
        PassInPlace, EmptyIsTrue, NoContent, Working
<1>1. ASSUME UNCHANGED <<docVars, disk>>,
             Working' => Working /\ UNCHANGED <<cur, curBody, Target>>
      PROVE  EmptyIsTrue'
  BY <1>1 DEF docVars, Live
<1>2. ASSUME NEW s \in Slugs, BeginNote(s) PROVE EmptyIsTrue'
  BY <1>2 DEF BeginNote, AtNote, Writable, Live, Target, docVars, markVars,
     fileVars
<1>3. ASSUME NEW s \in Slugs,
             SkipConflicted(s) \/ DropUnopened(s) \/ SkipLoading(s)
      PROVE  EmptyIsTrue'
  BY <1>1, <1>3 DEF SkipConflicted, DropUnopened, SkipLoading, AtNote, fileVars,
     curVars
<1>4. CASE CheckTarget \/ Compare \/ NoteWrite \/ WriteFails
  BY <1>1, <1>4 DEF CheckTarget, Compare, NoteWrite, WriteFails, Goto,
     LeaveNote, fileVars, snapVars, curVars, Target
<1>5. CASE CommitWrite
  <2>1. /\ Target \in Paths /\ Target = path[cur] /\ cur \in Slugs
        /\ handle[cur] = "ready"
    BY <1>5 DEF CommitWrite
  <2>2. \A s \in Slugs \ {cur} : path[s] \in Paths => path[s] # Target
    BY <2>1 DEF OwnFiles, Known
  <2>3. /\ UNCHANGED <<docVars, cur, curBody, Target>>
        /\ disk' = [disk EXCEPT ![Target] = curBody]
    BY <1>5 DEF CommitWrite, Goto, snapVars, curVars, Target
  <2>4. \A s \in Slugs : handle[s] = "ready" => path[s] \in Paths
    OBVIOUS
  <2> QED
    BY <1>5, <2>1, <2>2, <2>3, <2>4 DEF CommitWrite, docVars, Live
<1>6. CASE Settle
  BY <1>1, <1>6 DEF Settle, LeaveNote
<1>7. CASE EndPass
  BY <1>1, <1>7 DEF EndPass, StartPass, PassOver, fileVars
<1>8. ~ProbeOld /\ ~MoveFile
  BY DEF ProbeOld, MoveFile
<1> QED
  BY <1>2, <1>3, <1>4, <1>5, <1>6, <1>7, <1>8 DEF PassStep, LoopStep, FileStep

\* Empty bodies stay true, a load included: it reads the note's own file.
LEMMA EmptyNext ==
  ASSUME MoveScope = "none", ReadFaults = FALSE, EmptyBody \notin UserBodies
  PROVE  Inv /\ DiskInv /\ EmptyIsTrue /\ [Next]_vars => EmptyIsTrue'
<1> SUFFICES ASSUME Inv, DiskInv, EmptyIsTrue, [Next]_vars PROVE EmptyIsTrue'
  OBVIOUS
<1>1. CASE UserStep
  BY <1>1, EmptyUser
<1>2. ASSUME NEW s \in Slugs, Hydrate(s) PROVE EmptyIsTrue'
  <2> USE SetsAssumption DEF Inv, FlushInv, DirtyIsOpen, CapturedIsLive, TypeOK
  <2>1. /\ handle' = [handle EXCEPT ![s] = "ready"]
        /\ loadPath' = [loadPath EXCEPT ![s] = NoPath]
        /\ UNCHANGED <<disk, path, active, buffer, pc, cur, curBody, snapPath>>
    BY <1>2 DEF Hydrate, markVars, passVars, snapVars, curVars
  <2>2. /\ mirror' = [mirror EXCEPT ![s] = IF disk[path[s]] = Missing
                                           THEN EmptyBody ELSE disk[path[s]]]
        /\ loadPath[s] = path[s] /\ handle[s] = "loading"
    BY <1>2 DEF Hydrate, EmptyIsTrue
  <2>3. active # s /\ (Working => cur # s)
    BY <2>2
  <2>4. /\ \A t \in Slugs \ {s} : Live(t)' = Live(t)
        /\ Live(s)' = mirror'[s]
    BY <2>1, <2>2, <2>3 DEF Live
  <2>5. Live(s)' = EmptyBody => disk[path[s]] \in NoContent
    BY <2>2, <2>4 DEF NoContent
  <2>6. /\ Working' = Working /\ Target' = Target
    BY <2>1 DEF Working, Target
  <2> QED
    BY <2>1, <2>2, <2>3, <2>4, <2>5, <2>6 DEF EmptyIsTrue
<1>3. CASE FlushTick
  BY <1>3 DEF FlushTick, RequestFlush, StartPass, EmptyIsTrue, Live, Working,
     Target, docVars, fileVars, passVars, snapVars, curVars
<1>4. CASE PassStep \/ WriteFails
  BY <1>4, EmptyPass
<1>5. CASE UNCHANGED vars
  BY <1>5 DEF EmptyIsTrue, Live, Working, Target, vars, docVars, fileVars,
     passVars, snapVars, curVars
<1> QED
  BY <1>1, <1>2, <1>3, <1>4, <1>5 DEF Next

\* The only step that changes a file writes an empty body to files without
\* content only.
LEMMA WriteKeepsContent ==
  ASSUME Inv, DiskInv, EmptyIsTrue, [Next]_vars
  PROVE  [\A p \in Paths : disk[p] \notin {Missing, EmptyBody}
                              => disk'[p] # EmptyBody]_disk
<1>1. CASE CommitWrite
  BY <1>1 DEF CommitWrite, Inv, TypeOK, EmptyIsTrue, NoContent, Working, Target
<1>2. ASSUME ~CommitWrite PROVE disk' = disk
  <2>1. ~MoveFile
    BY DEF DiskInv, PassInPlace, MoveFile
  <2>2. CASE UserStep
    BY <2>2 DEF UserStep, EnsureHandle, Mount, Unmount, MarkConflict,
       DismissConflict, Edit, ReplaceBody, MoveDocToFolder, CreateNew,
       CreateSeeded, fileVars
  <2>3. ASSUME NEW s \in Slugs, Hydrate(s) \/ LoopStep(s) PROVE disk' = disk
    BY <2>3 DEF Hydrate, LoopStep, SkipConflicted, DropUnopened, SkipLoading,
       BeginNote, fileVars
  <2>4. CASE FlushTick \/ FileStep \/ Settle \/ EndPass \/ WriteFails
    BY <1>2, <2>1, <2>4 DEF FlushTick, FileStep, ProbeOld, CheckTarget, Compare,
       NoteWrite, Settle, EndPass, WriteFails, fileVars
  <2>5. CASE UNCHANGED vars
    BY <2>5 DEF vars, fileVars
  <2> QED
    BY <2>2, <2>3, <2>4, <2>5 DEF Next, PassStep
<1> QED
  BY <1>1, <1>2

\* The "0-byte incident" cannot come back (NeverWiped): when notes are not
\* moved, opening a note reads its file, and nobody empties a note, no step of
\* the program turns a file with content into an empty one.
THEOREM FilesKeepContent ==
  ASSUME MoveScope = "none", ReadFaults = FALSE, EmptyBody \notin UserBodies
  PROVE  Spec => NeverWiped
<1> DEFINE IInv == Inv /\ DiskInv /\ EmptyIsTrue
<1>1. Init => IInv
  BY TypeInit, FlushInit, DiskInit, EmptyInit DEF Inv
<1>2. IInv /\ [Next]_vars => IInv'
  <2>1. MoveScope # "any"
    OBVIOUS
  <2> QED
    BY <2>1, FlushNext, DiskNext, EmptyNext
<1>3. IInv /\ [Next]_vars =>
         [\A p \in Paths : disk[p] \notin {Missing, EmptyBody}
                              => disk'[p] # EmptyBody]_disk
  BY WriteKeepsContent
<1> QED
  BY <1>1, <1>2, <1>3, PTL DEF Spec, NeverWiped
=============================================================================
