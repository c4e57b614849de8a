------------------------------ MODULE AppQuit ------------------------------
(***************************************************************************)
(* Quitting the application while notes are being saved: the               *)
(* app:close-requested handler of components/CloseConfirmDialog.tsx and    *)
(* the app_quit command it ends with, on top of the save path of DocFlush. *)
(* Other programs may take a note's file away; what the watcher makes of   *)
(* that belongs to VaultSync.                                              *)
(***************************************************************************)
EXTENDS DocFlush

VARIABLES
    quitPc,   \* where the handler stands ("none": no quit is under way)
    own,      \* TRUE: the awaited flush is a pass that this handler started
    joined,   \* history: some flush of this quit found a pass in flight
    owed      \* history: slug -> the generation a quit must still save (0:
              \* nothing)

quitVars == <<quitPc, own, joined, owed>>

Failing == {s \in Slugs : fails[s] > 0}

\* What the program holds in memory only when the user asks to quit, minus
\* what the pass skips by design.
OwedNow == [s \in Slugs |->
               IF /\ s \in dirty \ conflict
                  /\ handle[s] = "ready" /\ Live(s) # saved[s]
               THEN gen[s] ELSE 0]

QuitInit ==
    /\ Init
    /\ quitPc = "none" /\ own = FALSE /\ joined = FALSE
    /\ owed = [s \in Slugs |-> 0]

-----------------------------------------------------------------------------

\* await flushDirty(): with a pass in flight the call only queues another one
\* and returns; otherwise it is the pass.
AwaitFlush ==
    /\ RequestFlush
    /\ own' = (pc = "idle")
    /\ joined' = (joined \/ pc # "idle")

FlushAwaited == Yielded /\ (own => pc = "idle")

QuitFrame == UNCHANGED <<docVars, markVars, fileVars, flagVars>>

\* Cmd-Q, the menu or the dock.
RequestQuit ==
    /\ Yielded /\ quitPc = "none"
    /\ QuitFrame
    /\ AwaitFlush
    /\ owed' = OwedNow
    /\ quitPc' = "saving"

\* Ask before quitting if a write has failed (or if chats are running, which
\* may always be so); otherwise go on to quitApp.
NeedsAnswer(asks) == asks \/ Failing # {}

\* Mutant: the handler waits until nothing is dirty.
SaveDoneAllClean(asks) ==
    /\ quitPc = "saving" /\ FlushAwaited /\ dirty = {}
    /\ QuitFrame
    /\ IF NeedsAnswer(asks)
       THEN quitPc' = "asking" /\ UNCHANGED <<own, joined, queued, passVars>>
       ELSE quitPc' = "leaving" /\ AwaitFlush
    /\ UNCHANGED owed

SaveDone(asks) ==
    /\ quitPc = "saving" /\ FlushAwaited
    /\ QuitFrame
    /\ IF NeedsAnswer(asks)
       THEN quitPc' = "asking" /\ UNCHANGED <<own, joined, queued, passVars>>
       ELSE quitPc' = "leaving" /\ AwaitFlush
    /\ UNCHANGED owed

\* The user keeps the application open ...
StayOpen ==
    /\ Yielded /\ quitPc = "asking"
    /\ quitPc' = "none" /\ own' = FALSE /\ joined' = FALSE
    /\ owed' = [s \in Slugs |-> 0]
    /\ QuitFrame /\ UNCHANGED <<queued, passVars>>

\* ... or quits: quitApp flushes a second time,
QuitAnyway ==
    /\ Yielded /\ quitPc = "asking"
    /\ QuitFrame
    /\ AwaitFlush
    /\ quitPc' = "leaving"
    /\ UNCHANGED owed

\* stops the timer
StopAutoFlush ==
    /\ quitPc = "leaving" /\ FlushAwaited
    /\ quitPc' = "closing"
    /\ QuitFrame /\ UNCHANGED <<queued, passVars, own, joined, owed>>

\* and has the process ended: app_quit gives the sidecars a moment to finish,
\* during which the rest of the program runs on.
Exit ==
    /\ Yielded /\ quitPc = "closing"
    /\ quitPc' = "exited"
    /\ QuitFrame /\ UNCHANGED <<queued, passVars, own, joined, owed>>

-----------------------------------------------------------------------------

QuitStep ==
    \/ RequestQuit
    \/ \E asks \in BOOLEAN : SaveDone(asks)
    \/ StayOpen \/ QuitAnyway \/ StopAutoFlush \/ Exit

\* The stale-path guard has put off the note, whose file is gone.
Defers(s) == CheckTarget /\ pc' = "loop" /\ s = cur

\* A completed write discharges what the quit owes for its note; so does a
\* conflict, which the user is told of, and a write put off, which the handler
\* counts as benign.
Discharge ==
    owed' = [s \in Slugs |->
                IF \/ s \in conflict'
                   \/ Settle /\ s = cur /\ curGen >= owed[s]
                   \/ Defers(s)
                THEN 0 ELSE owed[s]]

AppStep ==
    /\ \/ UserStep \/ PassStep \/ WriteFails
       \/ \E s \in Slugs : Hydrate(s)
       \/ FlushTick /\ quitPc # "closing"
    /\ Discharge
    /\ UNCHANGED <<quitPc, own, joined>>

\* Another program deletes a file, or moves it out of the vault.  A file that
\* goes before its rename makes the rename fail, which counts within MaxFails.
Vanish(p) ==
    /\ disk[p] # Missing
    /\ pc = "rename" => fails[cur] < MaxFails
    /\ disk' = [disk EXCEPT ![p] = Missing]
    /\ UNCHANGED <<docVars, markVars, lastWritten, saved, flagVars, queued,
                   passVars, quitVars>>

QuitNext ==
    /\ quitPc # "exited"
    /\ QuitStep \/ AppStep \/ \E p \in Paths : Vanish(p)

appVars == <<vars, quitVars>>

QuitSpec == QuitInit /\ [][QuitNext]_appVars

\* The pass and the handler run on, the rename of a file that is gone comes back
\* with its failure, and what awaits only the running stretch of the pass gets
\* its turn.
RenameOfNothing ==
    pc = "rename" /\ disk[lastWritten[cur]] = Missing /\ WriteFails

FairQuitSpec ==
    /\ QuitSpec
    /\ WF_appVars(PassStep /\ AppStep)
    /\ WF_appVars(RenameOfNothing /\ AppStep)
    /\ SF_appVars((\E asks \in BOOLEAN : SaveDone(asks)) \/ StopAutoFlush \/ Exit)

-----------------------------------------------------------------------------

\* "Flush first so edits typed right before quit reach disk"
\* (CloseConfirmDialog): when the program ends, every edit made before the quit
\* was asked for has been written, or its write has failed and the user was
\* told, or a conflict came up meanwhile, or the file was found gone and the
\* write put off.
QuitSaves ==
    quitPc = "exited" =>
        \A s \in Slugs : owed[s] = 0 \/ s \in Failing \/ s \in conflict

\* The same for a quit none of whose flushes met a pass already in flight.
QuietQuitSaves == ~joined => QuitSaves

\* A pass comes to an end again and again.  flushDirty goes on as long as there
\* has been a request during each pass, and only the clock says that the timer is
\* slower than that.
PassesEnd == []<>(pc = "idle")

\* The data-loss gate "never blocks a clean quit" (CloseConfirmDialog), nor one
\* with notes that stay dirty for a benign reason: a quit ends or asks as long as
\* passes end, though a note is put off by every pass because its file is gone,
\* stays in conflict, or is edited in each pass.
QuitEnds ==
    PassesEnd =>
        (quitPc \in {"saving", "leaving", "closing"} ~> quitPc \in {"asking", "exited"})
=============================================================================
