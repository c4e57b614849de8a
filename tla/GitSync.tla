------------------------------ MODULE GitSync ------------------------------
(***************************************************************************)
(* Checkpoints: the commits that make every change of the assistant        *)
(* revertible (state/gitStore.ts and git_commit in src-tauri/src/git.rs),  *)
(* on top of the save path of DocFlush, whose writes they have to catch.   *)
(*                                                                         *)
(* A commit awaits a flush and then several git processes; edits, writes   *)
(* and further requests go on meanwhile.  Commits wait for each other in   *)
(* the order of their calls.  `dirtyPaths` is what the program believes to *)
(* be uncommitted; the gate at the end of a chat turn trusts it.           *)
(*                                                                         *)
(* `git add -A` reads the vault at one moment.  Reverting from within the  *)
(* program and the review feed are left out: nothing calls the one, and    *)
(* the other only displays commits.                                        *)
(***************************************************************************)
EXTENDS DocFlush, Sequences

CONSTANT MaxWaiting    \* bound: commits running or waiting for the lock

ASSUME WaitingAssumption == MaxWaiting \in Nat \ {0}

VARIABLES
    head,        \* the tree of the last commit: path -> body or Missing
    index,       \* what the running commit has staged
    dirtyPaths,  \* paths noted as written since the last commit
    unnoted,     \* paths written by the step of the pass that has just
                 \* returned, whose note its continuation will make
    lock,        \* commits in the order of their calls; the first one runs
    gitPc,       \* where it stands ("free": none runs)
    flushOwn,    \* TRUE: the flush it awaits is a pass it has started itself
    late,        \* history: since the running commit staged, paths noted and
                 \* paths whose file has been moved away
    strays       \* history: changed paths that no mark stands for any more

gitVars == <<head, index, dirtyPaths, unnoted, lock, gitPc, flushOwn,
             late, strays>>
allVars == <<vars, gitVars>>

\* What the program holds in memory only, minus what the pass skips by design.
Unwritten == [s \in Slugs |->
                 IF /\ s \in dirty \ conflict
                    /\ handle[s] = "ready" /\ Live(s) # saved[s]
                 THEN gen[s] ELSE 0]

\* A commit is known by its call: the paths it will clear, and (history) the
\* generations in memory at the call that are not written yet.
Call == [paths |-> dirtyPaths, owed |-> Unwritten]
Running == lock[1]

\* gitInit leaves an initial commit of the vault, or finds a repository that
\* this session's writes are not in.
GitInit ==
    /\ Init
    /\ head \in {disk, [p \in Paths |-> Missing]}
    /\ index = head
    /\ dirtyPaths = {} /\ unnoted = {}
    /\ lock = <<>> /\ gitPc = "free" /\ flushOwn = FALSE
    /\ late = {} /\ strays = {p \in Paths : disk[p] # head[p]}

-----------------------------------------------------------------------------
(* Requests for a commit *)

DocFrame == UNCHANGED vars

\* commitChangesNow: the snapshot is taken at the call, the rest waits for the
\* lock.
RunCommit ==
    /\ Len(lock) < MaxWaiting
    /\ lock' = Append(lock, Call)

\* The 1.5 s timer of a group of accepted changes; the organizer, through with
\* moving notes out of the inbox.  Both may call at any time.
CommitChangesNow ==
    /\ Yielded /\ RunCommit
    /\ DocFrame
    /\ UNCHANGED <<head, index, dirtyPaths, unnoted, gitPc, flushOwn, late,
                   strays>>

\* A chat turn without edits to review has settled; commitImmediate has the
\* same gate.
TurnEnd ==
    /\ Yielded /\ dirtyPaths # {} /\ RunCommit
    /\ DocFrame
    /\ UNCHANGED <<head, index, dirtyPaths, unnoted, gitPc, flushOwn,
                   late, strays>>

-----------------------------------------------------------------------------
(* One commit at a time *)

\* Mutant: whoever commits is expected to have flushed.
StartWithoutFlush ==
    /\ Yielded /\ gitPc = "free" /\ lock # <<>>
    /\ flushOwn' = TRUE /\ gitPc' = "flushing"
    /\ DocFrame
    /\ UNCHANGED <<head, index, dirtyPaths, unnoted, lock, late, strays>>

\* The lock is free: flush first.
StartCommit ==
    /\ Yielded /\ gitPc = "free" /\ lock # <<>>
    /\ UNCHANGED <<docVars, markVars>>
    /\ RequestFlush
    /\ UNCHANGED <<fileVars, flagVars>>
    /\ flushOwn' = (pc = "idle") /\ gitPc' = "flushing"
    /\ UNCHANGED <<head, index, dirtyPaths, unnoted, lock, late, strays>>

Flushed ==
    /\ gitPc = "flushing" /\ Yielded /\ (flushOwn => pc = "idle")
    /\ gitPc' = "adding"
    /\ DocFrame
    /\ UNCHANGED <<head, index, dirtyPaths, unnoted, lock, flushOwn, late,
                   strays>>

\* git_commit: `git add -A`, and `git diff --cached --quiet`, which with nothing
\* staged ends it in success.
Add ==
    /\ gitPc = "adding"
    /\ index' = disk /\ late' = {}
    /\ gitPc' = IF disk = head THEN "landed" ELSE "committing"
    /\ lock' = [lock EXCEPT ![1].owed = [s \in Slugs |-> 0]]
    /\ flushOwn' = FALSE
    /\ DocFrame
    /\ UNCHANGED <<head, dirtyPaths, unnoted, strays>>

\* git commit, and rev-parse, whose failure makes the whole fail.
Commit ==
    /\ gitPc = "committing"
    /\ head' = index
    /\ gitPc' \in {"landed", "failed"}
    /\ DocFrame
    /\ UNCHANGED <<index, dirtyPaths, unnoted, lock, flushOwn, late, strays>>

Release == gitPc' = "free" /\ lock' = Tail(lock) /\ flushOwn' = FALSE

\* Mutant: everything counts as committed.
LandClearsAll ==
    /\ gitPc = "landed" /\ Yielded
    /\ dirtyPaths' = {}
    /\ strays' = {p \in strays \cup (late \cap Running.paths) : disk[p] # head[p]}
    /\ late' = {}
    /\ Release
    /\ DocFrame /\ UNCHANGED <<head, index, unnoted>>

\* The paths of the call are clean now, the ones noted since it are not.
Land ==
    /\ gitPc = "landed" /\ Yielded
    /\ dirtyPaths' = dirtyPaths \ Running.paths
    /\ strays' = {p \in strays \cup (late \ dirtyPaths') : disk[p] # head[p]}
    /\ late' = {}
    /\ Release
    /\ DocFrame /\ UNCHANGED <<head, index, unnoted>>

\* A git process fails: the marks stay for a retry, whose add stages
\* everything anew.
Fail ==
    /\ gitPc \in {"adding", "committing", "failed"} /\ Yielded
    /\ index' = head /\ late' = {}
    /\ Release
    /\ DocFrame /\ UNCHANGED <<head, dirtyPaths, unnoted, strays>>

-----------------------------------------------------------------------------
(* The editor, and the notes its writes make *)

\* The running commit has staged what was there.
Staged == gitPc \in {"committing", "landed", "failed"}

\* The awaited operation on a file has returned: its continuation, with which
\* the pass goes on, notes the path (scheduleAutoCommit).
Resumes == FileStep \/ Settle \/ WriteFails

EditorStep ==
    /\ \/ UserStep \/ FlushTick \/ PassStep \/ WriteFails
       \/ \E s \in Slugs : Hydrate(s)
    /\ LET noted == IF Resumes THEN unnoted ELSE {}
           moved == {p \in Paths : disk[p] # Missing /\ disk'[p] = Missing}
       IN  /\ dirtyPaths' = dirtyPaths \cup noted
           /\ late' = IF Staged THEN late \cup noted \cup moved ELSE late
           /\ unnoted' = IF CommitWrite \/ MoveFile THEN {Target}
                         ELSE unnoted \ noted
    /\ lock' = [i \in DOMAIN lock |->
                   [lock[i] EXCEPT !.owed =
                       [s \in Slugs |->
                           IF \/ s \in conflict'
                              \/ Settle /\ s = cur /\ curGen >= @[s]
                           THEN 0 ELSE @[s]]]]
    /\ UNCHANGED <<head, index, gitPc, flushOwn, strays>>

GitStep ==
    \/ StartCommit \/ Flushed \/ Add \/ Commit \/ Land \/ Fail

GitNext ==
    \/ EditorStep
    \/ CommitChangesNow \/ TurnEnd
    \/ GitStep

GitSpec == GitInit /\ [][GitNext]_allVars

-----------------------------------------------------------------------------

\* "Drain in-memory edits to disk FIRST so git add -A captures the real on-disk
\* state": a commit whose flush met no pass in flight stages every edit made
\* before it was called, unless the write failed or a conflict holds it back.
CommitsWhatWasThere ==
    [][Add /\ flushOwn =>
          \A s \in Slugs :
              Running.owed[s] = 0 \/ fails[s] > 0 \/ s \in conflict]_allVars

\* "A failed commit must leave the dirty set intact for retry", and a successful
\* one must leave what it has not staged: whenever the vault differs from the
\* last commit, some path is marked, so that the gate at the end of a turn
\* lets the next commit through.  Exempt is a file written, under a path of
\* the call, or moved away, after the commit had staged (Land takes the mark).
ChangesAreNoted ==
    (\E p \in Paths : disk[p] # head[p])
        => dirtyPaths \cup unnoted \cup strays # {}
=============================================================================
