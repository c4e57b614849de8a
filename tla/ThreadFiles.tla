---------------------------- MODULE ThreadFiles ----------------------------
(***************************************************************************)
(* The transcripts of the chats: the store in memory (threadsStore.ts), the *)
(* two files of each thread (threadFiles.ts) and the surface the panel uses *)
(* (useThreads.ts, useThreadTurns.ts).                                      *)
(*                                                                         *)
(* Memory changes at once and the disk follows through one queue of file    *)
(* operations per thread.  A new thread is a draft, in memory only, until   *)
(* its first turn; then its meta file is written, and only then the turn.   *)
(* An append reads the whole file and writes it back.                       *)
(*                                                                         *)
(* A turn is a number, a meta record a version and the archived flag.  The  *)
(* program may die at any moment, and starts again from the disk.           *)
(***************************************************************************)
EXTENDS Naturals, FiniteSets, SequencesExt

CONSTANTS
    Threads,      \* thread ids, each minted once
    None,         \* no meta record
    MaxActive,    \* MAX_ACTIVE_THREADS
    Faults,       \* what may go wrong: "write": an operation fails; "read": an
                  \* append cannot read its file; "cut": a write in place gets
                  \* a part of the way, and fails or dies with the program
    MaxTurns,     \* bound: turns
    MaxVersion,   \* bound: patches of a meta record
    MaxFails,     \* bound: failing operations
    MaxCrashes    \* bound: deaths of the program

Meta == [version : 0 .. MaxVersion, archived : BOOLEAN]

ASSUME ThreadsAssumption ==
    /\ MaxActive \in Nat \ {0} /\ MaxTurns \in Nat /\ MaxVersion \in Nat
    /\ MaxFails \in Nat /\ MaxCrashes \in Nat
    /\ Faults \subseteq {"write", "read", "cut"}
    /\ None \notin Meta

VARIABLES
    threads,     \* memory: thread -> meta record, or None
    turns,       \* memory: thread -> its turns
    draftIds,    \* threads whose meta has not been written yet
    diskMeta,    \* <id>.json, or None
    diskTurns,   \* <id>.turns.jsonl, its whole lines; no file is one without
    half,        \* threads whose file of turns ends in a part of a line
    chains,      \* thread -> its file operations in the order of their calls
    minted,      \* ids that have been used
    said,        \* how many turns there have been
    fails, crashes,
    settled,     \* history: thread -> turns of the transcript whose append has
                 \* returned
    lost,        \* history: thread -> turns that a failing read or write has
                 \* taken out of the file, or kept out of it
    flaws        \* history: thread -> what has parted memory from disk

vars == <<threads, turns, draftIds, diskMeta, diskTurns, half, chains, minted, said,
          fails, crashes, settled, lost, flaws>>

memVars  == <<threads, turns, draftIds, minted, said>>
diskVars == <<diskMeta, diskTurns, half>>
faultVars == <<fails, crashes, lost>>

\* "failed": an operation failed, the change is in memory only; "wiped": a turn
\* came while a rewrite was under way, whose end took it out of memory;
\* "patched": the meta changed while its first write was under way; "crossed":
\* the thread was discarded while its first turn was on its way; "orphan": the
\* program died over a thread without a meta file that has turns; "overtaken": of
\* two first turns the second still waited for the meta file when a third came;
\* "damaged": an append has not read the file that it replaces, or has left a part
\* of it, since the last start or for good.
Flaws == {"failed", "wiped", "patched", "crossed", "orphan", "overtaken", "damaged"}

\* An operation: what it writes, how far it is, and what its read has found.
Op(kind, meta, list) == [kind |-> kind, meta |-> meta, turns |-> list,
                         stage |-> "wait", held |-> <<>>]

Init ==
    /\ threads = [t \in Threads |-> None]
    /\ turns = [t \in Threads |-> <<>>]
    /\ draftIds = {} /\ minted = {} /\ said = 0
    /\ diskMeta = [t \in Threads |-> None]
    /\ diskTurns = [t \in Threads |-> <<>>] /\ half = {}
    /\ chains = [t \in Threads |-> <<>>]
    /\ fails = 0 /\ crashes = 0
    /\ settled = [t \in Threads |-> {}] /\ lost = [t \in Threads |-> {}]
    /\ flaws = [t \in Threads |-> {}]

-----------------------------------------------------------------------------
(* The queue of a thread *)

\* runExclusive takes its place at the call.
Enqueue(t, op) == chains' = [chains EXCEPT ![t] = Append(@, op)]

\* Mutant: operations are not queued per thread.
MayRunFreely(t, i) == i \in DOMAIN chains[t]

\* ... and runs when everything before it has settled, however it settled.
MayRun(t, i) == i = 1 /\ chains[t] # <<>>

At(t, i, kinds, stage) ==
    /\ MayRun(t, i)
    /\ chains[t][i].kind \in kinds /\ chains[t][i].stage = stage

Reaches(t, i, stage) == chains' = [chains EXCEPT ![t][i].stage = stage]

Flaw(t, what) == flaws' = [flaws EXCEPT ![t] = @ \cup what]

Queued(t, kind) == \E i \in DOMAIN chains[t] : chains[t][i].kind = kind

\* A first turn waits for the meta file; the thread's files are being deleted.
Materializing(t) == Queued(t, "first")
Discarding(t) == Queued(t, "delete")

-----------------------------------------------------------------------------
(* Memory *)

Active == {t \in Threads : threads[t] # None /\ ~threads[t].archived}

\* A new thread, unless there is an unused one to go back to.
CreateThread(t) ==
    /\ t \notin minted
    /\ draftIds \cap Active = {}
    /\ Cardinality(Active) < MaxActive
    /\ threads' = [threads EXCEPT ![t] = [version |-> 0, archived |-> FALSE]]
    /\ draftIds' = draftIds \cup {t} /\ minted' = minted \cup {t}
    /\ UNCHANGED <<turns, said, diskVars, chains, faultVars, settled, flaws>>

\* Mutant: the first turn does not wait for the meta file.
AppendTurnEager(t) ==
    /\ threads[t] # None
    /\ said < MaxTurns /\ said' = said + 1
    /\ turns' = [turns EXCEPT ![t] = Append(@, said')]
    /\ draftIds' = draftIds \ {t}
    /\ Enqueue(t, Op("append", None, <<said'>>))
    /\ UNCHANGED <<threads, minted, diskVars, faultVars, settled, flaws>>

\* A message of the user, an answer, or the turn of a background task: rendered
\* first; the first one of a draft writes the meta file before itself.
AppendTurn(t) ==
    /\ threads[t] # None
    /\ said < MaxTurns /\ said' = said + 1
    /\ turns' = [turns EXCEPT ![t] = Append(@, said')]
    /\ Enqueue(t, IF t \in draftIds THEN Op("first", threads[t], <<said'>>)
                                    ELSE Op("append", None, <<said'>>))
    /\ flaws' = [flaws EXCEPT ![t] =
                    (IF t \in draftIds THEN @ \ {"patched"} ELSE @)
                      \cup {w \in {"crossed"} : Discarding(t)}
                      \cup {w \in {"overtaken"} : t \notin draftIds /\ Materializing(t)}]
    /\ UNCHANGED <<threads, draftIds, minted, diskVars, faultVars, settled>>

\* Mutant: the record that was there before the patch is written.
UpdateMetaLate(t, next) ==
    /\ threads' = [threads EXCEPT ![t] = next]
    /\ IF t \in draftIds
       THEN /\ UNCHANGED chains
            /\ Flaw(t, IF Materializing(t) THEN {"patched"} ELSE {})
       ELSE /\ Enqueue(t, Op("meta", threads[t], <<>>))
            /\ flaws' = [flaws EXCEPT ![t] = @ \ {"patched"}]
    /\ UNCHANGED <<turns, draftIds, minted, said>>

\* Changes of a draft stay in memory, for the write of its first turn.
UpdateMeta(t, next) ==
    /\ threads' = [threads EXCEPT ![t] = next]
    /\ IF t \in draftIds
       THEN /\ UNCHANGED chains
            /\ Flaw(t, IF Materializing(t) THEN {"patched"} ELSE {})
       ELSE /\ Enqueue(t, Op("meta", next, <<>>))
            /\ flaws' = [flaws EXCEPT ![t] = @ \ {"patched"}]
    /\ UNCHANGED <<turns, draftIds, minted, said>>

Patched(t, archived) ==
    [version |-> threads[t].version + 1, archived |-> archived]

\* Title, model, effort, mode, first session, fill of the context window.
Patch(t) ==
    /\ threads[t] # None /\ threads[t].version < MaxVersion
    /\ UpdateMeta(t, Patched(t, threads[t].archived))
    /\ UNCHANGED <<diskVars, faultVars, settled>>

\* removeThread deletes first and forgets then.
RemoveThread(t) ==
    /\ Enqueue(t, Op("delete", None, <<>>))
    /\ Flaw(t, IF Materializing(t) THEN {"crossed"} ELSE {})
    /\ UNCHANGED memVars

\* The chat's tab is closed: a draft is discarded, anything else put away.
ArchiveThread(t) ==
    /\ t \in Active /\ threads[t].version < MaxVersion
    /\ ~Discarding(t)
    /\ IF t \in draftIds THEN RemoveThread(t)
                         ELSE UpdateMeta(t, Patched(t, TRUE))
    /\ UNCHANGED <<diskVars, faultVars, settled>>

RestoreThread(t) ==
    /\ threads[t] # None /\ threads[t].archived
    /\ Cardinality(Active) < MaxActive
    /\ threads[t].version < MaxVersion
    /\ UpdateMeta(t, Patched(t, FALSE))
    /\ UNCHANGED <<diskVars, faultVars, settled>>

\* Mutant: the question goes with its answer.
RemoveTurnWithQuestion(t) ==
    /\ threads[t] # None /\ turns[t] # <<>>
    /\ ~Materializing(t) /\ ~Queued(t, "rewrite")
    /\ Enqueue(t, Op("rewrite", None,
                     IF Len(turns[t]) = 1 THEN <<>> ELSE Front(Front(turns[t]))))
    /\ settled' = [settled EXCEPT ![t] = @ \ {Last(turns[t])}]
    /\ UNCHANGED <<memVars, diskVars, faultVars, flaws>>

\* Regenerate: the file is rewritten without the last answer, and the new one
\* is on its way, until whose end the panel offers no other.  An answer takes
\* longer than the write of the meta file before its question, and than the
\* rewrite it was started with.
RemoveTurn(t) ==
    /\ threads[t] # None /\ turns[t] # <<>>
    /\ ~Materializing(t) /\ ~Queued(t, "rewrite")
    /\ Enqueue(t, Op("rewrite", None, Front(turns[t])))
    /\ settled' = [settled EXCEPT ![t] = @ \ {Last(turns[t])}]
    /\ UNCHANGED <<memVars, diskVars, faultVars, flaws>>

-----------------------------------------------------------------------------
(* The files *)

\* writeVaultFile replaces a file as a whole.
WriteMeta(t, i) ==
    /\ At(t, i, {"first", "meta"}, "wait")
    /\ diskMeta' = [diskMeta EXCEPT ![t] = chains[t][i].meta]
    /\ Reaches(t, i, "done")
    /\ UNCHANGED <<memVars, diskTurns, half, faultVars, settled, flaws>>

RewriteTurns(t, i) ==
    /\ At(t, i, {"rewrite"}, "wait")
    /\ diskTurns' = [diskTurns EXCEPT ![t] = chains[t][i].turns]
    /\ half' = half \ {t}
    /\ Reaches(t, i, "done")
    /\ UNCHANGED <<memVars, diskMeta, faultVars, settled, flaws>>

\* appendVaultFile reads the file ...
ReadTurns(t, i) ==
    /\ At(t, i, {"append"}, "wait")
    /\ chains' = [chains EXCEPT ![t][i].stage = "read",
                                ![t][i].held = diskTurns[t]]
    /\ UNCHANGED <<memVars, diskVars, faultVars, settled, flaws>>

\* ... or cannot, and goes on as if there were none (it holds <<>>) ...
ReadFails(t, i) ==
    /\ "read" \in Faults /\ fails < MaxFails
    /\ At(t, i, {"append"}, "wait")
    /\ fails' = fails + 1
    /\ Reaches(t, i, "blind")
    /\ Flaw(t, {"damaged"})
    /\ UNCHANGED <<memVars, diskVars, crashes, lost, settled>>

\* ... and writes it back with the new turn at its end.  A part of a line takes
\* the turn that is put behind it with it: the line cannot be parsed.
NewFile(t, i) ==
    LET op == chains[t][i]
    IN  op.held \o IF op.stage = "read" /\ t \in half THEN <<>> ELSE op.turns

\* The turns that leave the file.
TakenFrom(t) == ToSet(diskTurns[t]) \ ToSet(diskTurns'[t])

WriteTurns(t, i) ==
    /\ At(t, i, {"append"}, "read")
    /\ diskTurns' = [diskTurns EXCEPT ![t] = NewFile(t, i)]
    /\ half' = half \ {t}
    /\ lost' = IF t \in half
               THEN [lost EXCEPT ![t] = @ \cup ToSet(chains[t][i].turns)] ELSE lost
    /\ Reaches(t, i, "done")
    /\ UNCHANGED <<memVars, diskMeta, fails, crashes, settled, flaws>>

ReplaceTurns(t, i) ==
    /\ At(t, i, {"append"}, "blind")
    /\ diskTurns' = [diskTurns EXCEPT ![t] = NewFile(t, i)]
    /\ half' = half \ {t}
    /\ lost' = [lost EXCEPT ![t] = @ \cup TakenFrom(t)]
    /\ Reaches(t, i, "done")
    /\ UNCHANGED <<memVars, diskMeta, fails, crashes, settled, flaws>>

\* writeTextFile empties the file and fills it.
BeingWritten(t, i) == At(t, i, {"append"}, "read") \/ At(t, i, {"append"}, "blind")

CutShort(t, i) ==
    /\ "cut" \in Faults /\ fails < MaxFails
    /\ BeingWritten(t, i)
    /\ \E n \in 0 .. Len(NewFile(t, i)) :
          diskTurns' = [diskTurns EXCEPT ![t] = SubSeq(NewFile(t, i), 1, n)]
    /\ half' \in {half \cup {t}, half \ {t}}
    /\ lost' = [lost EXCEPT ![t] = @ \cup TakenFrom(t)]
    /\ fails' = fails + 1
    /\ Reaches(t, i, "failed")
    /\ Flaw(t, {"damaged"})
    /\ UNCHANGED <<memVars, diskMeta, crashes, settled>>

\* deleteThreadFiles: the marker of the thread first.
DeleteMeta(t, i) ==
    /\ At(t, i, {"delete"}, "wait")
    /\ diskMeta' = [diskMeta EXCEPT ![t] = None]
    /\ Reaches(t, i, "half")
    /\ UNCHANGED <<memVars, diskTurns, half, faultVars, settled, flaws>>

DeleteTurns(t, i) ==
    /\ At(t, i, {"delete"}, "half")
    /\ diskTurns' = [diskTurns EXCEPT ![t] = <<>>]
    /\ half' = half \ {t}
    /\ Reaches(t, i, "done")
    /\ UNCHANGED <<memVars, diskMeta, faultVars, settled, flaws>>

\* An operation fails before it has touched the disk.
Fault(t, i) ==
    /\ "write" \in Faults /\ fails < MaxFails
    /\ MayRun(t, i) /\ chains[t][i].stage \in {"wait", "read", "blind", "half"}
    /\ fails' = fails + 1
    /\ Reaches(t, i, "failed")
    /\ UNCHANGED <<memVars, diskVars, crashes, lost, settled, flaws>>

-----------------------------------------------------------------------------
(* The operation has returned: it leaves the queue, its caller goes on *)

Leave(t, i) == chains' = [chains EXCEPT ![t] = RemoveAt(@, i)]

\* materialize returns to appendTurn.
Materialized(t, i) ==
    /\ At(t, i, {"first"}, "done")
    /\ draftIds' = draftIds \ {t}
    /\ chains' = [chains EXCEPT ![t] =
                     Append(RemoveAt(@, i), Op("append", None, @[i].turns))]
    /\ UNCHANGED <<threads, turns, minted, said, diskVars, faultVars, settled, flaws>>

Appended(t, i) ==
    /\ At(t, i, {"append"}, "done")
    /\ settled' = [settled EXCEPT ![t] = @ \cup
                      {x \in ToSet(chains[t][i].turns) \cap ToSet(turns[t]) :
                         \A j \in DOMAIN chains[t] :
                            chains[t][j].kind = "rewrite"
                                => Contains(chains[t][j].turns, x)}]
    /\ Leave(t, i)
    /\ UNCHANGED <<memVars, diskVars, faultVars, flaws>>

MetaWritten(t, i) ==
    /\ At(t, i, {"meta"}, "done")
    /\ Leave(t, i)
    /\ UNCHANGED <<memVars, diskVars, faultVars, settled, flaws>>

\* rewriteTurns puts what it has written into memory.
Rewritten(t, i) ==
    /\ At(t, i, {"rewrite"}, "done")
    /\ turns' = [turns EXCEPT ![t] = chains[t][i].turns]
    /\ Flaw(t, IF Len(turns[t]) > Len(chains[t][i].turns) + 1 THEN {"wiped"}
                                                             ELSE {})
    /\ settled' = [settled EXCEPT ![t] = @ \cap ToSet(turns'[t])]
    /\ Leave(t, i)
    /\ UNCHANGED <<threads, draftIds, minted, said, diskVars, faultVars>>

\* removeThread forgets the thread once its files are gone.
Removed(t, i) ==
    /\ At(t, i, {"delete"}, "done")
    /\ threads' = [threads EXCEPT ![t] = None]
    /\ turns' = [turns EXCEPT ![t] = <<>>]
    /\ draftIds' = draftIds \ {t}
    /\ settled' = [settled EXCEPT ![t] = {}]
    /\ Leave(t, i)
    /\ UNCHANGED <<minted, said, diskVars, faultVars, flaws>>

\* Mutant: what follows a failed operation waits for it.
GivesUpStuck(t, i) ==
    /\ MayRun(t, i) /\ chains[t][i].stage = "failed"
    /\ Len(chains[t]) = 1
    /\ Flaw(t, {"failed"})
    /\ Leave(t, i)
    /\ UNCHANGED <<memVars, diskVars, faultVars, settled>>

\* Whoever called learns of the failure, or logs it; memory stays as it is.
GivesUp(t, i) ==
    /\ MayRun(t, i) /\ chains[t][i].stage = "failed"
    /\ Flaw(t, {"failed"})
    /\ Leave(t, i)
    /\ UNCHANGED <<memVars, diskVars, faultVars, settled>>

\* The program dies, and starts again: hydrate reads the threads whose meta
\* file is there, and leaves any other file alone.
Restart ==
    /\ crashes < MaxCrashes /\ crashes' = crashes + 1
    /\ \E cut \in SUBSET {t \in Threads : "cut" \in Faults /\ BeingWritten(t, 1)} :
          /\ \E n \in [cut -> 0 .. MaxTurns] :
                /\ \A t \in cut : n[t] <= Len(NewFile(t, 1))
                /\ diskTurns' = [t \in Threads |-> IF t \in cut
                                                   THEN SubSeq(NewFile(t, 1), 1, n[t])
                                                   ELSE diskTurns[t]]
          /\ \E torn \in SUBSET cut : half' = (half \ cut) \cup torn
    /\ lost' = [t \in Threads |-> lost[t] \cup TakenFrom(t)]
    /\ threads' = diskMeta
    /\ turns' = [t \in Threads |-> IF diskMeta[t] = None THEN <<>> ELSE diskTurns'[t]]
    /\ draftIds' = {}
    /\ chains' = [t \in Threads |-> <<>>]
    /\ flaws' = [t \in Threads |->
                    {f \in {"orphan"} : diskMeta[t] = None /\ diskTurns'[t] # <<>>}
                      \cup {f \in {"damaged"} : t \in half'}]
    /\ UNCHANGED <<minted, said, diskMeta, fails, settled>>

-----------------------------------------------------------------------------

FileStep(t, i) ==
    \/ WriteMeta(t, i) \/ RewriteTurns(t, i)
    \/ ReadTurns(t, i) \/ WriteTurns(t, i) \/ ReplaceTurns(t, i)
    \/ DeleteMeta(t, i) \/ DeleteTurns(t, i)

FileFails(t, i) == Fault(t, i) \/ ReadFails(t, i) \/ CutShort(t, i)

Return(t, i) ==
    \/ Materialized(t, i) \/ Appended(t, i) \/ MetaWritten(t, i)
    \/ Rewritten(t, i) \/ Removed(t, i) \/ GivesUp(t, i)

UserStep ==
    \E t \in Threads :
        \/ CreateThread(t) \/ ArchiveThread(t) \/ RestoreThread(t)
        \/ Patch(t) \/ RemoveTurn(t)
        \/ AppendTurn(t)

Works(t) == \E i \in DOMAIN chains[t] : FileStep(t, i) \/ Return(t, i)

Next ==
    \/ UserStep
    \/ \E t \in Threads : \E i \in DOMAIN chains[t] :
          FileStep(t, i) \/ Return(t, i) \/ FileFails(t, i)
    \/ Restart

Spec == Init /\ [][Next]_vars

\* Operations on files return, and promises settle.
FairSpec == Spec /\ \A t \in Threads : WF_vars(Works(t))

-----------------------------------------------------------------------------

\* "call order == disk order == the store's optimistic in-memory order": at
\* every moment the file holds a beginning of what the user sees, so that a
\* restart loses the newest turns only and never leaves a hole, unless an
\* operation has failed, an append has damaged the file, or a turn has fallen into
\* a rewrite or was overtaken.
DiskIsPrefix ==
    \A t \in Threads :
        threads[t] # None /\ flaws[t] \cap {"failed", "wiped", "overtaken", "damaged"} = {}
            => IsPrefix(diskTurns[t], turns[t])

\* "a crash immediately after an await cannot lose the change": a turn whose
\* append has returned is in the file until it is taken out of the transcript,
\* through later appends, rewrites, failures and restarts, except that appends can
\* lose it, as they write in place what they have read: one that cannot read the file
\* takes all of it away, one that is cut short, by a failure or a death, what it
\* had not yet written back, and the part of a line which that leaves spoils the
\* next turn.
SettledIsKept ==
    \A t \in Threads : settled[t] \ lost[t] \subseteq ToSet(diskTurns[t])

\* The store is "the single in-memory mirror of the on-disk files": once
\* nothing is under way both agree, an unused draft has no files, and of a
\* discarded one nothing is left.
MirrorsDisk ==
    \A t \in Threads :
        chains[t] = <<>> /\ flaws[t] \cap {"failed", "crossed", "orphan"} = {} =>
            IF threads[t] = None \/ t \in draftIds
            THEN diskMeta[t] = None /\ diskTurns[t] = <<>>
            ELSE /\ "patched" \notin flaws[t] => diskMeta[t] = threads[t]
                 /\ flaws[t] \cap {"wiped", "overtaken", "damaged"} = {}
                       => diskTurns[t] = turns[t]

\* "a turns file must never precede it": turns reach the disk only under a meta
\* file, without which the next start would skip them.  Not where the thread
\* was discarded while its first turn was on its way, and not where every first
\* turn of a draft has failed to write the meta and the user regenerates: the
\* rewrite does not materialize the thread.
MetaFirst ==
    [][\A t \in Threads :
          diskTurns[t] = <<>> /\ diskTurns'[t] # <<>> /\ "crossed" \notin flaws[t]
              => \/ diskMeta[t] # None
                 \/ "failed" \in flaws[t] /\ Queued(t, "rewrite")]_vars

\* "A failed op doesn't block the next one": the queue of a thread drains.
Drains == \A t \in Threads : chains[t] # <<>> ~> chains[t] = <<>>
=============================================================================
