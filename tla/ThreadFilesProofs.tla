------------------------- MODULE ThreadFilesProofs -------------------------
(***************************************************************************)
(* The promises of ThreadFiles about what reaches the disk, for any number *)
(* of threads, turns, patches, failing operations and restarts: what was   *)
(* appended stays but for what an append loses that cannot read its file or *)
(* write it to the end, turns come under a meta file, the file is a beginning*)
(* of the transcript, and store and files agree when nothing is under way. *)
(*                                                                         *)
(* Each step is a step of one thread (StepsAreOf) and leaves the others as *)
(* they are (OthersStay), and every invariant is a conjunction over threads.*)
(* The invariants build on each other: DamageInv on files that end in a part*)
(* of a line, ShapeInv of the queues, KeptInv on settled turns, HeadedInv on*)
(* the meta file, PrefixInv on the order of turns, MirrorInv on records.   *)
(***************************************************************************)
EXTENDS ThreadFiles, SequenceTheorems, TLAPS

(* The queue of a thread.                                                  *)

Kinds == {"first", "append", "meta", "rewrite", "delete"}
Stages == {"wait", "read", "blind", "half", "done", "failed"}

Operation == [kind : Kinds, meta : Meta \cup {None}, turns : Seq(Nat),
              stage : Stages, held : Seq(Nat)]

\* The types of the store, the files and the queues.
TypeOK ==
    /\ threads \in [Threads -> Meta \cup {None}]
    /\ turns \in [Threads -> Seq(Nat)]
    /\ draftIds \subseteq Threads /\ minted \subseteq Threads
    /\ said \in Nat
    /\ diskMeta \in [Threads -> Meta \cup {None}]
    /\ diskTurns \in [Threads -> Seq(Nat)] /\ half \subseteq Threads
    /\ chains \in [Threads -> Seq(Operation)]
    /\ fails \in Nat /\ crashes \in Nat
    /\ settled \in [Threads -> SUBSET Nat] /\ lost \in [Threads -> SUBSET Nat]
    /\ flaws \in [Threads -> SUBSET Flaws]

\* A place in a queue, and the operation that runs there.
LEMMA Places ==
    ASSUME TypeOK, NEW t \in Threads
    PROVE  /\ chains[t] \in Seq(Operation)
           /\ Len(chains[t]) \in Nat
           /\ DOMAIN chains[t] = 1 .. Len(chains[t])
           /\ \A i \in DOMAIN chains[t] : chains[t][i] \in Operation
  BY LenProperties, ElementOfSeq DEF TypeOK

\* An operation that is taken from the queue: the others move up.
LEMMA TakenOut ==
    ASSUME NEW S, NEW c \in Seq(S), c # <<>>
    PROVE  /\ RemoveAt(c, 1) \in Seq(S)
           /\ Len(RemoveAt(c, 1)) = Len(c) - 1
           /\ DOMAIN RemoveAt(c, 1) = 1 .. Len(c) - 1
           /\ \A i \in 1 .. Len(c) - 1 : RemoveAt(c, 1)[i] = c[i + 1]
<1> DEFINE rest == SubSeq(c, 2, Len(c))
<1>1. Len(c) \in Nat \ {0} /\ DOMAIN c = 1 .. Len(c)
  BY EmptySeq, LenProperties
<1>2. /\ rest \in Seq(S) /\ Len(rest) = Len(c) - 1
      /\ \A i \in 1 .. Len(c) - 1 : rest[i] = c[i + 1]
  <2>1. \A i \in 2 .. Len(c) : c[i] \in S
    BY <1>1, ElementOfSeq
  <2> QED BY <1>1, <2>1, SubSeqProperties
<1>3. RemoveAt(c, 1) = rest
  <2>1. SubSeq(c, 1, 1 - 1) = <<>>
    BY SubSeqEmpty
  <2>2. RemoveAt(c, 1) = <<>> \o rest
    BY <2>1 DEF RemoveAt
  <2> QED BY <2>2, <1>2, ConcatEmptySeq
<1> QED BY <1>2, <1>3, <1>1, LenProperties

\* An operation that comes to the end of the queue.
LEMMA PutLast ==
    ASSUME NEW S, NEW c \in Seq(S), NEW e \in S
    PROVE  /\ Append(c, e) \in Seq(S)
           /\ Len(Append(c, e)) = Len(c) + 1
           /\ DOMAIN Append(c, e) = 1 .. Len(c) + 1
           /\ \A i \in 1 .. Len(c) : Append(c, e)[i] = c[i]
           /\ Append(c, e)[Len(c) + 1] = e
  BY AppendProperties, LenProperties

LEMMA FrontIsShorter ==
    ASSUME NEW S, NEW s \in Seq(S), s # <<>>
    PROVE  /\ Front(s) \in Seq(S)
           /\ Len(Front(s)) = Len(s) - 1
           /\ \A i \in 1 .. Len(s) - 1 : Front(s)[i] = s[i]
           /\ Last(s) \in S
<1>1. Len(s) \in Nat \ {0}
  BY EmptySeq
<1>2. \A i \in 1 .. Len(s) : s[i] \in S
  BY ElementOfSeq
<1> DEFINE n == Len(s) - 1
           f == SubSeq(s, 1, n)
<1>3. /\ f \in Seq(S)
      /\ Len(f) = IF 1 <= n THEN n - 1 + 1 ELSE 0
      /\ \A i \in 1 .. n - 1 + 1 : f[i] = s[1 + i - 1]
  <2>1. n \in Int /\ \A i \in 1 .. n : s[i] \in S
    BY <1>1, <1>2
  <2> QED BY <2>1, SubSeqProperties
<1>4. Front(s) = f
  BY DEF Front
<1>5. n \in Nat
  BY <1>1
<1>6. Last(s) \in S
  BY <1>1, <1>2 DEF Last
<1>9. Len(s) - 1 = n
  OBVIOUS
<1> HIDE DEF f, n
<1>7. Len(f) = n
  <2>1. CASE 1 <= n
    BY <2>1, <1>3, <1>5
  <2>2. CASE n = 0
    BY <2>2, <1>3, <1>5
  <2> QED BY <2>1, <2>2, <1>5
<1>8. ASSUME NEW i \in 1 .. n PROVE f[i] = s[i]
  <2>1. i \in 1 .. n - 1 + 1 /\ 1 + i - 1 = i
    BY <1>1, <1>5
  <2> QED BY <2>1, <1>3
<1> QED BY <1>3, <1>4, <1>6, <1>7, <1>8, <1>9

\* What the front operation becomes when it gets on.
LEMMA Advanced ==
    ASSUME NEW S, NEW c \in Seq(S), c # <<>>, NEW e \in S
    PROVE  /\ [c EXCEPT ![1] = e] \in Seq(S)
           /\ Len([c EXCEPT ![1] = e]) = Len(c)
           /\ DOMAIN [c EXCEPT ![1] = e] = 1 .. Len(c)
           /\ [c EXCEPT ![1] = e][1] = e
           /\ \A i \in 2 .. Len(c) : [c EXCEPT ![1] = e][i] = c[i]
<1>1. Len(c) \in Nat \ {0} /\ 1 \in 1 .. Len(c)
  BY EmptySeq
<1> QED BY <1>1, ExceptSeq, LenProperties

\* Only the operation in front runs.
LEMMA FrontRuns ==
    ASSUME TypeOK, NEW t \in Threads, NEW i, MayRun(t, i)
    PROVE  /\ i = 1 /\ chains[t] # <<>> /\ 1 \in DOMAIN chains[t]
           /\ chains[t][1] \in Operation
<1>1. chains[t] # <<>> /\ i = 1
  BY DEF MayRun
<1>2. Len(chains[t]) \in Nat \ {0}
  BY <1>1, Places, EmptySeq
<1> QED BY <1>1, <1>2, Places

(* The three ways in which a queue changes.                                *)

LEMMA Reached ==
    ASSUME TypeOK, NEW t \in Threads, MayRun(t, 1),
           NEW stage \in Stages, Reaches(t, 1, stage)
    PROVE  /\ chains' \in [Threads -> Seq(Operation)]
           /\ \A u \in Threads \ {t} : chains'[u] = chains[u]
           /\ Len(chains'[t]) = Len(chains[t])
           /\ DOMAIN chains'[t] = DOMAIN chains[t]
           /\ chains'[t][1] = [chains[t][1] EXCEPT !.stage = stage]
           /\ \A i \in DOMAIN chains[t] \ {1} : chains'[t][i] = chains[t][i]
<1> DEFINE op == [chains[t][1] EXCEPT !.stage = stage]
           queue == [chains[t] EXCEPT ![1] = op]
<1>1. chains[t] # <<>> /\ chains[t][1] \in Operation
  BY FrontRuns
<1>2. op \in Operation
  BY <1>1 DEF Operation
<1>3. chains \in [Threads -> Seq(Operation)]
  BY DEF TypeOK
<1>4. chains' = [chains EXCEPT ![t] = queue]
  BY DEF Reaches
<1>5. DOMAIN chains[t] = 1 .. Len(chains[t]) /\ Len(chains[t]) \in Nat
  BY Places
<1> HIDE DEF op
<1>6. /\ queue \in Seq(Operation) /\ Len(queue) = Len(chains[t])
      /\ DOMAIN queue = 1 .. Len(chains[t]) /\ queue[1] = op
      /\ \A i \in 2 .. Len(chains[t]) : queue[i] = chains[t][i]
  BY <1>1, <1>2, <1>3, Advanced
<1> HIDE DEF queue
<1>7. chains'[t] = queue /\ \A u \in Threads \ {t} : chains'[u] = chains[u]
  BY <1>3, <1>4
<1>8. chains' \in [Threads -> Seq(Operation)]
  BY <1>3, <1>4, <1>6
<1>9. \A i \in DOMAIN chains[t] \ {1} : i \in 2 .. Len(chains[t])
  BY <1>5
<1> QED BY <1>5, <1>6, <1>7, <1>8, <1>9 DEF op

LEMMA Left ==
    ASSUME TypeOK, NEW t \in Threads, MayRun(t, 1), Leave(t, 1)
    PROVE  /\ chains' \in [Threads -> Seq(Operation)]
           /\ \A u \in Threads \ {t} : chains'[u] = chains[u]
           /\ chains'[t] = RemoveAt(chains[t], 1)
           /\ Len(chains'[t]) = Len(chains[t]) - 1
           /\ DOMAIN chains'[t] = 1 .. Len(chains[t]) - 1
           /\ \A i \in DOMAIN chains'[t] : /\ chains'[t][i] = chains[t][i + 1]
                                          /\ i + 1 \in DOMAIN chains[t]
<1>1. chains[t] # <<>> /\ chains[t] \in Seq(Operation) /\ Len(chains[t]) \in Nat
  BY FrontRuns, Places
<1>2. chains \in [Threads -> Seq(Operation)]
  BY DEF TypeOK
<1>3. chains' = [chains EXCEPT ![t] = RemoveAt(chains[t], 1)]
  BY DEF Leave
<1>4. /\ RemoveAt(chains[t], 1) \in Seq(Operation)
      /\ Len(RemoveAt(chains[t], 1)) = Len(chains[t]) - 1
      /\ DOMAIN RemoveAt(chains[t], 1) = 1 .. Len(chains[t]) - 1
      /\ \A i \in 1 .. Len(chains[t]) - 1 : RemoveAt(chains[t], 1)[i] = chains[t][i + 1]
  BY <1>1, TakenOut
<1>5. chains'[t] = RemoveAt(chains[t], 1)
  BY <1>2, <1>3
<1>6. \A u \in Threads \ {t} : chains'[u] = chains[u]
  BY <1>2, <1>3
<1>7. chains' \in [Threads -> Seq(Operation)]
  BY <1>2, <1>3, <1>4
<1>8. \A i \in 1 .. Len(chains[t]) - 1 : i + 1 \in DOMAIN chains[t]
  BY <1>1, Places
<1> QED BY <1>4, <1>5, <1>6, <1>7, <1>8

LEMMA Enqueued ==
    ASSUME TypeOK, NEW t \in Threads, NEW op \in Operation, Enqueue(t, op)
    PROVE  /\ chains' \in [Threads -> Seq(Operation)]
           /\ \A u \in Threads \ {t} : chains'[u] = chains[u]
           /\ Len(chains'[t]) = Len(chains[t]) + 1
           /\ DOMAIN chains'[t] = DOMAIN chains[t] \cup {Len(chains[t]) + 1}
           /\ \A i \in DOMAIN chains[t] : chains'[t][i] = chains[t][i]
           /\ chains'[t][Len(chains[t]) + 1] = op
<1>1. chains[t] \in Seq(Operation) /\ Len(chains[t]) \in Nat
      /\ DOMAIN chains[t] = 1 .. Len(chains[t])
  BY Places
<1>2. chains \in [Threads -> Seq(Operation)]
  BY DEF TypeOK
<1> DEFINE queue == Append(chains[t], op)
<1>3. chains' = [chains EXCEPT ![t] = queue]
  BY DEF Enqueue
<1>4. /\ queue \in Seq(Operation) /\ Len(queue) = Len(chains[t]) + 1
      /\ DOMAIN queue = 1 .. Len(chains[t]) + 1
      /\ \A i \in 1 .. Len(chains[t]) : queue[i] = chains[t][i]
      /\ queue[Len(chains[t]) + 1] = op
  BY <1>1, PutLast
<1> HIDE DEF queue
<1>5. chains'[t] = queue /\ \A u \in Threads \ {t} : chains'[u] = chains[u]
  BY <1>2, <1>3
<1>6. chains' \in [Threads -> Seq(Operation)]
  BY <1>2, <1>3, <1>4
<1>7. 1 .. Len(chains[t]) + 1 = (1 .. Len(chains[t])) \cup {Len(chains[t]) + 1}
  BY <1>1
<1> QED BY <1>1, <1>4, <1>5, <1>6, <1>7

-----------------------------------------------------------------------------
(* Types.                                                                  *)

\* The operations the program makes up.
LEMMA OperationsAreTyped ==
    ASSUME NEW kind \in Kinds, NEW meta \in Meta \cup {None},
           NEW list \in Seq(Nat)
    PROVE  Op(kind, meta, list) \in Operation
<1>1. <<>> \in Seq(Nat)
  BY EmptySeq
<1> QED BY <1>1 DEF Op, Operation, Stages

LEMMA SinglesAreTyped == \A n \in Nat : <<n>> \in Seq(Nat)
  OBVIOUS

LEMMA TypeStart == Init => TypeOK
<1>1. <<>> \in Seq(Nat) /\ <<>> \in Seq(Operation)
  BY EmptySeq
<1> QED BY <1>1 DEF Init, TypeOK

\* What an operation of the user leaves.
LEMMA TypeUserStep == TypeOK /\ UserStep => TypeOK'
<1> SUFFICES ASSUME TypeOK, UserStep
             PROVE  TypeOK'
  OBVIOUS
<1> USE DEF Kinds
<1>1. PICK t \in Threads :
        \/ CreateThread(t) \/ ArchiveThread(t) \/ RestoreThread(t)
        \/ Patch(t) \/ RemoveTurn(t) \/ AppendTurn(t)
  BY DEF UserStep
<1>2. <<>> \in Seq(Nat) /\ "patched" \in Flaws /\ "crossed" \in Flaws
      /\ "overtaken" \in Flaws
  BY EmptySeq DEF Flaws
<1>3. /\ threads \in [Threads -> Meta \cup {None}] /\ turns \in [Threads -> Seq(Nat)]
      /\ flaws \in [Threads -> SUBSET Flaws] /\ settled \in [Threads -> SUBSET Nat]
      /\ chains \in [Threads -> Seq(Operation)]
  BY DEF TypeOK
<1>4. CASE CreateThread(t)
  <2>1. [version |-> 0, archived |-> FALSE] \in Meta
    BY ThreadsAssumption DEF Meta
  <2> QED BY <1>4, <2>1 DEF CreateThread, TypeOK, diskVars, faultVars
<1>5. ASSUME threads[t] # None, threads[t].version < MaxVersion,
             NEW archived \in BOOLEAN, UpdateMeta(t, Patched(t, archived)),
             UNCHANGED <<diskVars, faultVars, settled>>
      PROVE  TypeOK'
  <2>1. threads[t] \in Meta
    BY <1>3, <1>5
  <2>2. Patched(t, archived) \in Meta
    BY <1>5, <2>1, ThreadsAssumption DEF Patched, Meta
  <2> DEFINE next == Patched(t, archived)
             op == Op("meta", next, <<>>)
  <2>3. op \in Operation
    BY <2>2, <1>2, OperationsAreTyped
  <2> HIDE DEF next, op
  <2>4. threads' = [threads EXCEPT ![t] = next]
        /\ UNCHANGED <<turns, draftIds, minted, said>>
    BY <1>5 DEF UpdateMeta, next
  <2>5. chains' = chains \/ Enqueue(t, op)
    BY <1>5 DEF UpdateMeta, next, op
  <2>6. chains' \in [Threads -> Seq(Operation)]
    BY <2>3, <2>5, <1>3, Enqueued
  <2>7. flaws' \in [Threads -> SUBSET Flaws]
    <3>1. CASE t \in draftIds
      <4> DEFINE what == IF Materializing(t) THEN {"patched"} ELSE {}
      <4>1. what \subseteq Flaws
        BY <1>2
      <4>2. flaws' = [flaws EXCEPT ![t] = @ \cup what]
        BY <1>5, <3>1 DEF UpdateMeta, Flaw
      <4> HIDE DEF what
      <4> QED BY <4>1, <4>2, <1>3
    <3>2. CASE t \notin draftIds
      <4>1. flaws' = [flaws EXCEPT ![t] = @ \ {"patched"}]
        BY <1>5, <3>2 DEF UpdateMeta
      <4> QED BY <4>1, <1>3
    <3> QED BY <3>1, <3>2
  <2>8. threads' \in [Threads -> Meta \cup {None}]
    BY <1>3, <2>2, <2>4 DEF next
  <2> QED BY <1>5, <2>4, <2>6, <2>7, <2>8 DEF TypeOK, diskVars, faultVars
<1>6. CASE ArchiveThread(t)
  <2>1. threads[t] # None /\ threads[t].version < MaxVersion
    BY <1>6 DEF ArchiveThread, Active
  <2>2. CASE t \notin draftIds
    BY <1>6, <2>1, <2>2, <1>5 DEF ArchiveThread
  <2>3. CASE t \in draftIds
    <3> DEFINE op == Op("delete", None, <<>>)
    <3>1. op \in Operation
      BY <1>2, OperationsAreTyped
    <3> HIDE DEF op
    <3>2. Enqueue(t, op) /\ UNCHANGED memVars
      BY <1>6, <2>3 DEF ArchiveThread, RemoveThread, op
    <3>3. chains' \in [Threads -> Seq(Operation)]
      BY <3>1, <3>2, Enqueued
    <3>4. flaws' \in [Threads -> SUBSET Flaws]
      <4> DEFINE what == IF Materializing(t) THEN {"crossed"} ELSE {}
      <4>1. what \subseteq Flaws
        BY <1>2
      <4>2. flaws' = [flaws EXCEPT ![t] = @ \cup what]
        BY <1>6, <2>3 DEF ArchiveThread, RemoveThread, Flaw
      <4> HIDE DEF what
      <4> QED BY <4>1, <4>2, <1>3
    <3>5. UNCHANGED <<diskVars, faultVars, settled>>
      BY <1>6 DEF ArchiveThread
    <3> QED BY <3>2, <3>3, <3>4, <3>5 DEF TypeOK, diskVars, faultVars, memVars
  <2> QED BY <2>2, <2>3
<1>7. CASE RestoreThread(t)
  BY <1>7, <1>5 DEF RestoreThread
<1>8. CASE Patch(t)
  <2>1. threads[t] \in Meta
    BY <1>3, <1>8 DEF Patch
  <2>2. threads[t].archived \in BOOLEAN
    BY <2>1 DEF Meta
  <2> QED BY <1>8, <2>2, <1>5 DEF Patch
<1>9. CASE RemoveTurn(t)
  <2> DEFINE op == Op("rewrite", None, Front(turns[t]))
  <2>1. Front(turns[t]) \in Seq(Nat)
    BY <1>9, <1>3, FrontIsShorter DEF RemoveTurn
  <2>2. op \in Operation
    BY <2>1, OperationsAreTyped
  <2> HIDE DEF op
  <2>3. Enqueue(t, op)
    BY <1>9 DEF RemoveTurn, op
  <2>4. chains' \in [Threads -> Seq(Operation)]
    BY <2>2, <2>3, Enqueued
  <2>5. settled' \in [Threads -> SUBSET Nat]
    BY <1>9, <1>3 DEF RemoveTurn
  <2> QED BY <1>9, <2>4, <2>5 DEF RemoveTurn, TypeOK, diskVars, faultVars, memVars
<1>10. CASE AppendTurn(t)
  <2>1. said' = said + 1 /\ said' \in Nat
    BY <1>10 DEF AppendTurn, TypeOK
  <2>2. <<said'>> \in Seq(Nat)
    BY <2>1
  <2> DEFINE op == IF t \in draftIds THEN Op("first", threads[t], <<said'>>)
                                     ELSE Op("append", None, <<said'>>)
  <2>3. op \in Operation
    BY <2>2, <1>3, OperationsAreTyped
  <2> HIDE DEF op
  <2>4. Enqueue(t, op)
    BY <1>10 DEF AppendTurn, op
  <2>5. chains' \in [Threads -> Seq(Operation)]
    BY <2>3, <2>4, Enqueued
  <2>6. turns' \in [Threads -> Seq(Nat)]
    BY <1>10, <1>3, <2>1, PutLast DEF AppendTurn
  <2>7. flaws' \in [Threads -> SUBSET Flaws]
    BY <1>10, <1>2, <1>3 DEF AppendTurn
  <2> QED BY <1>10, <2>1, <2>5, <2>6, <2>7 DEF AppendTurn, TypeOK, diskVars, faultVars
<1> QED BY <1>1, <1>4, <1>6, <1>7, <1>8, <1>9, <1>10

LEMMA WhatIsListed == \A s \in Seq(Nat) : ToSet(s) \subseteq Nat
  BY LenProperties, ElementOfSeq DEF ToSet

\* What an append writes, and a part of it.
LEMMA NewFileIsTyped ==
    ASSUME TypeOK, NEW t \in Threads, MayRun(t, 1)
    PROVE  /\ NewFile(t, 1) \in Seq(Nat)
           /\ \A n \in 0 .. Len(NewFile(t, 1)) : SubSeq(NewFile(t, 1), 1, n) \in Seq(Nat)
<1> DEFINE op == chains[t][1]
           s == NewFile(t, 1)
<1>1. op.held \in Seq(Nat) /\ op.turns \in Seq(Nat) /\ <<>> \in Seq(Nat)
  BY FrontRuns, EmptySeq DEF Operation
<1>2. s \in Seq(Nat)
  <2> DEFINE more == IF op.stage = "read" /\ t \in half THEN <<>> ELSE op.turns
  <2>1. more \in Seq(Nat)
    BY <1>1
  <2>2. s = op.held \o more
    BY DEF NewFile
  <2> HIDE DEF more, op, s
  <2> QED BY <1>1, <2>1, <2>2, ConcatProperties
<1> HIDE DEF s
<1>3. ASSUME NEW n \in 0 .. Len(s) PROVE SubSeq(s, 1, n) \in Seq(Nat)
  <2>1. Len(s) \in Nat /\ \A j \in 1 .. Len(s) : s[j] \in Nat
    BY <1>2, LenProperties, ElementOfSeq
  <2>2. n \in Int /\ \A j \in 1 .. n : s[j] \in Nat
    BY <2>1
  <2> QED BY <2>2, SubSeqProperties
<1> QED BY <1>2, <1>3 DEF s

\* A step of the front operation of a queue, and a failing one, leaves memory alone.
LEMMA FrontGoesOn ==
    ASSUME TypeOK, NEW t \in Threads,
           NEW i \in DOMAIN chains[t], FileStep(t, i) \/ FileFails(t, i)
    PROVE  /\ i = 1 /\ MayRun(t, 1) /\ chains[t][1].stage # "done"
           /\ UNCHANGED <<threads, turns, draftIds, minted, said, crashes, settled>>
           /\ flaws'[t] \in {flaws[t], flaws[t] \cup {"damaged"}}
           /\ \A u \in Threads \ {t} : flaws'[u] = flaws[u]
           /\ flaws' \in [Threads -> SUBSET Flaws]
           /\ half' \subseteq half \/ CutShort(t, 1)
           /\ half' \subseteq half \cup {t} /\ half \ {t} \subseteq half'
<1>1. MayRun(t, i)
  BY DEF FileStep, FileFails, Fault, ReadFails, CutShort, BeingWritten, WriteMeta,
         RewriteTurns, ReadTurns, WriteTurns, ReplaceTurns, DeleteMeta, DeleteTurns, At
<1>2. i = 1
  BY <1>1, FrontRuns
<1>3. chains[t][1].stage # "done"
  BY <1>2 DEF FileStep, FileFails, Fault, ReadFails, CutShort, BeingWritten, WriteMeta,
         RewriteTurns, ReadTurns, WriteTurns, ReplaceTurns, DeleteMeta, DeleteTurns, At
<1>4. UNCHANGED <<memVars, crashes, settled>>
  BY DEF FileStep, FileFails, Fault, ReadFails, CutShort, WriteMeta, RewriteTurns, ReadTurns,
         WriteTurns, ReplaceTurns, DeleteMeta, DeleteTurns, faultVars
<1>5. flaws' = flaws \/ Flaw(t, {"damaged"})
  BY DEF FileStep, FileFails, Fault, ReadFails, CutShort, WriteMeta, RewriteTurns, ReadTurns,
         WriteTurns, ReplaceTurns, DeleteMeta, DeleteTurns
<1>6. /\ flaws'[t] \in {flaws[t], flaws[t] \cup {"damaged"}}
      /\ \A u \in Threads \ {t} : flaws'[u] = flaws[u]
      /\ flaws' \in [Threads -> SUBSET Flaws]
  <2>1. flaws \in [Threads -> SUBSET Flaws] /\ "damaged" \in Flaws
    BY DEF TypeOK, Flaws
  <2>2. CASE flaws' = flaws
    BY <2>1, <2>2
  <2>3. CASE Flaw(t, {"damaged"})
    <3>1. flaws' = [flaws EXCEPT ![t] = @ \cup {"damaged"}]
      BY <2>3 DEF Flaw
    <3> QED BY <2>1, <3>1
  <2> QED BY <1>5, <2>2, <2>3
<1>7. /\ half' \in {half, half \ {t}} \/ CutShort(t, i)
      /\ CutShort(t, i) => half' \in {half \cup {t}, half \ {t}}
  BY DEF FileStep, FileFails, Fault, ReadFails, CutShort, WriteMeta, RewriteTurns, ReadTurns,
         WriteTurns, ReplaceTurns, DeleteMeta, DeleteTurns, diskVars
<1> QED BY <1>1, <1>2, <1>3, <1>4, <1>6, <1>7 DEF memVars

\* What such a step leaves.
LEMMA TypeFileStep ==
    ASSUME TypeOK, NEW t \in Threads,
           NEW i \in DOMAIN chains[t], FileStep(t, i) \/ FileFails(t, i)
    PROVE  TypeOK'
<1>1. /\ i = 1 /\ MayRun(t, 1) /\ chains[t][1] \in Operation
      /\ UNCHANGED <<threads, turns, draftIds, minted, said, crashes, settled>>
      /\ flaws' \in [Threads -> SUBSET Flaws] /\ half' \subseteq Threads
  <2>1. half' \subseteq half \cup {t}
    BY FrontGoesOn
  <2> QED BY <2>1, FrontGoesOn, FrontRuns DEF TypeOK
<1> DEFINE op == chains[t][1]
<1>2. op.meta \in Meta \cup {None} /\ op.turns \in Seq(Nat) /\ <<>> \in Seq(Nat)
  BY <1>1, EmptySeq DEF Operation
<1>3. /\ chains \in [Threads -> Seq(Operation)] /\ diskTurns \in [Threads -> Seq(Nat)]
      /\ diskMeta \in [Threads -> Meta \cup {None}] /\ fails \in Nat
      /\ lost \in [Threads -> SUBSET Nat]
  BY DEF TypeOK
<1> HIDE DEF op
<1>4. diskMeta' \in [Threads -> Meta \cup {None}]
  <2>1. \/ diskMeta' = diskMeta
        \/ diskMeta' = [diskMeta EXCEPT ![t] = op.meta]
        \/ diskMeta' = [diskMeta EXCEPT ![t] = None]
    BY <1>1 DEF FileStep, FileFails, Fault, ReadFails, CutShort, WriteMeta, RewriteTurns,
       ReadTurns, WriteTurns, ReplaceTurns, DeleteMeta, DeleteTurns, diskVars, op
  <2> QED BY <1>2, <1>3, <2>1
<1>5. fails' \in Nat
  <2>1. fails' = fails \/ fails' = fails + 1
    BY DEF FileStep, FileFails, Fault, ReadFails, CutShort, WriteMeta, RewriteTurns,
       ReadTurns, WriteTurns, ReplaceTurns, DeleteMeta, DeleteTurns, faultVars
  <2> QED BY <1>3, <2>1
<1>6. chains' \in [Threads -> Seq(Operation)]
  <2>1. CASE ReadTurns(t, i)
    <3> DEFINE read == [op EXCEPT !.stage = "read", !.held = diskTurns[t]]
               queue == [chains[t] EXCEPT ![1] = read]
    <3>1. chains' = [chains EXCEPT ![t] = queue]
      BY <1>1, <1>3, <2>1 DEF ReadTurns, op
    <3>2. read \in Operation
      BY <1>1, <1>3 DEF Operation, Stages, op
    <3> HIDE DEF read
    <3>3. queue \in Seq(Operation)
      BY <3>2, <1>3, <1>1, FrontRuns, Advanced
    <3> HIDE DEF queue
    <3> QED BY <3>1, <3>3, <1>3
  <2>2. ASSUME NEW stage \in Stages, Reaches(t, 1, stage)
        PROVE  chains' \in [Threads -> Seq(Operation)]
    BY <1>1, <2>2, Reached
  <2> QED BY <1>1, <2>1, <2>2
             DEF FileStep, FileFails, Fault, ReadFails, CutShort, WriteMeta, RewriteTurns,
                 WriteTurns, ReplaceTurns, DeleteMeta, DeleteTurns, Stages
<1>7. diskTurns' \in [Threads -> Seq(Nat)]
  <2>1. /\ NewFile(t, 1) \in Seq(Nat)
        /\ \A n \in 0 .. Len(NewFile(t, 1)) : SubSeq(NewFile(t, 1), 1, n) \in Seq(Nat)
    BY <1>1, NewFileIsTyped
  <2>2. diskTurns' = diskTurns
          \/ \E s \in Seq(Nat) : diskTurns' = [diskTurns EXCEPT ![t] = s]
    <3>1. CASE RewriteTurns(t, i)
      BY <1>1, <1>2, <3>1 DEF RewriteTurns, op
    <3>2. CASE WriteTurns(t, i) \/ ReplaceTurns(t, i)
      BY <1>1, <2>1, <3>2 DEF WriteTurns, ReplaceTurns
    <3>3. CASE CutShort(t, i)
      BY <1>1, <2>1, <3>3 DEF CutShort
    <3>4. CASE DeleteTurns(t, i)
      BY <1>2, <3>4 DEF DeleteTurns
    <3> QED BY <3>1, <3>2, <3>3, <3>4
               DEF FileStep, FileFails, Fault, ReadFails, WriteMeta, ReadTurns, DeleteMeta,
                   diskVars
  <2> QED BY <1>3, <2>2
<1>8. lost' \in [Threads -> SUBSET Nat]
  <2>1. ToSet(op.turns) \subseteq Nat /\ TakenFrom(t) \subseteq Nat
    BY <1>2, <1>3, WhatIsListed DEF TakenFrom
  <2>2. \/ lost' = lost
        \/ lost' = [lost EXCEPT ![t] = @ \cup ToSet(op.turns)]
        \/ lost' = [lost EXCEPT ![t] = @ \cup TakenFrom(t)]
    BY <1>1 DEF FileStep, FileFails, Fault, ReadFails, CutShort, WriteMeta, RewriteTurns,
       ReadTurns, WriteTurns, ReplaceTurns, DeleteMeta, DeleteTurns, faultVars, op
  <2> QED BY <1>3, <2>1, <2>2
<1> QED BY <1>1, <1>3, <1>4, <1>5, <1>6, <1>7, <1>8 DEF TypeOK

\* What the return of the front operation leaves.
LEMMA TypeReturn ==
    ASSUME TypeOK, NEW t \in Threads,
           NEW i \in DOMAIN chains[t], Return(t, i)
    PROVE  TypeOK'
<1>1. MayRun(t, i)
  BY DEF Return, Materialized, Appended, MetaWritten, Rewritten, Removed, GivesUp, At
<1>2. i = 1 /\ chains[t][1] \in Operation /\ chains[t] # <<>>
  BY <1>1, FrontRuns
<1> DEFINE op == chains[t][1]
<1>3. op.turns \in Seq(Nat) /\ <<>> \in Seq(Nat)
  BY <1>2, EmptySeq DEF Operation
<1>4. /\ chains \in [Threads -> Seq(Operation)] /\ turns \in [Threads -> Seq(Nat)]
      /\ settled \in [Threads -> SUBSET Nat] /\ flaws \in [Threads -> SUBSET Flaws]
      /\ threads \in [Threads -> Meta \cup {None}]
  BY DEF TypeOK
<1>5. ASSUME Leave(t, 1) PROVE chains' \in [Threads -> Seq(Operation)]
  BY <1>1, <1>2, <1>5, Left
<1> HIDE DEF op
<1>6. CASE Materialized(t, i)
  <2> DEFINE next == Op("append", None, op.turns)
             queue == Append(RemoveAt(chains[t], 1), next)
  <2>1. next \in Operation
    BY <1>3, OperationsAreTyped DEF Kinds
  <2>2. chains' = [chains EXCEPT ![t] = queue] /\ draftIds' = draftIds \ {t}
        /\ UNCHANGED <<threads, turns, minted, said, diskVars, faultVars, settled, flaws>>
    BY <1>2, <1>4, <1>6 DEF Materialized, op
  <2> HIDE DEF next
  <2>3. queue \in Seq(Operation)
    BY <1>2, <1>4, <2>1, TakenOut, PutLast
  <2> HIDE DEF queue
  <2>4. chains' \in [Threads -> Seq(Operation)]
    BY <1>4, <2>2, <2>3
  <2> QED BY <2>2, <2>4 DEF TypeOK, diskVars, faultVars
<1>7. CASE Appended(t, i)
  <2>2. ToSet(turns[t]) \subseteq Nat
    BY <1>4, WhatIsListed
  <2>3. PICK more \in SUBSET ToSet(turns[t]) :
          settled' = [settled EXCEPT ![t] = @ \cup more]
    <3> DEFINE more == {x \in ToSet(op.turns) \cap ToSet(turns[t]) :
                          \A j \in DOMAIN chains[t] :
                             chains[t][j].kind = "rewrite"
                                 => Contains(chains[t][j].turns, x)}
    <3>1. settled' = [settled EXCEPT ![t] = @ \cup more]
      BY <1>2, <1>7 DEF Appended, op
    <3> QED BY <3>1
  <2>4. settled' \in [Threads -> SUBSET Nat]
    BY <2>2, <2>3, <1>4
  <2>5. Leave(t, 1) /\ UNCHANGED <<memVars, diskVars, faultVars, flaws>>
    BY <1>2, <1>7 DEF Appended
  <2> QED BY <2>4, <2>5, <1>5 DEF TypeOK, memVars, diskVars, faultVars
<1>8. CASE MetaWritten(t, i)
  BY <1>2, <1>8, <1>5 DEF MetaWritten, TypeOK, memVars, diskVars, faultVars
<1>9. CASE Rewritten(t, i)
  <2>1. /\ turns' = [turns EXCEPT ![t] = op.turns]
        /\ settled' = [settled EXCEPT ![t] = @ \cap ToSet(turns'[t])]
        /\ Leave(t, 1) /\ UNCHANGED <<threads, draftIds, minted, said, diskVars, faultVars>>
    BY <1>2, <1>9 DEF Rewritten, op
  <2>2. flaws' \in [Threads -> SUBSET Flaws]
    <3> DEFINE what == IF Len(turns[t]) > Len(op.turns) + 1 THEN {"wiped"} ELSE {}
    <3>1. what \subseteq Flaws
      BY DEF Flaws
    <3>2. flaws' = [flaws EXCEPT ![t] = @ \cup what]
      BY <1>2, <1>9 DEF Rewritten, Flaw, op
    <3> HIDE DEF what
    <3> QED BY <3>1, <3>2, <1>4
  <2>3. settled' \in [Threads -> SUBSET Nat]
    BY <2>1, <1>4
  <2>4. turns' \in [Threads -> Seq(Nat)]
    BY <2>1, <1>3, <1>4
  <2> QED BY <2>1, <2>2, <2>3, <2>4, <1>5 DEF TypeOK, diskVars, faultVars
<1>10. CASE Removed(t, i)
  <2>1. /\ threads' = [threads EXCEPT ![t] = None]
        /\ turns' = [turns EXCEPT ![t] = <<>>] /\ draftIds' = draftIds \ {t}
        /\ settled' = [settled EXCEPT ![t] = {}]
        /\ Leave(t, 1) /\ UNCHANGED <<minted, said, diskVars, faultVars, flaws>>
    BY <1>2, <1>10 DEF Removed
  <2> QED BY <2>1, <1>3, <1>4, <1>5 DEF TypeOK, diskVars, faultVars
<1>11. CASE GivesUp(t, i)
  <2>1. /\ flaws' = [flaws EXCEPT ![t] = @ \cup {"failed"}]
        /\ Leave(t, 1) /\ UNCHANGED <<memVars, diskVars, faultVars, settled>>
    BY <1>2, <1>11 DEF GivesUp, Flaw
  <2> QED BY <2>1, <1>4, <1>5 DEF TypeOK, Flaws, memVars, diskVars, faultVars
<1> QED BY <1>6, <1>7, <1>8, <1>9, <1>10, <1>11 DEF Return

\* Of the files that were being written a part is left.
LEMMA CutByDeath ==
    ASSUME TypeOK, Restart
    PROVE  /\ diskTurns' \in [Threads -> Seq(Nat)] /\ half' \subseteq Threads
           /\ \A t \in Threads : diskTurns'[t] = diskTurns[t] \/ BeingWritten(t, 1)
           /\ \A t \in half' \ half : BeingWritten(t, 1)
<1>1. PICK cut \in SUBSET {t \in Threads : "cut" \in Faults /\ BeingWritten(t, 1)} :
        /\ \E n \in [cut -> 0 .. MaxTurns] :
              /\ \A t \in cut : n[t] <= Len(NewFile(t, 1))
              /\ diskTurns' = [t \in Threads |-> IF t \in cut
                                                 THEN SubSeq(NewFile(t, 1), 1, n[t])
                                                 ELSE diskTurns[t]]
        /\ \E torn \in SUBSET cut : half' = (half \ cut) \cup torn
  BY DEF Restart
<1>2. PICK n \in [cut -> 0 .. MaxTurns] :
        /\ \A t \in cut : n[t] <= Len(NewFile(t, 1))
        /\ diskTurns' = [t \in Threads |-> IF t \in cut
                                           THEN SubSeq(NewFile(t, 1), 1, n[t])
                                           ELSE diskTurns[t]]
  BY <1>1
<1>3. ASSUME NEW t \in cut PROVE SubSeq(NewFile(t, 1), 1, n[t]) \in Seq(Nat)
  <2>1. MayRun(t, 1)
    BY <1>1, <1>3 DEF BeingWritten, At
  <2>2. t \in Threads
    BY <1>1, <1>3
  <2>3. Len(NewFile(t, 1)) \in Nat
    BY <2>1, <2>2, NewFileIsTyped, LenProperties
  <2>4. n[t] \in 0 .. Len(NewFile(t, 1))
    BY <1>2, <1>3, <2>3, ThreadsAssumption
  <2> QED BY <2>1, <2>2, <2>4, NewFileIsTyped
<1>4. diskTurns \in [Threads -> Seq(Nat)] /\ half \subseteq Threads
  BY DEF TypeOK
<1> QED BY <1>1, <1>2, <1>3, <1>4

LEMMA TypeRestart == TypeOK /\ Restart => TypeOK'
<1> SUFFICES ASSUME TypeOK, Restart PROVE TypeOK'
  OBVIOUS
<1>1. <<>> \in Seq(Nat) /\ <<>> \in Seq(Operation)
  BY EmptySeq
<1>2. diskTurns' \in [Threads -> Seq(Nat)] /\ half' \subseteq Threads
  BY CutByDeath
<1>3. turns' \in [Threads -> Seq(Nat)]
  BY <1>1, <1>2 DEF Restart
<1>4. flaws' \in [Threads -> SUBSET Flaws]
  BY DEF Restart, Flaws
<1>5. lost' \in [Threads -> SUBSET Nat]
  <2>1. \A t \in Threads : lost[t] \subseteq Nat /\ TakenFrom(t) \subseteq Nat
    BY WhatIsListed DEF TypeOK, TakenFrom
  <2> QED BY <2>1 DEF Restart
<1>6. /\ threads' = diskMeta /\ draftIds' = {} /\ crashes' = crashes + 1
      /\ chains' = [t \in Threads |-> <<>>]
      /\ UNCHANGED <<minted, said, diskMeta, fails, settled>>
  BY DEF Restart
<1> QED BY <1>1, <1>2, <1>3, <1>4, <1>5, <1>6 DEF TypeOK

LEMMA TypeNext == TypeOK /\ [Next]_vars => TypeOK'
<1> SUFFICES ASSUME TypeOK, [Next]_vars PROVE TypeOK'
  OBVIOUS
<1>1. CASE UserStep
  BY <1>1, TypeUserStep
<1>2. CASE \E t \in Threads : \E i \in DOMAIN chains[t] :
             FileStep(t, i) \/ Return(t, i) \/ FileFails(t, i)
  BY <1>2, TypeFileStep, TypeReturn
<1>3. CASE Restart
  BY <1>3, TypeRestart
<1>4. CASE UNCHANGED vars
  BY <1>4 DEF vars, TypeOK
<1> QED BY <1>1, <1>2, <1>3, <1>4 DEF Next

\* The transcripts stay typed.
THEOREM TypeCorrect == Spec => []TypeOK
<1> QED BY TypeStart, TypeNext, PTL DEF Spec

-----------------------------------------------------------------------------
(* Every step is about one thread, unless the program dies.                *)

StepOf(t) ==
    \/ CreateThread(t) \/ ArchiveThread(t) \/ RestoreThread(t)
    \/ Patch(t) \/ RemoveTurn(t) \/ AppendTurn(t)
    \/ \E i \in DOMAIN chains[t] : FileStep(t, i) \/ Return(t, i) \/ FileFails(t, i)

Unmoved(u) ==
    /\ threads'[u] = threads[u] /\ turns'[u] = turns[u]
    /\ diskMeta'[u] = diskMeta[u] /\ diskTurns'[u] = diskTurns[u]
    /\ chains'[u] = chains[u] /\ settled'[u] = settled[u] /\ flaws'[u] = flaws[u]
    /\ lost'[u] = lost[u] /\ (u \in half' <=> u \in half)
    /\ u \in draftIds' <=> u \in draftIds
    /\ u \in minted' <=> u \in minted

LEMMA StepsAreOf ==
    ASSUME TypeOK, [Next]_vars
    PROVE  (\E t \in Threads : StepOf(t)) \/ Restart \/ UNCHANGED vars
  BY DEF Next, UserStep, StepOf

LEMMA OthersStay ==
    ASSUME TypeOK, NEW t \in Threads, StepOf(t), NEW u \in Threads \ {t}
    PROVE  Unmoved(u)
<1>1. /\ threads \in [Threads -> Meta \cup {None}] /\ turns \in [Threads -> Seq(Nat)]
      /\ diskMeta \in [Threads -> Meta \cup {None}]
      /\ diskTurns \in [Threads -> Seq(Nat)] /\ chains \in [Threads -> Seq(Operation)]
      /\ settled \in [Threads -> SUBSET Nat] /\ flaws \in [Threads -> SUBSET Flaws]
      /\ lost \in [Threads -> SUBSET Nat]
  BY DEF TypeOK
<1> USE <1>1 DEF Unmoved, memVars, diskVars, faultVars, Enqueue, Reaches, Leave, Flaw
<1>2. CASE CreateThread(t)
  BY <1>2 DEF CreateThread
<1>3. CASE ArchiveThread(t)
  BY <1>3 DEF ArchiveThread, RemoveThread, UpdateMeta
<1>4. CASE RestoreThread(t)
  BY <1>4 DEF RestoreThread, UpdateMeta
<1>5. CASE Patch(t)
  BY <1>5 DEF Patch, UpdateMeta
<1>6. CASE RemoveTurn(t)
  BY <1>6 DEF RemoveTurn
<1>7. CASE AppendTurn(t)
  BY <1>7 DEF AppendTurn
<1>8. ASSUME NEW i \in DOMAIN chains[t], FileStep(t, i) \/ FileFails(t, i)
      PROVE  Unmoved(u)
  <2>1. CASE FileStep(t, i)
    BY <2>1 DEF FileStep, WriteMeta, RewriteTurns, ReadTurns, WriteTurns, ReplaceTurns,
                DeleteMeta, DeleteTurns
  <2>2. CASE FileFails(t, i)
    BY <2>2 DEF FileFails, Fault, ReadFails, CutShort
  <2> QED BY <1>8, <2>1, <2>2
<1>9. ASSUME NEW i \in DOMAIN chains[t], Return(t, i)
      PROVE  Unmoved(u)
  BY <1>9 DEF Return, Materialized, Appended, MetaWritten, Rewritten, Removed, GivesUp
<1> QED BY <1>2, <1>3, <1>4, <1>5, <1>6, <1>7, <1>8, <1>9 DEF StepOf

\* An operation that reads the file gets on as others do.
LEMMA ReadReached ==
    ASSUME TypeOK, NEW t \in Threads, ReadTurns(t, 1)
    PROVE  /\ \A u \in Threads \ {t} : chains'[u] = chains[u]
           /\ Len(chains'[t]) = Len(chains[t])
           /\ DOMAIN chains'[t] = DOMAIN chains[t]
           /\ chains'[t][1] = [chains[t][1] EXCEPT !.stage = "read", !.held = diskTurns[t]]
           /\ \A i \in DOMAIN chains[t] \ {1} : chains'[t][i] = chains[t][i]
<1> DEFINE op == [chains[t][1] EXCEPT !.stage = "read", !.held = diskTurns[t]]
           queue == [chains[t] EXCEPT ![1] = op]
<1>1. chains[t] # <<>> /\ chains[t][1] \in Operation
  BY FrontRuns DEF ReadTurns, At
<1>2. op \in Operation
  BY <1>1 DEF Operation, Stages, TypeOK
<1>3. chains \in [Threads -> Seq(Operation)]
  BY DEF TypeOK
<1>4. chains' = [chains EXCEPT ![t] = queue]
  BY <1>1, <1>3 DEF ReadTurns
<1>5. DOMAIN chains[t] = 1 .. Len(chains[t]) /\ Len(chains[t]) \in Nat
  BY Places
<1> HIDE DEF op
<1>6. /\ Len(queue) = Len(chains[t])
      /\ DOMAIN queue = 1 .. Len(chains[t]) /\ queue[1] = op
      /\ \A i \in 2 .. Len(chains[t]) : queue[i] = chains[t][i]
  BY <1>1, <1>2, <1>3, Advanced
<1> HIDE DEF queue
<1>7. chains'[t] = queue /\ \A u \in Threads \ {t} : chains'[u] = chains[u]
  BY <1>3, <1>4
<1>8. \A i \in DOMAIN chains[t] \ {1} : i \in 2 .. Len(chains[t])
  BY <1>5
<1> QED BY <1>5, <1>6, <1>7, <1>8 DEF op

\* A first turn leaves the front and comes to the end as an append.
LEMMA MaterializedMoves ==
    ASSUME TypeOK, NEW t \in Threads, Materialized(t, 1)
    PROVE  /\ Len(chains[t]) \in Nat \ {0}
           /\ DOMAIN chains'[t] = DOMAIN chains[t]
           /\ chains'[t][Len(chains[t])] = Op("append", None, chains[t][1].turns)
           /\ \A i \in DOMAIN chains[t] \ {Len(chains[t])} :
                 chains'[t][i] = chains[t][i + 1] /\ i + 1 \in DOMAIN chains[t]
<1> DEFINE op == Op("append", None, chains[t][1].turns)
           rest == RemoveAt(chains[t], 1)
           queue == Append(rest, op)
<1>1. /\ chains[t] # <<>> /\ chains[t][1] \in Operation
      /\ chains[t] \in Seq(Operation) /\ Len(chains[t]) \in Nat
      /\ DOMAIN chains[t] = 1 .. Len(chains[t])
  BY FrontRuns, Places DEF Materialized, At
<1>2. Len(chains[t]) # 0
  BY <1>1, EmptySeq
<1>3. op \in Operation
  BY <1>1, OperationsAreTyped DEF Operation, Kinds
<1>4. chains \in [Threads -> Seq(Operation)]
  BY DEF TypeOK
<1>5. chains'[t] = queue
  BY <1>1, <1>4 DEF Materialized
<1> HIDE DEF op
<1>6. /\ rest \in Seq(Operation) /\ Len(rest) = Len(chains[t]) - 1
      /\ \A i \in 1 .. Len(chains[t]) - 1 : rest[i] = chains[t][i + 1]
  BY <1>1, TakenOut
<1> HIDE DEF rest
<1>7. /\ DOMAIN queue = 1 .. Len(rest) + 1 /\ queue[Len(rest) + 1] = op
      /\ \A i \in 1 .. Len(rest) : queue[i] = rest[i]
  BY <1>3, <1>6, PutLast
<1> HIDE DEF queue
<1>8. Len(rest) + 1 = Len(chains[t])
  BY <1>1, <1>6
<1>9. \A i \in 1 .. Len(chains[t]) : i # Len(chains[t]) =>
         i \in 1 .. Len(chains[t]) - 1 /\ i + 1 \in 1 .. Len(chains[t])
  BY <1>1
<1> QED BY <1>1, <1>2, <1>5, <1>6, <1>7, <1>8, <1>9 DEF op

-----------------------------------------------------------------------------
(* What has gone wrong with an append is written down.                     *)

Blind(t) == \E i \in DOMAIN chains[t] : chains[t][i].stage = "blind"

DamageIsKnown(t) == t \in half \/ Blind(t) => "damaged" \in flaws[t]

DamageInv == TypeOK /\ \A t \in Threads : DamageIsKnown(t)

LEMMA DamageUserStep ==
    ASSUME DamageInv, NEW t \in Threads,
           \/ CreateThread(t) \/ ArchiveThread(t) \/ RestoreThread(t)
           \/ Patch(t) \/ RemoveTurn(t) \/ AppendTurn(t)
    PROVE  DamageIsKnown(t)'
<1>1. TypeOK /\ DamageIsKnown(t) /\ flaws \in [Threads -> SUBSET Flaws]
  BY DEF DamageInv, TypeOK
<1>2. half' = half
  BY DEF CreateThread, ArchiveThread, RestoreThread, Patch, RemoveTurn, AppendTurn, diskVars
<1>3. "damaged" \in flaws[t] => "damaged" \in flaws'[t]
  BY <1>1 DEF CreateThread, ArchiveThread, RestoreThread, Patch, RemoveTurn, AppendTurn,
              RemoveThread, UpdateMeta, Flaw
\* What comes to the queue waits.
<1>4. chains' = chains \/ \E kind, meta, list : Enqueue(t, Op(kind, meta, list))
  BY DEF CreateThread, ArchiveThread, RestoreThread, Patch, RemoveTurn, AppendTurn,
         RemoveThread, UpdateMeta
<1>5. ASSUME NEW kind, NEW meta, NEW list, Enqueue(t, Op(kind, meta, list))
      PROVE  Blind(t)' => Blind(t)
  <2> DEFINE op == Op(kind, meta, list)
             queue == Append(chains[t], op)
  <2>1. chains[t] \in Seq(Operation) /\ Len(chains[t]) \in Nat
        /\ DOMAIN chains[t] = 1 .. Len(chains[t])
    BY <1>1, Places
  <2>2. chains'[t] = queue
    BY <1>1, <1>5 DEF Enqueue, TypeOK
  <2>3. op.stage = "wait"
    BY DEF Op
  <2>4. chains[t] \in Seq(Operation \cup {op}) /\ op \in Operation \cup {op}
    BY <2>1
  <2> HIDE DEF op
  <2>5. /\ DOMAIN queue = 1 .. Len(chains[t]) + 1 /\ queue[Len(chains[t]) + 1] = op
        /\ \A i \in 1 .. Len(chains[t]) : queue[i] = chains[t][i]
    BY <2>4, PutLast
  <2> HIDE DEF queue
  <2> QED BY <2>1, <2>2, <2>3, <2>5 DEF Blind
<1> QED BY <1>1, <1>2, <1>3, <1>4, <1>5 DEF DamageIsKnown, Blind

LEMMA DamageFileStep ==
    ASSUME DamageInv, NEW t \in Threads,
           NEW i \in DOMAIN chains[t], FileStep(t, i) \/ FileFails(t, i)
    PROVE  DamageIsKnown(t)'
<1>1. TypeOK /\ DamageIsKnown(t) /\ flaws \in [Threads -> SUBSET Flaws]
  BY DEF DamageInv, TypeOK
<1>2. i = 1 /\ MayRun(t, 1)
  BY <1>1, FrontGoesOn
<1>3. chains[t][1] \in Operation /\ 1 \in DOMAIN chains[t] /\ chains[t] # <<>>
  BY <1>1, <1>2, FrontRuns
<1>4. CASE ReadFails(t, i) \/ CutShort(t, i)
  BY <1>1, <1>4 DEF DamageIsKnown, ReadFails, CutShort, Flaw
<1>5. ASSUME NEW stage \in Stages, stage # "blind", Reaches(t, 1, stage),
             half' \subseteq half, flaws' = flaws
      PROVE  DamageIsKnown(t)'
  <2>1. /\ DOMAIN chains'[t] = DOMAIN chains[t]
        /\ chains'[t][1] = [chains[t][1] EXCEPT !.stage = stage]
        /\ \A j \in DOMAIN chains[t] \ {1} : chains'[t][j] = chains[t][j]
    BY <1>1, <1>2, <1>5, Reached
  <2>2. chains'[t][1].stage = stage
    BY <1>3, <2>1 DEF Operation
  <2>3. Blind(t)' => Blind(t)
    BY <1>5, <2>1, <2>2 DEF Blind
  <2> QED BY <1>1, <1>5, <2>3 DEF DamageIsKnown
<1>6. CASE ReadTurns(t, i)
  <2>1. /\ DOMAIN chains'[t] = DOMAIN chains[t]
        /\ chains'[t][1] = [chains[t][1] EXCEPT !.stage = "read", !.held = diskTurns[t]]
        /\ \A j \in DOMAIN chains[t] \ {1} : chains'[t][j] = chains[t][j]
    BY <1>1, <1>2, <1>6, ReadReached
  <2>2. chains'[t][1].stage = "read"
    BY <1>3, <2>1 DEF Operation
  <2>3. Blind(t)' => Blind(t)
    BY <2>1, <2>2 DEF Blind
  <2> QED BY <1>1, <1>6, <2>3 DEF DamageIsKnown, ReadTurns, diskVars
<1>7. CASE Fault(t, i) \/ WriteMeta(t, i) \/ RewriteTurns(t, i) \/ WriteTurns(t, i)
             \/ ReplaceTurns(t, i) \/ DeleteMeta(t, i) \/ DeleteTurns(t, i)
  <2>1. half' \subseteq half /\ flaws' = flaws
    BY <1>7 DEF Fault, WriteMeta, RewriteTurns, WriteTurns, ReplaceTurns, DeleteMeta,
                DeleteTurns, diskVars
  <2>2. PICK stage \in Stages : stage # "blind" /\ Reaches(t, 1, stage)
    BY <1>2, <1>7 DEF Fault, WriteMeta, RewriteTurns, WriteTurns, ReplaceTurns, DeleteMeta,
                      DeleteTurns, Stages
  <2> QED BY <1>5, <2>1, <2>2
<1> QED BY <1>4, <1>6, <1>7 DEF FileStep, FileFails

LEMMA DamageReturn ==
    ASSUME DamageInv, NEW t \in Threads,
           NEW i \in DOMAIN chains[t], Return(t, i)
    PROVE  DamageIsKnown(t)'
<1>1. TypeOK /\ DamageIsKnown(t) /\ flaws \in [Threads -> SUBSET Flaws]
  BY DEF DamageInv, TypeOK
<1>2. MayRun(t, i) /\ half' = half
  BY DEF Return, Materialized, Appended, MetaWritten, Rewritten, Removed, GivesUp, At,
         diskVars
<1>3. i = 1 /\ MayRun(t, 1)
  BY <1>1, <1>2, FrontRuns
<1>4. "damaged" \in flaws[t] => "damaged" \in flaws'[t]
  BY <1>1 DEF Return, Materialized, Appended, MetaWritten, Rewritten, Removed, GivesUp, Flaw
<1>5. Blind(t)' => Blind(t)
  <2>1. CASE Leave(t, 1)
    BY <1>1, <1>3, <2>1, Left DEF Blind
  <2>2. CASE Materialized(t, 1)
    <3>1. /\ DOMAIN chains'[t] = DOMAIN chains[t]
          /\ chains'[t][Len(chains[t])] = Op("append", None, chains[t][1].turns)
          /\ \A j \in DOMAIN chains[t] \ {Len(chains[t])} :
                 chains'[t][j] = chains[t][j + 1] /\ j + 1 \in DOMAIN chains[t]
      BY <1>1, <2>2, MaterializedMoves
    <3>2. chains'[t][Len(chains[t])].stage = "wait"
      BY <3>1 DEF Op
    <3> QED BY <3>1, <3>2 DEF Blind
  <2> QED BY <1>3, <2>1, <2>2
             DEF Return, Appended, MetaWritten, Rewritten, Removed, GivesUp
<1> QED BY <1>1, <1>2, <1>4, <1>5 DEF DamageIsKnown

LEMMA DamageStart == Init => DamageInv
<1> SUFFICES ASSUME Init PROVE DamageInv
  OBVIOUS
<1>1. ASSUME NEW t \in Threads PROVE DamageIsKnown(t)
  BY <1>1, EmptySeq DEF Init, DamageIsKnown, Blind
<1> QED BY <1>1, TypeStart DEF DamageInv

LEMMA DamageNext == DamageInv /\ [Next]_vars => DamageInv'
<1> SUFFICES ASSUME DamageInv, [Next]_vars PROVE DamageInv'
  OBVIOUS
<1>1. TypeOK /\ TypeOK'
  BY TypeNext DEF DamageInv
<1>2. ASSUME NEW u \in Threads, Unmoved(u) PROVE DamageIsKnown(u)'
  BY <1>2 DEF DamageInv, Unmoved, DamageIsKnown, Blind
<1>3. ASSUME NEW t \in Threads, StepOf(t) PROVE \A u \in Threads : DamageIsKnown(u)'
  <2> SUFFICES ASSUME NEW u \in Threads PROVE DamageIsKnown(u)'
    OBVIOUS
  <2>1. CASE u = t
    BY <1>3, <2>1, DamageUserStep, DamageFileStep, DamageReturn DEF StepOf
  <2>2. CASE u # t
    BY <1>1, <1>2, <1>3, <2>2, OthersStay
  <2> QED BY <2>1, <2>2
<1>4. ASSUME Restart PROVE \A u \in Threads : DamageIsKnown(u)'
  BY <1>4, EmptySeq DEF Restart, DamageIsKnown, Blind
<1>5. ASSUME UNCHANGED vars PROVE \A u \in Threads : DamageIsKnown(u)'
  BY <1>5 DEF vars, DamageInv, DamageIsKnown, Blind
<1> QED BY <1>1, <1>3, <1>4, <1>5, StepsAreOf DEF DamageInv

-----------------------------------------------------------------------------
(* The shape of a queue.                                                   *)

FrontOnlyRuns(t) == \A i \in DOMAIN chains[t] : chains[t][i].stage # "wait" => i = 1

NewIsBlank(t) ==
    t \notin minted =>
        /\ threads[t] = None /\ turns[t] = <<>> /\ t \notin draftIds
        /\ diskMeta[t] = None /\ diskTurns[t] = <<>>
        /\ chains[t] = <<>> /\ settled[t] = {}

\* A draft has no append under way: its turns come behind its meta file.
DraftWaits(t) == t \in draftIds => \A i \in DOMAIN chains[t] : chains[t][i].kind # "append"

\* Only drafts are deleted: no append runs ahead of it.
DeletesAhead(t) ==
    \A i, j \in DOMAIN chains[t] :
        chains[t][i].kind = "delete" /\ chains[t][j].kind = "append" => i < j

\* The meta files that are written hold a record.
MetaIsRecord(t) ==
    \A i \in DOMAIN chains[t] :
        chains[t][i].kind \in {"first", "meta"} => chains[t][i].meta \in Meta

Shape(t) == /\ FrontOnlyRuns(t) /\ NewIsBlank(t) /\ DraftWaits(t)
            /\ DeletesAhead(t) /\ MetaIsRecord(t)

ShapeInv == TypeOK /\ DamageInv /\ \A t \in Threads : Shape(t)

LEMMA ShapeStep ==
    ASSUME ShapeInv, NEW t \in Threads, StepOf(t)
    PROVE  Shape(t)'
<1>1. TypeOK /\ Shape(t)
  BY DEF ShapeInv
<1>2. /\ FrontOnlyRuns(t) /\ NewIsBlank(t) /\ DraftWaits(t)
      /\ DeletesAhead(t) /\ MetaIsRecord(t)
  BY <1>1 DEF Shape
<1>3. /\ threads \in [Threads -> Meta \cup {None}] /\ turns \in [Threads -> Seq(Nat)]
      /\ diskMeta \in [Threads -> Meta \cup {None}]
      /\ chains \in [Threads -> Seq(Operation)]
      /\ settled \in [Threads -> SUBSET Nat]
  BY <1>1 DEF TypeOK
<1>4. /\ Len(chains[t]) \in Nat /\ DOMAIN chains[t] = 1 .. Len(chains[t])
      /\ \A i \in DOMAIN chains[t] : chains[t][i] \in Operation
  BY <1>1, Places
<1>5. <<>> \in Seq(Nat)
  BY EmptySeq
\* An operation that comes to the end of the queue.
<1>6. ASSUME NEW kind \in Kinds, NEW meta \in Meta \cup {None}, NEW list \in Seq(Nat),
             Enqueue(t, Op(kind, meta, list)),
             kind = "append" => t \notin draftIds,
             kind = "delete" => t \in draftIds,
             kind \in {"first", "meta"} => meta \in Meta,
             threads[t] # None, UNCHANGED <<draftIds, minted, diskMeta>>
      PROVE  Shape(t)'
  <2> DEFINE op == Op(kind, meta, list)
  <2>1. op \in Operation
    BY OperationsAreTyped
  <2>2. op.stage = "wait" /\ op.kind = kind /\ op.meta = meta
    BY DEF Op
  <2> HIDE DEF op
  <2>3. /\ DOMAIN chains'[t] = DOMAIN chains[t] \cup {Len(chains[t]) + 1}
        /\ \A i \in DOMAIN chains[t] : chains'[t][i] = chains[t][i]
        /\ chains'[t][Len(chains[t]) + 1] = op
    <3>1. Enqueue(t, op)
      BY <1>6 DEF op
    <3> QED BY <3>1, <2>1, <1>1, Enqueued
  <2>4. FrontOnlyRuns(t)'
    BY <1>2, <2>2, <2>3 DEF FrontOnlyRuns
  <2>5. t \in minted
    BY <1>2, <1>6 DEF NewIsBlank
  <2>6. NewIsBlank(t)'
    BY <2>5, <1>6 DEF NewIsBlank
  <2>7. DraftWaits(t)'
    BY <1>2, <1>6, <2>2, <2>3 DEF DraftWaits
  <2>8. DeletesAhead(t)'
    BY <1>2, <1>4, <1>6, <2>2, <2>3 DEF DeletesAhead, DraftWaits
  <2>9. MetaIsRecord(t)'
    BY <1>2, <1>6, <2>2, <2>3 DEF MetaIsRecord
  <2> QED BY <2>4, <2>6, <2>7, <2>8, <2>9 DEF Shape
\* The queue stays.
<1>7. ASSUME chains'[t] = chains[t], threads[t] # None,
             UNCHANGED <<draftIds, minted>>
      PROVE  Shape(t)'
  BY <1>2, <1>7 DEF Shape, FrontOnlyRuns, NewIsBlank, DraftWaits, DeletesAhead, MetaIsRecord
<1>8. ASSUME NEW archived \in BOOLEAN, threads[t] # None, threads[t].version < MaxVersion,
             UpdateMeta(t, Patched(t, archived)), UNCHANGED diskVars
      PROVE  Shape(t)'
  <2>1. CASE t \in draftIds
    BY <1>7, <1>8, <2>1 DEF UpdateMeta
  <2>2. CASE t \notin draftIds
    <3>1. threads[t] \in Meta
      BY <1>3, <1>8
    <3>2. Patched(t, archived) \in Meta
      BY <1>8, <3>1, ThreadsAssumption DEF Patched, Meta
    <3> QED BY <1>5, <1>6, <1>8, <2>2, <3>2 DEF UpdateMeta, diskVars, Kinds
  <2> QED BY <2>1, <2>2
<1>9. CASE CreateThread(t)
  <2>1. chains'[t] = <<>> /\ t \in minted'
    BY <1>2, <1>9 DEF CreateThread, NewIsBlank
  <2> QED BY <2>1 DEF Shape, FrontOnlyRuns, NewIsBlank, DraftWaits, DeletesAhead, MetaIsRecord
<1>10. CASE ArchiveThread(t)
  <2>1. threads[t] # None /\ threads[t].version < MaxVersion
    BY <1>10 DEF ArchiveThread, Active
  <2>2. CASE t \in draftIds
    BY <1>5, <1>6, <1>10, <2>1, <2>2 DEF ArchiveThread, RemoveThread, diskVars, memVars, Kinds
  <2>3. CASE t \notin draftIds
    BY <1>8, <1>10, <2>1, <2>3 DEF ArchiveThread
  <2> QED BY <2>2, <2>3
<1>11. CASE RestoreThread(t)
  BY <1>8, <1>11 DEF RestoreThread
<1>12. CASE Patch(t)
  <2>1. threads[t] \in Meta
    BY <1>3, <1>12 DEF Patch
  <2>2. threads[t].archived \in BOOLEAN
    BY <2>1 DEF Meta
  <2> QED BY <2>2, <1>8, <1>12 DEF Patch
<1>13. CASE RemoveTurn(t)
  <2>1. Front(turns[t]) \in Seq(Nat)
    BY <1>3, <1>13, FrontIsShorter DEF RemoveTurn
  <2> QED BY <2>1, <1>6, <1>13 DEF RemoveTurn, memVars, diskVars, Kinds
<1>14. CASE AppendTurn(t)
  <2>1. <<said'>> \in Seq(Nat)
    BY <1>1, <1>14 DEF AppendTurn, TypeOK
  <2>2. threads[t] # None /\ threads[t] \in Meta /\ UNCHANGED <<draftIds, minted, diskMeta>>
    BY <1>3, <1>14 DEF AppendTurn, diskVars
  <2>3. CASE t \in draftIds
    BY <2>1, <2>2, <2>3, <1>6, <1>14 DEF AppendTurn, Kinds
  <2>4. CASE t \notin draftIds
    BY <2>1, <2>2, <2>4, <1>6, <1>14 DEF AppendTurn, Kinds
  <2> QED BY <2>3, <2>4
\* The operation in front gets on.
<1>15. ASSUME DOMAIN chains'[t] = DOMAIN chains[t],
              chains[t] # <<>>, chains[t][1] \in Operation,
              chains'[t][1].kind = chains[t][1].kind,
              chains'[t][1].meta = chains[t][1].meta,
              \A i \in DOMAIN chains[t] \ {1} : chains'[t][i] = chains[t][i],
              UNCHANGED <<draftIds, minted>>
       PROVE  Shape(t)'
  <2>1. t \in minted
    BY <1>2, <1>15 DEF NewIsBlank
  <2>2. FrontOnlyRuns(t)'
    BY <1>2, <1>15 DEF FrontOnlyRuns
  <2>3. NewIsBlank(t)'
    BY <2>1, <1>15 DEF NewIsBlank
  <2>4. DraftWaits(t)'
    BY <1>2, <1>15 DEF DraftWaits
  <2>5. \A i \in DOMAIN chains[t] : chains'[t][i].kind = chains[t][i].kind
    BY <1>15
  <2>6. DeletesAhead(t)'
    BY <1>2, <1>15, <2>5 DEF DeletesAhead
  <2>7. MetaIsRecord(t)'
    BY <1>2, <1>15 DEF MetaIsRecord
  <2> QED BY <2>2, <2>3, <2>4, <2>6, <2>7 DEF Shape
<1>16. ASSUME NEW i \in DOMAIN chains[t], FileStep(t, i) \/ FileFails(t, i)
       PROVE  Shape(t)'
  <2>1. i = 1 /\ MayRun(t, 1) /\ UNCHANGED <<draftIds, minted>>
    BY <1>1, <1>16, FrontGoesOn
  <2>2. chains[t] # <<>> /\ chains[t][1] \in Operation
    BY <2>1, <1>1, FrontRuns
  <2>3. CASE ReadTurns(t, 1)
    <3>1. /\ chains'[t][1].kind = chains[t][1].kind
          /\ chains'[t][1].meta = chains[t][1].meta
      BY <2>2, <2>3, <1>1, ReadReached DEF Operation
    <3> QED BY <2>1, <2>2, <2>3, <3>1, <1>1, <1>15, ReadReached
  <2>4. ASSUME NEW stage \in Stages, Reaches(t, 1, stage)
        PROVE  Shape(t)'
    <3>1. /\ chains'[t][1].kind = chains[t][1].kind
          /\ chains'[t][1].meta = chains[t][1].meta
      BY <2>1, <2>2, <2>4, <1>1, Reached DEF Operation
    <3> QED BY <2>1, <2>2, <2>4, <3>1, <1>1, <1>15, Reached
  <2> QED BY <1>16, <2>1, <2>3, <2>4
             DEF FileStep, FileFails, Fault, ReadFails, CutShort, WriteMeta, RewriteTurns,
                 WriteTurns, ReplaceTurns, DeleteMeta, DeleteTurns, Stages
\* The operation in front leaves.
<1>17. ASSUME MayRun(t, 1), Leave(t, 1),
              draftIds' \subseteq draftIds, UNCHANGED minted
       PROVE  Shape(t)'
  <2>1. /\ DOMAIN chains'[t] = 1 .. Len(chains[t]) - 1
        /\ \A i \in DOMAIN chains'[t] : /\ chains'[t][i] = chains[t][i + 1]
                                       /\ i + 1 \in DOMAIN chains[t]
    BY <1>1, <1>17, Left
  <2>2. t \in minted
    BY <1>1, <1>2, <1>17, FrontRuns DEF NewIsBlank
  <2>3. FrontOnlyRuns(t)'
    <3> SUFFICES ASSUME NEW i \in DOMAIN chains'[t] PROVE chains'[t][i].stage = "wait"
      BY DEF FrontOnlyRuns
    <3>1. i + 1 # 1
      BY <1>4, <2>1
    <3> QED BY <1>2, <2>1, <3>1 DEF FrontOnlyRuns
  <2>4. NewIsBlank(t)'
    BY <2>2, <1>17 DEF NewIsBlank
  <2>5. DraftWaits(t)'
    BY <1>2, <1>17, <2>1 DEF DraftWaits
  <2>6. DeletesAhead(t)'
    <3> SUFFICES ASSUME NEW i \in DOMAIN chains'[t], NEW j \in DOMAIN chains'[t],
                        chains'[t][i].kind = "delete", chains'[t][j].kind = "append"
                 PROVE  i < j
      BY DEF DeletesAhead
    <3>1. i + 1 < j + 1
      BY <1>2, <2>1 DEF DeletesAhead
    <3>2. i \in Int /\ j \in Int
      BY <1>4, <2>1
    <3> QED BY <3>1, <3>2
  <2>7. MetaIsRecord(t)'
    BY <1>2, <2>1 DEF MetaIsRecord
  <2> QED BY <2>3, <2>4, <2>5, <2>6, <2>7 DEF Shape
<1>18. ASSUME NEW i \in DOMAIN chains[t], Return(t, i)
       PROVE  Shape(t)'
  <2>1. MayRun(t, i)
    BY <1>18 DEF Return, Materialized, Appended, MetaWritten, Rewritten, Removed,
                 GivesUp, At
  <2>2. i = 1 /\ MayRun(t, 1)
    BY <2>1, <1>1, FrontRuns
  <2>3. CASE Materialized(t, i)
    <3> DEFINE n == Len(chains[t])
    <3>1. /\ n \in Nat \ {0} /\ DOMAIN chains'[t] = DOMAIN chains[t]
          /\ chains'[t][n] = Op("append", None, chains[t][1].turns)
          /\ \A j \in DOMAIN chains[t] \ {n} :
                 chains'[t][j] = chains[t][j + 1] /\ j + 1 \in DOMAIN chains[t]
      BY <2>2, <2>3, <1>1, MaterializedMoves
    <3>2. chains'[t][n].stage = "wait" /\ chains'[t][n].kind = "append"
      BY <3>1 DEF Op
    <3>3. t \notin draftIds' /\ UNCHANGED minted
      BY <2>3 DEF Materialized
    <3>4. t \in minted
      BY <1>2, <1>4, <3>1, <2>2 DEF NewIsBlank, MayRun
    <3> HIDE DEF n
    <3>5. FrontOnlyRuns(t)'
      <4> SUFFICES ASSUME NEW j \in DOMAIN chains'[t] PROVE chains'[t][j].stage = "wait"
        BY DEF FrontOnlyRuns
      <4>1. j + 1 # 1
        BY <1>4, <3>1
      <4> QED BY <1>2, <3>1, <3>2, <4>1 DEF FrontOnlyRuns
    <3>6. NewIsBlank(t)' /\ DraftWaits(t)'
      BY <3>3, <3>4 DEF NewIsBlank, DraftWaits
    <3>7. \A j \in DOMAIN chains'[t] : j <= n
      BY <1>4, <3>1 DEF n
    <3>8. DeletesAhead(t)'
      <4> SUFFICES ASSUME NEW j \in DOMAIN chains'[t], NEW k \in DOMAIN chains'[t],
                          chains'[t][j].kind = "delete", chains'[t][k].kind = "append"
                   PROVE  j < k
        BY DEF DeletesAhead
      <4>1. j # n
        BY <3>2
      <4>2. CASE k = n
        BY <4>1, <4>2, <3>1, <3>7, <1>4
      <4>3. CASE k # n
        BY SMTT(20), <4>1, <4>3, <3>1, <1>2, <1>4 DEF DeletesAhead
      <4> QED BY <4>2, <4>3
    <3>9. MetaIsRecord(t)'
      BY <1>2, <3>1, <3>2 DEF MetaIsRecord
    <3> QED BY <3>5, <3>6, <3>8, <3>9 DEF Shape
  <2>4. CASE Appended(t, i)
    BY <2>2, <2>4, <1>17 DEF Appended, memVars
  <2>5. CASE MetaWritten(t, i)
    BY <2>2, <2>5, <1>17 DEF MetaWritten, memVars
  <2>6. CASE Rewritten(t, i)
    BY <2>2, <2>6, <1>17 DEF Rewritten
  <2>7. CASE Removed(t, i)
    BY <2>2, <2>7, <1>17 DEF Removed
  <2>8. CASE GivesUp(t, i)
    BY <2>2, <2>8, <1>17 DEF GivesUp, memVars
  <2> QED BY <1>18, <2>3, <2>4, <2>5, <2>6, <2>7, <2>8 DEF Return
<1> QED BY <1>9, <1>10, <1>11, <1>12, <1>13, <1>14, <1>16, <1>18 DEF StepOf

LEMMA ShapeStart == Init => ShapeInv
<1> SUFFICES ASSUME Init PROVE ShapeInv
  OBVIOUS
<1>1. ASSUME NEW t \in Threads PROVE Shape(t)
  BY <1>1 DEF Init, Shape, FrontOnlyRuns, NewIsBlank, DraftWaits, DeletesAhead, MetaIsRecord
<1> QED BY <1>1, TypeStart, DamageStart DEF ShapeInv

LEMMA ShapeNext == ShapeInv /\ [Next]_vars => ShapeInv'
<1> SUFFICES ASSUME ShapeInv, [Next]_vars PROVE ShapeInv'
  OBVIOUS
<1>1. TypeOK /\ TypeOK' /\ DamageInv'
  BY TypeNext, DamageNext DEF ShapeInv
<1> USE DEF Shape, FrontOnlyRuns, NewIsBlank, DraftWaits, DeletesAhead, MetaIsRecord
<1>2. ASSUME NEW u \in Threads, Unmoved(u) PROVE Shape(u)'
  BY <1>2 DEF ShapeInv, Unmoved
<1>3. ASSUME NEW t \in Threads, StepOf(t) PROVE \A u \in Threads : Shape(u)'
  <2> SUFFICES ASSUME NEW u \in Threads PROVE Shape(u)'
    OBVIOUS
  <2>1. CASE u = t
    BY <1>3, <2>1, ShapeStep
  <2>2. CASE u # t
    BY <1>1, <1>2, <1>3, <2>2, OthersStay
  <2> QED BY <2>1, <2>2
<1>4. ASSUME Restart PROVE \A u \in Threads : Shape(u)'
  <2> SUFFICES ASSUME NEW u \in Threads PROVE Shape(u)'
    OBVIOUS
  <2>1. chains'[u] = <<>> /\ draftIds' = {} /\ minted' = minted
        /\ settled' = settled /\ threads' = diskMeta /\ diskMeta' = diskMeta
    BY <1>4 DEF Restart
  <2>2. u \notin minted => diskTurns'[u] = <<>>
    <3>1. diskTurns'[u] = diskTurns[u] \/ BeingWritten(u, 1)
      BY <1>1, <1>4, CutByDeath
    <3> QED BY <3>1 DEF ShapeInv, BeingWritten, At, MayRun
  <2>3. diskMeta[u] = None => turns'[u] = <<>>
    BY <1>4 DEF Restart
  <2> QED BY <2>1, <2>2, <2>3 DEF ShapeInv
<1>5. ASSUME UNCHANGED vars PROVE \A u \in Threads : Shape(u)'
  BY <1>5 DEF vars, ShapeInv
<1> QED BY <1>1, <1>3, <1>4, <1>5, StepsAreOf DEF ShapeInv

-----------------------------------------------------------------------------
(* What a sequence holds.                                                  *)

LEMMA WhatSequencesHold ==
    ASSUME NEW S, NEW r \in Seq(S), NEW s \in Seq(S)
    PROVE  /\ ToSet(r \o s) = ToSet(r) \cup ToSet(s)
           /\ \A e \in S : ToSet(Append(r, e)) = ToSet(r) \cup {e}
           /\ \A x : Contains(r, x) <=> x \in ToSet(r)
           /\ r # <<>> => ToSet(r) \subseteq ToSet(Front(r)) \cup {Last(r)}
<1>1. /\ Len(r) \in Nat /\ Len(s) \in Nat
      /\ DOMAIN r = 1 .. Len(r) /\ DOMAIN s = 1 .. Len(s)
  BY LenProperties
<1>2. ToSet(r \o s) = ToSet(r) \cup ToSet(s)
  <2>1. /\ r \o s \in Seq(S) /\ Len(r \o s) = Len(r) + Len(s)
        /\ \A i \in 1 .. Len(r) + Len(s) :
              (r \o s)[i] = IF i <= Len(r) THEN r[i] ELSE s[i - Len(r)]
    BY ConcatProperties
  <2>2. DOMAIN (r \o s) = 1 .. Len(r) + Len(s)
    BY <2>1, LenProperties
  <2> DEFINE q == r \o s
  <2> HIDE DEF q
  <2>3. /\ DOMAIN q = 1 .. Len(r) + Len(s)
        /\ \A i \in 1 .. Len(r) + Len(s) : q[i] = IF i <= Len(r) THEN r[i] ELSE s[i - Len(r)]
    BY <2>1, <2>2 DEF q
  <2>4. ToSet(q) \subseteq ToSet(r) \cup ToSet(s)
    BY <1>1, <2>3 DEF ToSet
  <2>5. ASSUME NEW i \in DOMAIN r PROVE r[i] \in ToSet(q)
    <3>1. i \in 1 .. Len(r) + Len(s) /\ q[i] = r[i]
      BY <1>1, <2>3
    <3> QED BY <2>3, <3>1 DEF ToSet
  <2>6. ASSUME NEW i \in DOMAIN s PROVE s[i] \in ToSet(q)
    <3>1. i + Len(r) \in 1 .. Len(r) + Len(s) /\ ~(i + Len(r) <= Len(r))
          /\ i + Len(r) - Len(r) = i
      BY <1>1
    <3>2. q[i + Len(r)] = s[i]
      BY <2>3, <3>1
    <3> QED BY <2>3, <3>1, <3>2 DEF ToSet
  <2> QED BY <2>4, <2>5, <2>6 DEF ToSet, q
<1>3. ASSUME NEW e \in S PROVE ToSet(Append(r, e)) = ToSet(r) \cup {e}
  <2>1. /\ DOMAIN Append(r, e) = 1 .. Len(r) + 1
        /\ \A i \in 1 .. Len(r) : Append(r, e)[i] = r[i]
        /\ Append(r, e)[Len(r) + 1] = e
    BY PutLast
  <2> DEFINE q == Append(r, e)
  <2> HIDE DEF q
  <2>2. DOMAIN q = DOMAIN r \cup {Len(r) + 1} /\ q[Len(r) + 1] = e
        /\ \A i \in DOMAIN r : q[i] = r[i]
    BY <1>1, <2>1 DEF q
  <2>3. ToSet(q) = ToSet(r) \cup {e}
    BY <2>2 DEF ToSet
  <2> QED BY <2>3 DEF q
<1>4. \A x : Contains(r, x) <=> x \in ToSet(r)
  BY <1>1 DEF Contains, ToSet
<1>5. ASSUME r # <<>> PROVE ToSet(r) \subseteq ToSet(Front(r)) \cup {Last(r)}
  <2>1. /\ Front(r) \in Seq(S) /\ Len(Front(r)) = Len(r) - 1
        /\ \A i \in 1 .. Len(r) - 1 : Front(r)[i] = r[i]
    BY <1>5, FrontIsShorter
  <2>2. DOMAIN Front(r) = 1 .. Len(r) - 1
    BY <2>1, LenProperties
  <2> SUFFICES ASSUME NEW i \in DOMAIN r PROVE r[i] \in ToSet(Front(r)) \cup {Last(r)}
    BY DEF ToSet
  <2>3. CASE i = Len(r)
    BY <2>3 DEF Last
  <2>4. CASE i # Len(r)
    <3>1. i \in 1 .. Len(r) - 1
      BY <1>1, <2>4
    <3> QED BY <2>1, <2>2, <3>1 DEF ToSet
  <2> QED BY <2>3, <2>4
<1> QED BY <1>2, <1>3, <1>4, <1>5

-----------------------------------------------------------------------------
(* A turn whose append has returned stays in the file.                     *)

\* Nothing has been settled of a draft, or of a thread that is being deleted.
NothingSettled(t) ==
    t \in draftIds \/ (\E i \in DOMAIN chains[t] : chains[t][i].kind = "delete")
        => settled[t] = {}

\* What no failing read or write has taken.
Safe(t) == settled[t] \ lost[t]

OnDisk(t) == Safe(t) \subseteq ToSet(diskTurns[t])

InMemory(t) == threads[t] # None => Safe(t) \subseteq ToSet(turns[t])

\* What is about to replace the file holds it as well.
RewritesKeep(t) ==
    \A i \in DOMAIN chains[t] :
        chains[t][i].kind = "rewrite" => Safe(t) \subseteq ToSet(chains[t][i].turns)

\* What an append has read is still the file; what it has written is there, unless a
\* part of a line has swallowed it.
AppendsKeep(t) ==
    \A i \in DOMAIN chains[t] :
        chains[t][i].kind = "append" =>
            /\ chains[t][i].stage = "read" => chains[t][i].held = diskTurns[t]
            /\ chains[t][i].stage = "done"
                  => ToSet(chains[t][i].turns) \ lost[t] \subseteq ToSet(diskTurns[t])

Kept(t) == /\ NothingSettled(t) /\ OnDisk(t) /\ InMemory(t)
           /\ RewritesKeep(t) /\ AppendsKeep(t)

KeptInv == ShapeInv /\ \A t \in Threads : Kept(t)

LEMMA KeptStart == Init => KeptInv
<1> SUFFICES ASSUME Init PROVE KeptInv
  OBVIOUS
<1>1. ASSUME NEW t \in Threads PROVE Kept(t)
  BY <1>1 DEF Init, Kept, NothingSettled, OnDisk, InMemory, RewritesKeep, AppendsKeep, Safe
<1> QED BY <1>1, ShapeStart DEF KeptInv

LEMMA KeptUserStep ==
    ASSUME KeptInv, NEW t \in Threads,
           \/ CreateThread(t) \/ ArchiveThread(t) \/ RestoreThread(t)
           \/ Patch(t) \/ RemoveTurn(t) \/ AppendTurn(t)
    PROVE  Kept(t)'
<1>1. TypeOK /\ Shape(t) /\ Kept(t)
  BY DEF KeptInv, ShapeInv
<1>2. /\ FrontOnlyRuns(t) /\ NewIsBlank(t) /\ NothingSettled(t) /\ OnDisk(t)
      /\ InMemory(t) /\ RewritesKeep(t) /\ AppendsKeep(t)
  BY <1>1 DEF Shape, Kept
<1>3. /\ threads \in [Threads -> Meta \cup {None}] /\ turns \in [Threads -> Seq(Nat)]
      /\ settled \in [Threads -> SUBSET Nat] /\ said \in Nat
  BY <1>1 DEF TypeOK
<1>4. <<>> \in Seq(Nat)
  BY EmptySeq
<1>5. ASSUME NEW kind \in Kinds, NEW meta \in Meta \cup {None}, NEW list \in Seq(Nat),
             Enqueue(t, Op(kind, meta, list)),
             settled'[t] \subseteq settled[t], UNCHANGED <<diskTurns, lost>>,
             ToSet(turns[t]) \subseteq ToSet(turns'[t]), threads[t] # None,
             draftIds' = draftIds,
             kind = "rewrite" => settled'[t] \ lost[t] \subseteq ToSet(list),
             kind = "delete" => settled[t] = {}
      PROVE  Kept(t)'
  <2> DEFINE op == Op(kind, meta, list)
  <2>1. op \in Operation
    BY OperationsAreTyped
  <2>2. op.stage = "wait" /\ op.kind = kind /\ op.turns = list
    BY DEF Op
  <2> HIDE DEF op
  <2>3. /\ DOMAIN chains'[t] = DOMAIN chains[t] \cup {Len(chains[t]) + 1}
        /\ \A i \in DOMAIN chains[t] : chains'[t][i] = chains[t][i]
        /\ chains'[t][Len(chains[t]) + 1] = op
    <3>1. Enqueue(t, op)
      BY <1>5 DEF op
    <3> QED BY <3>1, <2>1, <1>1, Enqueued
  <2>4. NothingSettled(t)'
    BY <1>2, <1>5, <2>2, <2>3 DEF NothingSettled
  <2>5. OnDisk(t)' /\ InMemory(t)'
    BY <1>2, <1>5 DEF OnDisk, InMemory, Safe
  <2>6. RewritesKeep(t)'
    BY <1>2, <1>5, <2>2, <2>3 DEF RewritesKeep, Safe
  <2>7. AppendsKeep(t)'
    BY <1>2, <1>5, <2>2, <2>3 DEF AppendsKeep
  <2> QED BY <2>4, <2>5, <2>6, <2>7 DEF Kept
<1>6. ASSUME chains'[t] = chains[t], threads[t] # None,
             UNCHANGED <<draftIds, settled, lost, diskTurns, turns>>
      PROVE  Kept(t)'
  BY <1>2, <1>6 DEF Kept, NothingSettled, OnDisk, InMemory, RewritesKeep, AppendsKeep, Safe
<1>7. ASSUME NEW archived \in BOOLEAN, threads[t] # None, threads[t].version < MaxVersion,
             UpdateMeta(t, Patched(t, archived)), UNCHANGED <<diskVars, faultVars, settled>>
      PROVE  Kept(t)'
  <2>1. CASE t \in draftIds
    BY <1>6, <1>7, <2>1 DEF UpdateMeta, diskVars, faultVars
  <2>2. CASE t \notin draftIds
    <3>1. threads[t] \in Meta
      BY <1>3, <1>7
    <3>2. Patched(t, archived) \in Meta
      BY <1>7, <3>1, ThreadsAssumption DEF Patched, Meta
    <3> QED BY <1>4, <1>5, <1>7, <2>2, <3>2
               DEF UpdateMeta, diskVars, faultVars, Kinds
  <2> QED BY <2>1, <2>2
<1>8. CASE CreateThread(t)
  <2>1. chains'[t] = <<>> /\ settled'[t] = {}
    BY <1>2, <1>8 DEF CreateThread, NewIsBlank
  <2> QED BY <2>1 DEF Kept, NothingSettled, OnDisk, InMemory, RewritesKeep, AppendsKeep,
                      Safe
<1>9. CASE ArchiveThread(t)
  <2>1. threads[t] # None /\ threads[t].version < MaxVersion
    BY <1>9 DEF ArchiveThread, Active
  <2>2. CASE t \in draftIds
    BY <1>2, <1>4, <1>5, <1>9, <2>1, <2>2
       DEF ArchiveThread, RemoveThread, diskVars, memVars, faultVars, Kinds, NothingSettled
  <2>3. CASE t \notin draftIds
    BY <1>7, <1>9, <2>1, <2>3 DEF ArchiveThread
  <2> QED BY <2>2, <2>3
<1>10. CASE RestoreThread(t)
  BY <1>7, <1>10 DEF RestoreThread
<1>11. CASE Patch(t)
  <2>1. threads[t] \in Meta
    BY <1>3, <1>11 DEF Patch
  <2>2. threads[t].archived \in BOOLEAN
    BY <2>1 DEF Meta
  <2> QED BY <2>2, <1>7, <1>11 DEF Patch
<1>12. CASE RemoveTurn(t)
  <2>1. /\ Front(turns[t]) \in Seq(Nat)
        /\ ToSet(turns[t]) \subseteq ToSet(Front(turns[t])) \cup {Last(turns[t])}
    BY <1>3, <1>12, FrontIsShorter, WhatSequencesHold DEF RemoveTurn
  <2>2. settled'[t] = settled[t] \ {Last(turns[t])}
    BY <1>3, <1>12 DEF RemoveTurn
  <2>3. settled'[t] \ lost[t] \subseteq ToSet(Front(turns[t]))
    BY <1>2, <1>12, <2>1, <2>2 DEF RemoveTurn, InMemory, Safe
  <2> QED BY <2>1, <2>2, <2>3, <1>5, <1>12
             DEF RemoveTurn, memVars, diskVars, faultVars, Kinds
<1>13. CASE AppendTurn(t)
  <2>1. said' \in Nat /\ turns'[t] = Append(turns[t], said')
    BY <1>3, <1>13 DEF AppendTurn
  <2>2. <<said'>> \in Seq(Nat) /\ ToSet(turns[t]) \subseteq ToSet(turns'[t])
    <3>1. turns[t] \in Seq(Nat) /\ <<said'>> \in Seq(Nat)
      BY <1>3, <2>1
    <3>2. \A e \in Nat : ToSet(Append(turns[t], e)) = ToSet(turns[t]) \cup {e}
      BY <3>1, WhatSequencesHold
    <3> QED BY <2>1, <3>1, <3>2
  <2>3. /\ threads[t] # None /\ threads[t] \in Meta
        /\ UNCHANGED <<draftIds, settled, lost, diskTurns>>
    BY <1>3, <1>13 DEF AppendTurn, diskVars, faultVars
  <2>4. CASE t \in draftIds
    BY <2>2, <2>3, <2>4, <1>5, <1>13 DEF AppendTurn, Kinds
  <2>5. CASE t \notin draftIds
    BY <2>2, <2>3, <2>5, <1>5, <1>13 DEF AppendTurn, Kinds
  <2> QED BY <2>4, <2>5
<1> QED BY <1>8, <1>9, <1>10, <1>11, <1>12, <1>13

LEMMA KeptFileStep ==
    ASSUME KeptInv, NEW t \in Threads,
           NEW i \in DOMAIN chains[t], FileStep(t, i) \/ FileFails(t, i)
    PROVE  Kept(t)'
<1>1. TypeOK /\ Shape(t) /\ Kept(t)
  BY DEF KeptInv, ShapeInv
<1>2. /\ FrontOnlyRuns(t) /\ NothingSettled(t) /\ OnDisk(t)
      /\ InMemory(t) /\ RewritesKeep(t) /\ AppendsKeep(t)
  BY <1>1 DEF Shape, Kept
<1>3. i = 1 /\ MayRun(t, 1) /\ UNCHANGED <<threads, turns, draftIds, settled>>
  BY <1>1, FrontGoesOn
<1>4. chains[t][1] \in Operation /\ 1 \in DOMAIN chains[t]
  BY <1>1, <1>3, FrontRuns
<1>5. /\ diskTurns \in [Threads -> Seq(Nat)] /\ <<>> \in Seq(Nat)
  BY <1>1, EmptySeq DEF TypeOK
<1> DEFINE op == chains[t][1]
           new == chains'[t][1]
<1>6. op.turns \in Seq(Nat)
  BY <1>4 DEF Operation
\* The operation in front gets on; the others wait.
<1>7. ASSUME DOMAIN chains'[t] = DOMAIN chains[t],
             new.kind = op.kind, new.turns = op.turns,
             \A j \in DOMAIN chains[t] \ {1} : chains'[t][j] = chains[t][j],
             lost[t] \subseteq lost'[t], OnDisk(t)',
             op.kind = "append" /\ new.stage = "read" => new.held = diskTurns'[t],
             op.kind = "append" /\ new.stage = "done"
                => ToSet(op.turns) \ lost'[t] \subseteq ToSet(diskTurns'[t])
      PROVE  Kept(t)'
  <2>1. NothingSettled(t)'
    BY <1>2, <1>3, <1>4, <1>7 DEF NothingSettled
  <2>2. Safe(t)' \subseteq Safe(t)
    BY <1>3, <1>7 DEF Safe
  <2>3. InMemory(t)'
    BY <1>2, <1>3, <2>2 DEF InMemory
  <2>4. RewritesKeep(t)'
    BY <1>2, <1>4, <1>7, <2>2 DEF RewritesKeep
  <2>5. \A j \in DOMAIN chains[t] \ {1} : chains'[t][j].stage = "wait"
    BY <1>2, <1>7 DEF FrontOnlyRuns
  <2>6. AppendsKeep(t)'
    BY <1>7, <2>5 DEF AppendsKeep
  <2> QED BY <1>7, <2>1, <2>3, <2>4, <2>6 DEF Kept
<1>8. ASSUME NEW stage \in Stages, Reaches(t, 1, stage)
      PROVE  /\ DOMAIN chains'[t] = DOMAIN chains[t]
             /\ new.kind = op.kind /\ new.turns = op.turns
             /\ new.stage = stage /\ new.held = op.held
             /\ \A j \in DOMAIN chains[t] \ {1} : chains'[t][j] = chains[t][j]
  <2>1. /\ DOMAIN chains'[t] = DOMAIN chains[t]
        /\ new = [op EXCEPT !.stage = stage]
        /\ \A j \in DOMAIN chains[t] \ {1} : chains'[t][j] = chains[t][j]
    BY <1>1, <1>3, <1>4, <1>8, Reached
  <2> QED BY <1>4, <2>1 DEF Operation
\* The file and what has been lost of it stay.
<1>9. ASSUME diskTurns' = diskTurns, lost' = lost
      PROVE  OnDisk(t)' /\ lost[t] \subseteq lost'[t]
  BY <1>2, <1>3, <1>9 DEF OnDisk, Safe
\* Whatever an append replaces the file by, what leaves it is lost.
<1>10. ASSUME lost' = [lost EXCEPT ![t] = @ \cup TakenFrom(t)]
       PROVE  OnDisk(t)' /\ lost[t] \subseteq lost'[t]
  <2>1. lost'[t] = lost[t] \cup (ToSet(diskTurns[t]) \ ToSet(diskTurns'[t]))
    BY <1>1, <1>10 DEF TakenFrom, TypeOK
  <2> QED BY <1>2, <1>3, <2>1 DEF OnDisk, Safe
<1>11. CASE WriteMeta(t, i) \/ DeleteMeta(t, i) \/ Fault(t, i) \/ ReadFails(t, i)
  <2>1. diskTurns' = diskTurns /\ lost' = lost
    BY <1>11 DEF WriteMeta, DeleteMeta, Fault, ReadFails, diskVars, faultVars
  <2>2. PICK stage \in Stages \ {"read"} :
          Reaches(t, 1, stage) /\ (op.kind = "append" => stage # "done")
    BY <1>3, <1>11 DEF WriteMeta, DeleteMeta, Fault, ReadFails, At, Stages
  <2> QED BY <1>7, <1>8, <1>9, <2>1, <2>2
<1>12. CASE RewriteTurns(t, i)
  <2>1. /\ op.kind = "rewrite" /\ Reaches(t, 1, "done") /\ lost' = lost
        /\ diskTurns' = [diskTurns EXCEPT ![t] = op.turns]
    BY <1>3, <1>12 DEF RewriteTurns, At, faultVars
  <2>2. diskTurns'[t] = op.turns
    BY <1>5, <2>1
  <2>3. OnDisk(t)'
    BY <1>2, <1>3, <1>4, <2>1, <2>2 DEF OnDisk, RewritesKeep, Safe
  <2> QED BY <1>7, <1>8, <2>1, <2>3 DEF Stages
<1>13. CASE ReadTurns(t, i)
  <2>1. /\ DOMAIN chains'[t] = DOMAIN chains[t]
        /\ new = [op EXCEPT !.stage = "read", !.held = diskTurns[t]]
        /\ \A j \in DOMAIN chains[t] \ {1} : chains'[t][j] = chains[t][j]
    BY <1>1, <1>3, <1>13, ReadReached
  <2>2. new.kind = op.kind /\ new.turns = op.turns /\ new.held = diskTurns[t]
        /\ new.stage = "read"
    BY <1>4, <2>1 DEF Operation
  <2>3. diskTurns' = diskTurns /\ lost' = lost
    BY <1>13 DEF ReadTurns, diskVars, faultVars
  <2> QED BY <1>7, <1>9, <2>1, <2>2, <2>3
<1>14. CASE WriteTurns(t, i)
  <2>1. /\ op.kind = "append" /\ op.stage = "read" /\ Reaches(t, 1, "done")
        /\ diskTurns' = [diskTurns EXCEPT ![t] = NewFile(t, 1)]
        /\ lost' = IF t \in half THEN [lost EXCEPT ![t] = @ \cup ToSet(op.turns)] ELSE lost
    BY <1>3, <1>14 DEF WriteTurns, At
  <2>2. op.held = diskTurns[t]
    BY <1>2, <1>4, <2>1 DEF AppendsKeep
  <2>3. ToSet(diskTurns'[t]) =
          ToSet(diskTurns[t]) \cup ToSet(IF t \in half THEN <<>> ELSE op.turns)
    <3>1. diskTurns'[t] = diskTurns[t] \o (IF t \in half THEN <<>> ELSE op.turns)
      BY <1>5, <2>1, <2>2 DEF NewFile
    <3>2. (IF t \in half THEN <<>> ELSE op.turns) \in Seq(Nat)
      BY <1>5, <1>6
    <3> QED BY <1>5, <3>1, <3>2, WhatSequencesHold
  <2>4. lost'[t] = IF t \in half THEN lost[t] \cup ToSet(op.turns) ELSE lost[t]
    BY <1>1, <2>1 DEF TypeOK
  <2>5. OnDisk(t)'
    BY <1>2, <1>3, <2>3, <2>4 DEF OnDisk, Safe
  <2>6. ToSet(op.turns) \ lost'[t] \subseteq ToSet(diskTurns'[t])
    BY <2>3, <2>4
  <2> QED BY <1>7, <1>8, <2>1, <2>4, <2>5, <2>6 DEF Stages
<1>15. CASE ReplaceTurns(t, i)
  <2>1. /\ op.stage = "blind" /\ Reaches(t, 1, "done")
        /\ diskTurns' = [diskTurns EXCEPT ![t] = NewFile(t, 1)]
        /\ lost' = [lost EXCEPT ![t] = @ \cup TakenFrom(t)]
    BY <1>3, <1>15 DEF ReplaceTurns, At
  <2>2. diskTurns'[t] = op.held \o op.turns
    BY <1>5, <2>1 DEF NewFile
  <2>3. op.held \in Seq(Nat)
    BY <1>4 DEF Operation
  <2>4. ToSet(op.turns) \subseteq ToSet(diskTurns'[t])
    BY <1>6, <2>2, <2>3, WhatSequencesHold
  <2> QED BY <1>7, <1>8, <1>10, <2>1, <2>4 DEF Stages
<1>16. CASE CutShort(t, i)
  <2>1. Reaches(t, 1, "failed") /\ lost' = [lost EXCEPT ![t] = @ \cup TakenFrom(t)]
    BY <1>3, <1>16 DEF CutShort
  <2> QED BY <1>7, <1>8, <1>10, <2>1 DEF Stages
<1>17. CASE DeleteTurns(t, i)
  <2>1. op.kind = "delete" /\ Reaches(t, 1, "done") /\ lost' = lost
    BY <1>3, <1>17 DEF DeleteTurns, At, faultVars
  <2>2. settled[t] = {}
    BY <1>2, <1>4, <2>1 DEF NothingSettled
  <2>3. OnDisk(t)'
    BY <1>3, <2>2 DEF OnDisk, Safe
  <2> QED BY <1>7, <1>8, <2>1, <2>3 DEF Stages
<1> QED BY <1>11, <1>12, <1>13, <1>14, <1>15, <1>16, <1>17 DEF FileStep, FileFails

LEMMA KeptReturn ==
    ASSUME KeptInv, NEW t \in Threads,
           NEW i \in DOMAIN chains[t], Return(t, i)
    PROVE  Kept(t)'
<1>1. TypeOK /\ Shape(t) /\ Kept(t)
  BY DEF KeptInv, ShapeInv
<1>2. /\ FrontOnlyRuns(t) /\ NothingSettled(t) /\ OnDisk(t) /\ DeletesAhead(t)
      /\ InMemory(t) /\ RewritesKeep(t) /\ AppendsKeep(t)
  BY <1>1 DEF Shape, Kept
<1>3. MayRun(t, i) /\ lost' = lost
  BY DEF Return, Materialized, Appended, MetaWritten, Rewritten, Removed, GivesUp, At,
         faultVars
<1>4. i = 1 /\ chains[t][1] \in Operation /\ 1 \in DOMAIN chains[t]
  BY <1>1, <1>3, FrontRuns
<1>5. /\ Len(chains[t]) \in Nat /\ DOMAIN chains[t] = 1 .. Len(chains[t])
      /\ settled \in [Threads -> SUBSET Nat] /\ turns \in [Threads -> Seq(Nat)]
      /\ threads \in [Threads -> Meta \cup {None}]
  BY <1>1, Places DEF TypeOK
<1> DEFINE op == chains[t][1]
<1>6. op.turns \in Seq(Nat)
  BY <1>4 DEF Operation
\* What is left in the queue was in it, and waits.
<1>7. ASSUME Leave(t, 1)
      PROVE  \A j \in DOMAIN chains'[t] :
                /\ j + 1 \in DOMAIN chains[t] /\ chains'[t][j] = chains[t][j + 1]
                /\ chains'[t][j].stage = "wait"
  <2>1. /\ DOMAIN chains'[t] = 1 .. Len(chains[t]) - 1
        /\ \A j \in DOMAIN chains'[t] : /\ chains'[t][j] = chains[t][j + 1]
                                       /\ j + 1 \in DOMAIN chains[t]
    BY <1>1, <1>3, <1>4, <1>7, Left
  <2>2. \A j \in DOMAIN chains'[t] : j + 1 # 1
    BY <1>5, <2>1
  <2> QED BY <1>2, <2>1, <2>2 DEF FrontOnlyRuns
<1>8. ASSUME Leave(t, 1)
      PROVE  AppendsKeep(t)'
  BY <1>7, <1>8 DEF AppendsKeep
<1>9. ASSUME Leave(t, 1), settled'[t] \subseteq settled[t]
      PROVE  RewritesKeep(t)'
  BY <1>2, <1>7, <1>9, <1>3 DEF RewritesKeep, Safe
<1>10. ASSUME Leave(t, 1), settled'[t] \subseteq settled[t], draftIds' \subseteq draftIds
       PROVE  NothingSettled(t)'
  BY <1>2, <1>7, <1>10 DEF NothingSettled
<1>11. ASSUME Leave(t, 1), UNCHANGED <<threads, turns, draftIds, settled, diskTurns>>
       PROVE  Kept(t)'
  BY <1>2, <1>8, <1>9, <1>10, <1>11, <1>3 DEF Kept, OnDisk, InMemory, Safe
<1>12. CASE Materialized(t, i)
  <2> DEFINE n == Len(chains[t])
  <2>1. /\ DOMAIN chains'[t] = DOMAIN chains[t]
        /\ chains'[t][n] = Op("append", None, op.turns)
        /\ \A j \in DOMAIN chains[t] \ {n} :
               chains'[t][j] = chains[t][j + 1] /\ j + 1 \in DOMAIN chains[t]
    BY <1>1, <1>4, <1>12, MaterializedMoves
  <2>2. chains'[t][n].kind = "append" /\ chains'[t][n].stage = "wait"
    BY <2>1 DEF Op
  <2> HIDE DEF n
  <2>3. UNCHANGED <<threads, turns, settled, diskTurns>>
    BY <1>12 DEF Materialized, diskVars
  <2>4. \A j \in DOMAIN chains[t] \ {n} : chains'[t][j].stage = "wait"
    <3> SUFFICES ASSUME NEW j \in DOMAIN chains[t] \ {n} PROVE chains'[t][j].stage = "wait"
      OBVIOUS
    <3>1. j + 1 # 1
      BY <1>5
    <3> QED BY <1>2, <2>1, <3>1 DEF FrontOnlyRuns
  <2>5. t \notin draftIds' /\ draftIds' \subseteq draftIds
    BY <1>12 DEF Materialized
  <2>6. NothingSettled(t)'
    BY <1>2, <2>1, <2>2, <2>3, <2>5 DEF NothingSettled
  <2>7. RewritesKeep(t)'
    BY <1>2, <1>3, <2>1, <2>2, <2>3 DEF RewritesKeep, Safe
  <2>8. AppendsKeep(t)'
    BY <2>1, <2>2, <2>4 DEF AppendsKeep
  <2> QED BY <1>2, <1>3, <2>3, <2>6, <2>7, <2>8 DEF Kept, OnDisk, InMemory, Safe
<1>13. CASE Appended(t, i)
  <2>1. op.kind = "append" /\ op.stage = "done" /\ Leave(t, 1)
        /\ UNCHANGED <<threads, turns, draftIds, diskTurns>>
    BY <1>4, <1>13 DEF Appended, At, memVars, diskVars
  <2> DEFINE more == {x \in ToSet(op.turns) \cap ToSet(turns[t]) :
                        \A j \in DOMAIN chains[t] :
                           chains[t][j].kind = "rewrite"
                               => Contains(chains[t][j].turns, x)}
  <2>2. settled'[t] = settled[t] \cup more
    BY <1>4, <1>5, <1>13 DEF Appended
  <2>3. more \subseteq ToSet(op.turns) /\ more \subseteq ToSet(turns[t])
    OBVIOUS
  <2>4. \A j \in DOMAIN chains[t] :
           chains[t][j].kind = "rewrite" => more \subseteq ToSet(chains[t][j].turns)
    <3> SUFFICES ASSUME NEW j \in DOMAIN chains[t], chains[t][j].kind = "rewrite",
                        NEW x \in more
                 PROVE  x \in ToSet(chains[t][j].turns)
      OBVIOUS
    <3>1. chains[t][j].turns \in Seq(Nat)
      BY <1>1, Places DEF Operation
    <3> QED BY <3>1, WhatSequencesHold
  <2> HIDE DEF more
  <2>5. OnDisk(t)'
    BY <1>2, <1>4, <1>3, <2>1, <2>2, <2>3 DEF OnDisk, AppendsKeep, Safe
  <2>6. InMemory(t)'
    BY <1>2, <1>3, <2>1, <2>2, <2>3 DEF InMemory, Safe
  <2>7. RewritesKeep(t)'
    BY <1>2, <1>7, <1>3, <2>1, <2>2, <2>4 DEF RewritesKeep, Safe
  \* No append has run ahead of a delete, or of a draft.
  <2>8. t \notin draftIds
    BY <1>1, <1>4, <2>1 DEF Shape, DraftWaits
  <2>9. \A j \in DOMAIN chains[t] : chains[t][j].kind # "delete"
    <3> SUFFICES ASSUME NEW j \in DOMAIN chains[t], chains[t][j].kind = "delete"
                 PROVE  FALSE
      OBVIOUS
    <3>1. j < 1
      BY <1>2, <1>4, <2>1 DEF DeletesAhead
    <3> QED BY <1>5, <3>1
  <2>10. NothingSettled(t)'
    BY <1>7, <2>1, <2>8, <2>9 DEF NothingSettled
  <2> QED BY <2>1, <2>5, <2>6, <2>7, <2>10, <1>8 DEF Kept
<1>14. CASE MetaWritten(t, i)
  BY <1>4, <1>11, <1>14 DEF MetaWritten, memVars, diskVars
<1>15. CASE Rewritten(t, i)
  <2>1. /\ Leave(t, 1) /\ UNCHANGED <<draftIds, diskTurns>>
        /\ settled'[t] = settled[t] \cap ToSet(turns'[t])
    BY <1>4, <1>5, <1>15 DEF Rewritten, diskVars
  <2> QED BY <1>2, <1>8, <1>9, <1>10, <1>3, <2>1 DEF Kept, OnDisk, InMemory, Safe
<1>16. CASE Removed(t, i)
  <2>1. Leave(t, 1) /\ settled'[t] = {} /\ draftIds' \subseteq draftIds
    BY <1>4, <1>5, <1>16 DEF Removed
  <2> QED BY <1>8, <1>9, <1>10, <2>1 DEF Kept, OnDisk, InMemory, Safe
<1>17. CASE GivesUp(t, i)
  BY <1>4, <1>11, <1>17 DEF GivesUp, memVars, diskVars
<1> QED BY <1>12, <1>13, <1>14, <1>15, <1>16, <1>17 DEF Return

\* A start reads what is on disk; what the death has kept from it is lost.
LEMMA KeptRestart ==
    ASSUME KeptInv, Restart, NEW t \in Threads
    PROVE  Kept(t)'
<1>1. TypeOK /\ OnDisk(t)
  BY DEF KeptInv, ShapeInv, Kept
<1>2. lost'[t] = lost[t] \cup (ToSet(diskTurns[t]) \ ToSet(diskTurns'[t]))
  BY DEF Restart, TakenFrom
<1>3. /\ threads' = diskMeta /\ draftIds' = {} /\ chains'[t] = <<>> /\ settled' = settled
      /\ diskMeta[t] # None => turns'[t] = diskTurns'[t]
  BY DEF Restart
<1>4. OnDisk(t)' /\ InMemory(t)'
  BY <1>1, <1>2, <1>3 DEF OnDisk, InMemory, Safe
<1>5. DOMAIN chains'[t] = {}
  BY <1>3, EmptySeq, LenProperties
<1> QED BY <1>3, <1>4, <1>5 DEF Kept, NothingSettled, RewritesKeep, AppendsKeep

LEMMA KeptNext == KeptInv /\ [Next]_vars => KeptInv'
<1> SUFFICES ASSUME KeptInv, [Next]_vars PROVE KeptInv'
  OBVIOUS
<1>1. ShapeInv /\ ShapeInv' /\ TypeOK
  BY ShapeNext DEF KeptInv, ShapeInv
<1>2. ASSUME NEW u \in Threads, Unmoved(u) PROVE Kept(u)'
  BY <1>2 DEF KeptInv, Unmoved, Kept, NothingSettled, OnDisk, InMemory, RewritesKeep,
              AppendsKeep, Safe
<1>3. ASSUME NEW t \in Threads, StepOf(t) PROVE \A u \in Threads : Kept(u)'
  <2> SUFFICES ASSUME NEW u \in Threads PROVE Kept(u)'
    OBVIOUS
  <2>1. CASE u = t
    BY <1>3, <2>1, KeptUserStep, KeptFileStep, KeptReturn DEF StepOf
  <2>2. CASE u # t
    BY <1>1, <1>2, <1>3, <2>2, OthersStay
  <2> QED BY <2>1, <2>2
<1>4. ASSUME UNCHANGED vars PROVE \A u \in Threads : Kept(u)'
  BY <1>2, <1>4 DEF vars, Unmoved
<1> QED BY <1>1, <1>3, <1>4, KeptRestart, StepsAreOf DEF KeptInv

\* A turn whose append has returned is in the file until it is taken out of the
\* transcript, through later appends, rewrites, deletions, failing operations and
\* restarts, for any number of threads, turns and failures: except that an append can
\* lose it, one that could not read the file or one that was cut short while it wrote,
\* by a failure or by the death of the program, and that a turn is lost which is
\* put behind the part of a line that such a write has left.
THEOREM TurnsAreKept == Spec => []SettledIsKept
<1>1. KeptInv => SettledIsKept
  BY DEF KeptInv, Kept, OnDisk, Safe, SettledIsKept
<1> QED BY <1>1, KeptStart, KeptNext, PTL DEF Spec

-----------------------------------------------------------------------------
(* Which operations a queue holds.                                         *)

LEMMA QueuedMore ==
    ASSUME TypeOK, NEW t \in Threads, NEW op \in Operation, Enqueue(t, op)
    PROVE  \A kind \in Kinds : Queued(t, kind)' <=> (Queued(t, kind) \/ kind = op.kind)
<1>1. /\ DOMAIN chains'[t] = DOMAIN chains[t] \cup {Len(chains[t]) + 1}
      /\ \A i \in DOMAIN chains[t] : chains'[t][i] = chains[t][i]
      /\ chains'[t][Len(chains[t]) + 1] = op
  BY Enqueued
<1> QED BY <1>1 DEF Queued

LEMMA QueuedLess ==
    ASSUME TypeOK, NEW t \in Threads, MayRun(t, 1), Leave(t, 1)
    PROVE  /\ \A kind \in Kinds : Queued(t, kind)' => Queued(t, kind)
           /\ \A kind \in Kinds : Queued(t, kind) => Queued(t, kind)' \/ chains[t][1].kind = kind
<1>1. /\ DOMAIN chains'[t] = 1 .. Len(chains[t]) - 1
      /\ \A i \in DOMAIN chains'[t] : /\ chains'[t][i] = chains[t][i + 1]
                                     /\ i + 1 \in DOMAIN chains[t]
  BY Left
<1>2. Len(chains[t]) \in Nat /\ DOMAIN chains[t] = 1 .. Len(chains[t])
  BY Places
<1>3. ASSUME NEW i \in DOMAIN chains[t], i # 1
      PROVE  i - 1 \in DOMAIN chains'[t] /\ chains'[t][i - 1] = chains[t][i]
  <2>1. i - 1 \in 1 .. Len(chains[t]) - 1 /\ (i - 1) + 1 = i
    BY <1>2, <1>3
  <2> QED BY <1>1, <2>1
<1> QED BY <1>1, <1>3 DEF Queued

LEMMA QueuedMoves ==
    ASSUME TypeOK, NEW t \in Threads, Materialized(t, 1)
    PROVE  /\ \A kind \in Kinds : Queued(t, kind)' => Queued(t, kind) \/ kind = "append"
           /\ \A kind \in Kinds : Queued(t, kind) => Queued(t, kind)' \/ kind = "first"
           /\ Queued(t, "first")
<1> DEFINE n == Len(chains[t])
<1>1. /\ n \in Nat \ {0}
      /\ DOMAIN chains'[t] = DOMAIN chains[t]
      /\ chains'[t][n] = Op("append", None, chains[t][1].turns)
      /\ \A i \in DOMAIN chains[t] \ {n} :
            chains'[t][i] = chains[t][i + 1] /\ i + 1 \in DOMAIN chains[t]
  BY MaterializedMoves
<1>2. DOMAIN chains[t] = 1 .. n
  BY Places
<1>3. chains'[t][n].kind = "append" /\ chains[t][1].kind = "first"
  BY <1>1 DEF Op, Materialized, At
<1> HIDE DEF n
<1>4. ASSUME NEW i \in DOMAIN chains[t], i # 1
      PROVE  i - 1 \in DOMAIN chains'[t] /\ chains'[t][i - 1] = chains[t][i]
  <2>1. i - 1 \in (1 .. n) \ {n} /\ (i - 1) + 1 = i
    BY <1>1, <1>2, <1>4
  <2> QED BY <1>1, <1>2, <2>1
<1>5. 1 \in DOMAIN chains[t]
  BY <1>1, <1>2
<1> QED BY <1>1, <1>3, <1>4, <1>5 DEF Queued

-----------------------------------------------------------------------------
(* The meta file comes first.                                              *)

\* A draft that has turns is on its way to its meta file, or has lost it.
DraftIsComing(t) ==
    "failed" \notin flaws[t] /\ t \in draftIds /\ turns[t] # <<>> => Materializing(t)

\* A draft's turns are rewritten only after its first ones were lost.
DraftIsNotRewritten(t) ==
    "failed" \notin flaws[t] /\ Queued(t, "rewrite") => t \notin draftIds

DeletedOnce(t) ==
    \A i, j \in DOMAIN chains[t] :
        chains[t][i].kind = "delete" /\ chains[t][j].kind = "delete" => i = j

\* The first turn's meta file has been written, and its caller not yet told.
MetaJustWritten(t) ==
    \E i \in DOMAIN chains[t] : chains[t][i].kind = "first" /\ chains[t][i].stage = "done"

DeletedAsUnused(t) ==
    Discarding(t) => t \in draftIds /\ ~Materializing(t) /\ ~Queued(t, "append")

\* Whatever may write turns finds the meta file.
WritersFindMeta(t) ==
    /\ threads[t] # None /\ t \notin draftIds => diskMeta[t] # None
    /\ Queued(t, "append") \/ MetaJustWritten(t) => diskMeta[t] # None
    /\ Queued(t, "rewrite") /\ "failed" \notin flaws[t] => diskMeta[t] # None

Headed(t) ==
    /\ DraftIsComing(t) /\ DraftIsNotRewritten(t) /\ DeletedOnce(t)
    /\ "crossed" \notin flaws[t] => DeletedAsUnused(t) /\ WritersFindMeta(t)

HeadedInv == ShapeInv /\ \A t \in Threads : Headed(t)

LEMMA HeadedStart == Init => HeadedInv
<1> SUFFICES ASSUME Init PROVE HeadedInv
  OBVIOUS
<1>1. ASSUME NEW t \in Threads PROVE Headed(t)
  BY <1>1 DEF Init, Headed, DraftIsComing, DraftIsNotRewritten, DeletedOnce,
              MetaJustWritten, DeletedAsUnused, WritersFindMeta, Queued, Discarding
<1> QED BY <1>1, ShapeStart DEF HeadedInv

\* The front operation is the only one that has got anywhere.
LEMMA JustWrittenIsFront ==
    ASSUME ShapeInv, NEW t \in Threads
    PROVE  MetaJustWritten(t) => /\ 1 \in DOMAIN chains[t] /\ chains[t][1].kind = "first"
                                 /\ chains[t][1].stage = "done"
  BY DEF ShapeInv, Shape, FrontOnlyRuns, MetaJustWritten

LEMMA HeadedUserStep ==
    ASSUME HeadedInv, NEW t \in Threads,
           \/ CreateThread(t) \/ ArchiveThread(t) \/ RestoreThread(t)
           \/ Patch(t) \/ RemoveTurn(t) \/ AppendTurn(t)
    PROVE  Headed(t)'
<1>1. TypeOK /\ Shape(t) /\ Headed(t)
  BY DEF HeadedInv, ShapeInv
<1>2. /\ NewIsBlank(t) /\ DraftIsComing(t) /\ DraftIsNotRewritten(t) /\ DeletedOnce(t)
      /\ "crossed" \notin flaws[t] => DeletedAsUnused(t) /\ WritersFindMeta(t)
  BY <1>1 DEF Shape, Headed
<1>3. /\ threads \in [Threads -> Meta \cup {None}] /\ turns \in [Threads -> Seq(Nat)]
      /\ flaws \in [Threads -> SUBSET Flaws] /\ said \in Nat
  BY <1>1 DEF TypeOK
<1>4. <<>> \in Seq(Nat)
  BY EmptySeq
<1>5. ASSUME NEW kind \in Kinds, NEW meta \in Meta \cup {None}, NEW list \in Seq(Nat),
             Enqueue(t, Op(kind, meta, list)), threads[t] # None,
             threads'[t] # None, UNCHANGED <<draftIds, diskMeta>>,
             kind \in {"first", "append"} \/ turns'[t] = turns[t],
             "failed" \in flaws[t] => "failed" \in flaws'[t],
             "crossed" \in flaws[t] => "crossed" \in flaws'[t],
             kind \in {"first", "append"} /\ Discarding(t) => "crossed" \in flaws'[t],
             kind = "first" => t \in draftIds,
             kind = "append" => t \notin draftIds,
             kind = "rewrite" => turns[t] # <<>> /\ ~Materializing(t),
             kind = "delete" => /\ t \in draftIds /\ ~Discarding(t)
                                /\ Materializing(t) => "crossed" \in flaws'[t]
      PROVE  Headed(t)'
  <2> DEFINE op == Op(kind, meta, list)
  <2>1. op \in Operation
    BY OperationsAreTyped
  <2>2. op.stage = "wait" /\ op.kind = kind
    BY DEF Op
  <2> HIDE DEF op
  <2>3. /\ DOMAIN chains'[t] = DOMAIN chains[t] \cup {Len(chains[t]) + 1}
        /\ \A i \in DOMAIN chains[t] : chains'[t][i] = chains[t][i]
        /\ chains'[t][Len(chains[t]) + 1] = op
        /\ \A k \in Kinds : Queued(t, k)' <=> (Queued(t, k) \/ k = kind)
    <3>1. Enqueue(t, op)
      BY <1>5 DEF op
    <3> QED BY <3>1, <2>1, <2>2, <1>1, Enqueued, QueuedMore
  <2>4. /\ Materializing(t)' <=> (Materializing(t) \/ kind = "first")
        /\ Discarding(t)' <=> (Discarding(t) \/ kind = "delete")
        /\ Queued(t, "append")' <=> (Queued(t, "append") \/ kind = "append")
        /\ Queued(t, "rewrite")' <=> (Queued(t, "rewrite") \/ kind = "rewrite")
    BY <2>3 DEF Materializing, Discarding, Kinds
  <2>5. MetaJustWritten(t)' <=> MetaJustWritten(t)
    BY <2>2, <2>3 DEF MetaJustWritten
  <2>6. DraftIsComing(t)'
    BY <1>2, <1>5, <2>4 DEF DraftIsComing
  <2>7. DraftIsNotRewritten(t)'
    BY <1>2, <1>5, <2>4 DEF DraftIsNotRewritten, DraftIsComing
  <2>8. DeletedOnce(t)'
    BY <1>2, <1>5, <2>2, <2>3 DEF DeletedOnce, Discarding, Queued
  <2>9. ASSUME "crossed" \notin flaws'[t]
        PROVE  DeletedAsUnused(t)' /\ WritersFindMeta(t)'
    <3>1. DeletedAsUnused(t) /\ WritersFindMeta(t)
      BY <1>2, <1>5, <2>9
    <3>2. kind = "delete" => ~Queued(t, "append")
      BY <1>1, <1>5 DEF Shape, DraftWaits, Queued
    <3>3. DeletedAsUnused(t)'
      BY <1>5, <2>4, <2>9, <3>1, <3>2 DEF DeletedAsUnused
    <3>4. WritersFindMeta(t)'
      BY <1>5, <2>4, <2>5, <2>7, <3>1 DEF WritersFindMeta, DraftIsNotRewritten
    <3> QED BY <3>3, <3>4
  <2> QED BY <2>6, <2>7, <2>8, <2>9 DEF Headed
\* The queue stays, and what is written down of the thread grows.
<1>6. ASSUME chains'[t] = chains[t], threads[t] # None, threads'[t] # None,
             UNCHANGED <<draftIds, diskMeta, turns>>,
             "failed" \in flaws[t] => "failed" \in flaws'[t],
             "crossed" \in flaws[t] => "crossed" \in flaws'[t]
      PROVE  Headed(t)'
  BY <1>2, <1>6 DEF Headed, DraftIsComing, DraftIsNotRewritten, DeletedOnce,
              MetaJustWritten, DeletedAsUnused, WritersFindMeta, Queued, Discarding,
              Materializing
<1>7. ASSUME NEW archived \in BOOLEAN, threads[t] # None, threads[t].version < MaxVersion,
             UpdateMeta(t, Patched(t, archived)), UNCHANGED diskVars
      PROVE  Headed(t)'
  <2>1. threads[t] \in Meta
    BY <1>3, <1>7
  <2>2. Patched(t, archived) \in Meta
    BY <1>7, <2>1, ThreadsAssumption DEF Patched, Meta
  <2>3. threads'[t] # None /\ UNCHANGED <<turns, draftIds, diskMeta>>
    BY <1>3, <1>7, <2>2, ThreadsAssumption DEF UpdateMeta, diskVars
  <2>4. /\ "failed" \in flaws[t] => "failed" \in flaws'[t]
        /\ "crossed" \in flaws[t] => "crossed" \in flaws'[t]
    <3>1. CASE t \in draftIds
      BY <1>3, <1>7, <3>1 DEF UpdateMeta, Flaw
    <3>2. CASE t \notin draftIds
      BY <1>3, <1>7, <3>2 DEF UpdateMeta
    <3> QED BY <3>1, <3>2
  <2>5. CASE t \in draftIds
    BY <1>6, <1>7, <2>3, <2>4, <2>5 DEF UpdateMeta
  <2>6. CASE t \notin draftIds
    BY <1>4, <1>5, <1>7, <2>2, <2>3, <2>4, <2>6 DEF UpdateMeta, Kinds
  <2> QED BY <2>5, <2>6
<1>8. CASE CreateThread(t)
  <2>1. chains'[t] = <<>> /\ turns'[t] = <<>> /\ t \in draftIds'
    BY <1>2, <1>8 DEF CreateThread, NewIsBlank
  <2> QED BY <2>1 DEF Headed, DraftIsComing, DraftIsNotRewritten, DeletedOnce,
                      MetaJustWritten, DeletedAsUnused, WritersFindMeta, Queued, Discarding
<1>9. CASE ArchiveThread(t)
  <2>1. threads[t] # None /\ threads[t].version < MaxVersion /\ ~Discarding(t)
    BY <1>9 DEF ArchiveThread, Active
  <2>2. CASE t \in draftIds
    <3>1. /\ Enqueue(t, Op("delete", None, <<>>)) /\ UNCHANGED <<memVars, diskVars>>
          /\ Flaw(t, IF Materializing(t) THEN {"crossed"} ELSE {})
      BY <1>9, <2>2 DEF ArchiveThread, RemoveThread
    <3>2. /\ "failed" \in flaws[t] => "failed" \in flaws'[t]
          /\ "crossed" \in flaws[t] => "crossed" \in flaws'[t]
          /\ Materializing(t) => "crossed" \in flaws'[t]
      BY <1>3, <3>1 DEF Flaw
    <3> QED BY <1>4, <1>5, <2>1, <2>2, <3>1, <3>2 DEF memVars, diskVars, Kinds
  <2>3. CASE t \notin draftIds
    BY <1>7, <1>9, <2>1, <2>3 DEF ArchiveThread
  <2> QED BY <2>2, <2>3
<1>10. CASE RestoreThread(t)
  BY <1>7, <1>10 DEF RestoreThread
<1>11. CASE Patch(t)
  <2>1. threads[t] \in Meta
    BY <1>3, <1>11 DEF Patch
  <2>2. threads[t].archived \in BOOLEAN
    BY <2>1 DEF Meta
  <2> QED BY <2>2, <1>7, <1>11 DEF Patch
<1>12. CASE RemoveTurn(t)
  <2>1. Front(turns[t]) \in Seq(Nat)
    BY <1>3, <1>12, FrontIsShorter DEF RemoveTurn
  <2> QED BY <2>1, <1>5, <1>12 DEF RemoveTurn, memVars, diskVars, Kinds
<1>13. CASE AppendTurn(t)
  <2>1. <<said'>> \in Seq(Nat)
    BY <1>3, <1>13 DEF AppendTurn
  <2>2. threads[t] # None /\ threads[t] \in Meta /\ UNCHANGED <<threads, draftIds, diskMeta>>
    BY <1>3, <1>13 DEF AppendTurn, diskVars
  <2>3. /\ "failed" \in flaws[t] => "failed" \in flaws'[t]
        /\ "crossed" \in flaws[t] => "crossed" \in flaws'[t]
        /\ Discarding(t) => "crossed" \in flaws'[t]
    BY <1>3, <1>13 DEF AppendTurn
  <2>4. CASE t \in draftIds
    BY <2>1, <2>2, <2>3, <2>4, <1>5, <1>13 DEF AppendTurn, Kinds
  <2>5. CASE t \notin draftIds
    BY <2>1, <2>2, <2>3, <2>5, <1>5, <1>13 DEF AppendTurn, Kinds
  <2> QED BY <2>4, <2>5
<1> QED BY <1>8, <1>9, <1>10, <1>11, <1>12, <1>13

LEMMA HeadedFileStep ==
    ASSUME HeadedInv, NEW t \in Threads,
           NEW i \in DOMAIN chains[t], FileStep(t, i) \/ FileFails(t, i)
    PROVE  Headed(t)'
<1>1. TypeOK /\ ShapeInv /\ Shape(t) /\ Headed(t)
  BY DEF HeadedInv, ShapeInv
<1>2. /\ FrontOnlyRuns(t) /\ MetaIsRecord(t)
      /\ DraftIsComing(t) /\ DraftIsNotRewritten(t) /\ DeletedOnce(t)
      /\ "crossed" \notin flaws[t] => DeletedAsUnused(t) /\ WritersFindMeta(t)
  BY <1>1 DEF Shape, Headed
<1>3. i = 1 /\ MayRun(t, 1) /\ UNCHANGED <<threads, turns, draftIds>>
  BY <1>1, FrontGoesOn
<1>4. chains[t][1] \in Operation /\ 1 \in DOMAIN chains[t]
  BY <1>1, <1>3, FrontRuns
<1>5. diskMeta \in [Threads -> Meta \cup {None}]
  BY <1>1 DEF TypeOK
<1> DEFINE op == chains[t][1]
           new == chains'[t][1]
<1>6. /\ UNCHANGED <<threads, turns, draftIds>>
      /\ "failed" \in flaws'[t] <=> "failed" \in flaws[t]
      /\ "crossed" \in flaws'[t] <=> "crossed" \in flaws[t]
  BY <1>1, FrontGoesOn
\* The operation in front gets on: which operations there are stays.
<1>7. ASSUME DOMAIN chains'[t] = DOMAIN chains[t], new.kind = op.kind,
             \A j \in DOMAIN chains[t] \ {1} : chains'[t][j] = chains[t][j],
             op.kind = "first" /\ new.stage = "done" => diskMeta'[t] # None,
             diskMeta[t] # None => diskMeta'[t] # None \/ op.kind = "delete"
      PROVE  Headed(t)'
  <2>1. /\ Materializing(t)' <=> Materializing(t)
        /\ Discarding(t)' <=> Discarding(t)
        /\ Queued(t, "append")' <=> Queued(t, "append")
        /\ Queued(t, "rewrite")' <=> Queued(t, "rewrite")
    BY <1>7 DEF Materializing, Discarding, Queued
  <2>2. \A j \in DOMAIN chains[t] : chains'[t][j].kind = chains[t][j].kind
    BY <1>7
  <2>3. MetaJustWritten(t)' => diskMeta'[t] # None
    <3>1. \A j \in DOMAIN chains[t] \ {1} : chains'[t][j].stage = "wait"
      BY <1>2, <1>7 DEF FrontOnlyRuns
    <3> QED BY <1>7, <3>1 DEF MetaJustWritten
  <2>4. DraftIsComing(t)' /\ DraftIsNotRewritten(t)'
    BY <1>2, <1>6, <2>1 DEF DraftIsComing, DraftIsNotRewritten
  <2>5. DeletedOnce(t)'
    BY <1>2, <1>7, <2>2 DEF DeletedOnce
  <2>6. ASSUME "crossed" \notin flaws'[t]
        PROVE  DeletedAsUnused(t)' /\ WritersFindMeta(t)'
    <3>1. DeletedAsUnused(t) /\ WritersFindMeta(t)
      BY <1>2, <1>6, <2>6
    <3>2. DeletedAsUnused(t)'
      BY <1>6, <2>1, <3>1 DEF DeletedAsUnused
    <3>3. op.kind = "delete" => Discarding(t)
      BY <1>4 DEF Discarding, Queued
    <3>4. WritersFindMeta(t)'
      BY <1>2, <1>6, <1>7, <2>1, <2>3, <3>1, <3>3
         DEF WritersFindMeta, DeletedAsUnused, DraftIsNotRewritten
    <3> QED BY <3>2, <3>4
  <2> QED BY <2>4, <2>5, <2>6 DEF Headed
<1>8. ASSUME NEW stage \in Stages, Reaches(t, 1, stage)
      PROVE  /\ DOMAIN chains'[t] = DOMAIN chains[t]
             /\ new.kind = op.kind /\ new.stage = stage
             /\ \A j \in DOMAIN chains[t] \ {1} : chains'[t][j] = chains[t][j]
  <2>1. /\ DOMAIN chains'[t] = DOMAIN chains[t]
        /\ new = [op EXCEPT !.stage = stage]
        /\ \A j \in DOMAIN chains[t] \ {1} : chains'[t][j] = chains[t][j]
    BY <1>1, <1>3, <1>4, <1>8, Reached
  <2> QED BY <1>4, <2>1 DEF Operation
<1>9. CASE WriteMeta(t, i)
  <2>1. op.kind \in {"first", "meta"} /\ Reaches(t, 1, "done")
        /\ diskMeta'[t] = op.meta
    BY <1>3, <1>4, <1>5, <1>9 DEF WriteMeta, At
  <2>2. diskMeta'[t] # None
    BY <1>2, <1>4, <2>1, ThreadsAssumption DEF MetaIsRecord
  <2> QED BY <1>7, <1>8, <2>1, <2>2 DEF Stages
<1>10. CASE RewriteTurns(t, i)
  BY <1>3, <1>4, <1>7, <1>8, <1>10 DEF RewriteTurns, At, Stages
<1>11. CASE ReadTurns(t, i)
  <2>1. /\ DOMAIN chains'[t] = DOMAIN chains[t]
        /\ new = [op EXCEPT !.stage = "read", !.held = diskTurns[t]]
        /\ \A j \in DOMAIN chains[t] \ {1} : chains'[t][j] = chains[t][j]
    BY <1>1, <1>3, <1>4, <1>11, ReadReached
  <2>2. new.kind = op.kind
    BY <1>3, <1>4, <2>1 DEF Operation
  <2>3. op.kind = "append" /\ UNCHANGED diskMeta
    BY <1>3, <1>4, <1>11 DEF ReadTurns, At, diskVars
  <2> QED BY <1>7, <2>1, <2>2, <2>3
<1>12. CASE WriteTurns(t, i) \/ ReplaceTurns(t, i) \/ CutShort(t, i)
  <2>1. /\ op.kind = "append" /\ diskMeta' = diskMeta
        /\ Reaches(t, 1, "done") \/ Reaches(t, 1, "failed")
    BY <1>3, <1>12 DEF WriteTurns, ReplaceTurns, CutShort, BeingWritten, At
  <2> QED BY <1>7, <1>8, <2>1 DEF Stages
<1>13. CASE DeleteMeta(t, i)
  BY <1>3, <1>4, <1>7, <1>8, <1>13 DEF DeleteMeta, At, Stages
<1>14. CASE DeleteTurns(t, i)
  BY <1>3, <1>4, <1>7, <1>8, <1>14 DEF DeleteTurns, At, Stages
<1>15. CASE Fault(t, i) \/ ReadFails(t, i)
  <2>1. /\ diskMeta' = diskMeta
        /\ Reaches(t, 1, "failed") \/ Reaches(t, 1, "blind")
    BY <1>3, <1>15 DEF Fault, ReadFails, diskVars
  <2> QED BY <1>7, <1>8, <2>1 DEF Stages
<1> QED BY <1>9, <1>10, <1>11, <1>12, <1>13, <1>14, <1>15 DEF FileStep, FileFails

LEMMA HeadedReturn ==
    ASSUME HeadedInv, NEW t \in Threads,
           NEW i \in DOMAIN chains[t], Return(t, i)
    PROVE  Headed(t)'
<1>1. TypeOK /\ ShapeInv /\ Shape(t) /\ Headed(t)
  BY DEF HeadedInv, ShapeInv
<1>2. /\ FrontOnlyRuns(t)
      /\ DraftIsComing(t) /\ DraftIsNotRewritten(t) /\ DeletedOnce(t)
      /\ "crossed" \notin flaws[t] => DeletedAsUnused(t) /\ WritersFindMeta(t)
  BY <1>1 DEF Shape, Headed
<1>3. MayRun(t, i)
  BY DEF Return, Materialized, Appended, MetaWritten, Rewritten, Removed, GivesUp, At
<1>4. i = 1 /\ chains[t][1] \in Operation /\ 1 \in DOMAIN chains[t]
  BY <1>1, <1>3, FrontRuns
<1>5. /\ Len(chains[t]) \in Nat /\ DOMAIN chains[t] = 1 .. Len(chains[t])
      /\ turns \in [Threads -> Seq(Nat)] /\ flaws \in [Threads -> SUBSET Flaws]
      /\ threads \in [Threads -> Meta \cup {None}]
  BY <1>1, Places DEF TypeOK
<1> DEFINE op == chains[t][1]
\* The operation in front leaves.
<1>6. ASSUME Leave(t, 1), UNCHANGED <<diskMeta>>,
             threads'[t] # None => threads[t] # None,
             draftIds' = draftIds \/ (draftIds' = draftIds \ {t} /\ threads'[t] = None
                                        /\ op.kind = "delete"),
             "failed" \in flaws[t] => "failed" \in flaws'[t],
             "crossed" \in flaws[t] => "crossed" \in flaws'[t],
             turns'[t] = turns[t] \/ turns'[t] = <<>> \/ op.kind = "rewrite",
             op.kind = "first" => "failed" \in flaws'[t]
      PROVE  Headed(t)'
  <2>1. /\ Materializing(t)' => Materializing(t)
        /\ Discarding(t)' => Discarding(t)
        /\ Queued(t, "append")' => Queued(t, "append")
        /\ Queued(t, "rewrite")' => Queued(t, "rewrite")
        /\ Materializing(t) => Materializing(t)' \/ op.kind = "first"
    BY <1>1, <1>3, <1>4, <1>6, QueuedLess DEF Materializing, Discarding, Kinds
  <2>2. \A j \in DOMAIN chains'[t] :
           /\ j + 1 \in DOMAIN chains[t] /\ chains'[t][j] = chains[t][j + 1]
           /\ j \in Nat /\ j + 1 # 1
    <3>1. /\ DOMAIN chains'[t] = 1 .. Len(chains[t]) - 1
          /\ \A j \in DOMAIN chains'[t] : /\ chains'[t][j] = chains[t][j + 1]
                                         /\ j + 1 \in DOMAIN chains[t]
      BY <1>1, <1>3, <1>4, <1>6, Left
    <3>2. \A j \in DOMAIN chains'[t] : j \in Nat /\ j + 1 # 1
      BY <1>5, <3>1
    <3> QED BY <3>1, <3>2
  <2>3. ~MetaJustWritten(t)'
    BY <1>2, <2>2 DEF MetaJustWritten, FrontOnlyRuns
  <2>4. DeletedOnce(t)'
    <3> SUFFICES ASSUME NEW j \in DOMAIN chains'[t], NEW k \in DOMAIN chains'[t],
                        chains'[t][j].kind = "delete", chains'[t][k].kind = "delete"
                 PROVE  j = k
      BY DEF DeletedOnce
    <3>1. j + 1 = k + 1
      BY <1>2, <2>2 DEF DeletedOnce
    <3> QED BY <2>2, <3>1
  <2>5. op.kind = "delete" => ~Discarding(t)'
    <3> SUFFICES ASSUME op.kind = "delete", NEW j \in DOMAIN chains'[t],
                        chains'[t][j].kind = "delete"
                 PROVE  FALSE
      BY DEF Discarding, Queued
    <3>1. j + 1 = 1
      BY <1>2, <1>4, <2>2 DEF DeletedOnce
    <3> QED BY <2>2, <3>1
  <2>6. op.kind = "rewrite" => Queued(t, "rewrite")
    BY <1>4 DEF Queued
  <2>7. DraftIsComing(t)'
    BY <1>2, <1>6, <2>1, <2>6 DEF DraftIsComing, DraftIsNotRewritten
  <2>8. DraftIsNotRewritten(t)'
    BY <1>2, <1>6, <2>1 DEF DraftIsNotRewritten
  <2>9. ASSUME "crossed" \notin flaws'[t]
        PROVE  DeletedAsUnused(t)' /\ WritersFindMeta(t)'
    <3>1. DeletedAsUnused(t) /\ WritersFindMeta(t)
      BY <1>2, <1>6, <2>9
    <3>2. DeletedAsUnused(t)'
      BY <1>6, <2>1, <2>5, <3>1 DEF DeletedAsUnused
    <3>3. WritersFindMeta(t)'
      BY <1>6, <2>1, <2>3, <3>1 DEF WritersFindMeta
    <3> QED BY <3>2, <3>3
  <2> QED BY <2>4, <2>7, <2>8, <2>9 DEF Headed
<1>7. CASE Materialized(t, i)
  <2>1. /\ UNCHANGED <<threads, turns, diskMeta, flaws>> /\ draftIds' = draftIds \ {t}
        /\ op.kind = "first" /\ op.stage = "done"
    BY <1>4, <1>7 DEF Materialized, At, diskVars
  <2>2. /\ Discarding(t)' => Discarding(t)
        /\ Materializing(t)
    BY <1>1, <1>4, <1>7, QueuedMoves DEF Materializing, Discarding, Kinds
  <2>3. MetaJustWritten(t)
    BY <1>4, <2>1 DEF MetaJustWritten
  <2>4. DraftIsComing(t)' /\ DraftIsNotRewritten(t)'
    BY <2>1 DEF DraftIsComing, DraftIsNotRewritten
  <2>5. DeletedOnce(t)'
    <3> DEFINE n == Len(chains[t])
    <3>1. /\ DOMAIN chains'[t] = DOMAIN chains[t]
          /\ chains'[t][n] = Op("append", None, op.turns)
          /\ \A j \in DOMAIN chains[t] \ {n} :
                 chains'[t][j] = chains[t][j + 1] /\ j + 1 \in DOMAIN chains[t]
      BY <1>1, <1>4, <1>7, MaterializedMoves
    <3>2. chains'[t][n].kind = "append"
      BY <3>1 DEF Op
    <3> HIDE DEF n
    <3> SUFFICES ASSUME NEW j \in DOMAIN chains'[t], NEW k \in DOMAIN chains'[t],
                        chains'[t][j].kind = "delete", chains'[t][k].kind = "delete"
                 PROVE  j = k
      BY DEF DeletedOnce
    <3>3. j # n /\ k # n
      BY <3>2
    <3>4. j + 1 = k + 1
      BY <1>2, <3>1, <3>3 DEF DeletedOnce
    <3> QED BY <1>5, <3>1, <3>4
  <2>6. ASSUME "crossed" \notin flaws'[t]
        PROVE  DeletedAsUnused(t)' /\ WritersFindMeta(t)'
    <3>1. DeletedAsUnused(t) /\ WritersFindMeta(t)
      BY <1>2, <2>1, <2>6
    <3>2. DeletedAsUnused(t)'
      BY <2>2, <3>1 DEF DeletedAsUnused
    <3>3. WritersFindMeta(t)'
      BY <2>1, <2>3, <3>1 DEF WritersFindMeta
    <3> QED BY <3>2, <3>3
  <2> QED BY <2>4, <2>5, <2>6 DEF Headed
<1>8. CASE Appended(t, i)
  BY <1>4, <1>6, <1>8 DEF Appended, At, memVars, diskVars
<1>9. CASE MetaWritten(t, i)
  BY <1>4, <1>6, <1>9 DEF MetaWritten, At, memVars, diskVars
<1>10. CASE Rewritten(t, i)
  <2>1. /\ "failed" \in flaws[t] => "failed" \in flaws'[t]
        /\ "crossed" \in flaws[t] => "crossed" \in flaws'[t]
    BY <1>5, <1>10 DEF Rewritten, Flaw
  <2> QED BY <1>4, <1>6, <1>10, <2>1 DEF Rewritten, At, diskVars
<1>11. CASE Removed(t, i)
  <2>1. threads'[t] = None /\ turns'[t] = <<>>
    BY <1>5, <1>11 DEF Removed
  <2> QED BY <1>4, <1>6, <1>11, <2>1 DEF Removed, At, diskVars
<1>12. CASE GivesUp(t, i)
  <2>1. /\ "failed" \in flaws'[t]
        /\ "crossed" \in flaws[t] => "crossed" \in flaws'[t]
    BY <1>5, <1>12 DEF GivesUp, Flaw
  <2> QED BY <1>4, <1>6, <1>12, <2>1 DEF GivesUp, memVars, diskVars
<1> QED BY <1>7, <1>8, <1>9, <1>10, <1>11, <1>12 DEF Return

LEMMA HeadedRestart ==
    ASSUME HeadedInv, Restart, NEW t \in Threads
    PROVE  Headed(t)'
<1>1. /\ threads' = diskMeta /\ diskMeta' = diskMeta /\ draftIds' = {}
      /\ chains'[t] = <<>>
  BY DEF Restart
<1> QED BY <1>1 DEF Headed, DraftIsComing, DraftIsNotRewritten, DeletedOnce,
                    MetaJustWritten, DeletedAsUnused, WritersFindMeta, Queued, Discarding

LEMMA HeadedNext == HeadedInv /\ [Next]_vars => HeadedInv'
<1> SUFFICES ASSUME HeadedInv, [Next]_vars PROVE HeadedInv'
  OBVIOUS
<1>1. ShapeInv /\ ShapeInv' /\ TypeOK
  BY ShapeNext DEF HeadedInv, ShapeInv
<1>2. ASSUME NEW u \in Threads, Unmoved(u) PROVE Headed(u)'
  BY <1>2 DEF HeadedInv, Unmoved, Headed, DraftIsComing, DraftIsNotRewritten, DeletedOnce,
              MetaJustWritten, DeletedAsUnused, WritersFindMeta, Queued, Discarding,
              Materializing
<1>3. ASSUME NEW t \in Threads, StepOf(t) PROVE \A u \in Threads : Headed(u)'
  <2> SUFFICES ASSUME NEW u \in Threads PROVE Headed(u)'
    OBVIOUS
  <2>1. CASE u = t
    BY <1>3, <2>1, HeadedUserStep, HeadedFileStep, HeadedReturn DEF StepOf
  <2>2. CASE u # t
    BY <1>1, <1>2, <1>3, <2>2, OthersStay
  <2> QED BY <2>1, <2>2
<1>4. ASSUME UNCHANGED vars PROVE \A u \in Threads : Headed(u)'
  BY <1>2, <1>4 DEF vars, Unmoved
<1> QED BY <1>1, <1>3, <1>4, HeadedRestart, StepsAreOf DEF HeadedInv

\* The file of a thread begins to hold turns by a rewrite or by an append.
LEMMA FirstTurns ==
    ASSUME HeadedInv, [Next]_vars, NEW t \in Threads,
           diskTurns[t] = <<>>, diskTurns'[t] # <<>>, "crossed" \notin flaws[t]
    PROVE  \/ diskMeta[t] # None
           \/ "failed" \in flaws[t] /\ Queued(t, "rewrite")
<1>1. TypeOK /\ WritersFindMeta(t)
  BY DEF HeadedInv, ShapeInv, Headed
<1>2. CASE UNCHANGED vars
  BY <1>2 DEF vars
\* An append that is under way when the program dies finds the meta file.
<1>3. CASE Restart
  <2>1. BeingWritten(t, 1)
    BY <1>1, <1>3, CutByDeath
  <2>2. MayRun(t, 1) /\ chains[t][1].kind = "append"
    BY <2>1 DEF BeingWritten, At
  <2>3. Queued(t, "append")
    BY <1>1, <2>2, FrontRuns DEF Queued
  <2> QED BY <1>1, <2>3 DEF WritersFindMeta
<1>4. ASSUME NEW u \in Threads, StepOf(u)
      PROVE  \/ diskMeta[t] # None
             \/ "failed" \in flaws[t] /\ Queued(t, "rewrite")
  <2>1. u = t
    BY <1>1, <1>4, OthersStay DEF Unmoved
  <2>2. diskTurns' # diskTurns
    OBVIOUS
  <2>3. PICK i \in DOMAIN chains[t] : FileStep(t, i) \/ CutShort(t, i)
    BY <1>4, <2>1, <2>2
       DEF StepOf, CreateThread, ArchiveThread, RestoreThread, Patch, RemoveTurn, AppendTurn,
           Return, Materialized, Appended, MetaWritten, Rewritten, Removed, GivesUp,
           FileFails, Fault, ReadFails, diskVars
  <2>4. diskTurns \in [Threads -> Seq(Nat)]
    BY <1>1 DEF TypeOK
  <2>5. CASE RewriteTurns(t, i)
    <3>1. Queued(t, "rewrite")
      BY <2>5 DEF RewriteTurns, At, Queued
    <3> QED BY <1>1, <3>1 DEF WritersFindMeta
  <2>6. CASE WriteTurns(t, i) \/ ReplaceTurns(t, i) \/ CutShort(t, i)
    <3>1. Queued(t, "append")
      BY <2>6 DEF WriteTurns, ReplaceTurns, CutShort, BeingWritten, At, Queued
    <3> QED BY <1>1, <3>1 DEF WritersFindMeta
  <2>7. CASE DeleteTurns(t, i)
    BY <2>4, <2>7 DEF DeleteTurns
  <2> QED BY <2>2, <2>3, <2>5, <2>6, <2>7
             DEF FileStep, WriteMeta, ReadTurns, DeleteMeta, diskVars
<1> QED BY <1>1, <1>2, <1>3, <1>4, StepsAreOf

\* Turns reach the disk only under a meta file, except where the thread was
\* discarded while its first turn was on its way, and where the first turns of a
\* draft were lost and Regenerate rewrites what is left of them: for any number of
\* threads, turns, failing operations and restarts, half-written files included.
THEOREM MetaComesFirst == Spec => MetaFirst
<1>1. HeadedInv /\ [Next]_vars =>
        [\A t \in Threads :
            diskTurns[t] = <<>> /\ diskTurns'[t] # <<>> /\ "crossed" \notin flaws[t]
                => \/ diskMeta[t] # None
                   \/ "failed" \in flaws[t] /\ Queued(t, "rewrite")]_vars
  BY FirstTurns
<1>2. Spec => []HeadedInv
  BY HeadedStart, HeadedNext, PTL DEF Spec
<1> QED BY <1>1, <1>2, PTL DEF Spec, MetaFirst

-----------------------------------------------------------------------------
(* The file holds a beginning of the transcript.                           *)

Begins(r, s) == Len(r) <= Len(s) /\ \A n \in 1 .. Len(r) : r[n] = s[n]

\* Nothing has parted the thread's turns from its file.
Sound(t) ==
    threads[t] # None /\ flaws[t] \cap {"failed", "wiped", "overtaken", "damaged"} = {}

\* Operation i still owes its turn to the file.
Owes(t, i) ==
    \/ chains[t][i].kind = "first"
    \/ chains[t][i].kind = "append" /\ chains[t][i].stage # "done"

\* A first turn joins the appends only when its meta file is there.
Sooner(t, i, j) ==
    \/ chains[t][i].kind = "append" /\ chains[t][j].kind = "first"
    \/ chains[t][i].kind = chains[t][j].kind /\ i < j

(* slot says where in the transcript the turn of an operation stands.      *)

\* Every turn that is owed is one the file lacks ...
OwedIsLacked(t, slot) ==
    \A i \in DOMAIN chains[t] :
        Owes(t, i) => /\ slot[i] \in Len(diskTurns[t]) + 1 .. Len(turns[t])
                      /\ chains[t][i].turns = <<turns[t][slot[i]]>>

\* ... and the other way round, but for the turn that a rewrite has taken out.
LackedIsOwed(t, slot) ==
    \A n \in Len(diskTurns[t]) + 1 .. Len(turns[t]) :
        \/ \E i \in DOMAIN chains[t] : Owes(t, i) /\ slot[i] = n
        \/ \E i \in DOMAIN chains[t] :
              /\ chains[t][i].kind = "rewrite" /\ chains[t][i].stage = "done"
              /\ n = Len(chains[t][i].turns) + 1

\* The queue pays in the order of the transcript.
PaysInOrder(t, slot) ==
    \A i, j \in DOMAIN chains[t] :
        Owes(t, i) /\ Owes(t, j) /\ Sooner(t, i, j) => slot[i] < slot[j]

\* What comes behind a rewrite was said after it.
RewriteDivides(t, slot) ==
    \A q, j \in DOMAIN chains[t] :
        chains[t][q].kind = "rewrite" /\ Owes(t, j) =>
            (j > q <=> slot[j] > Len(chains[t][q].turns) + 1)

Fits(t, slot) == /\ OwedIsLacked(t, slot) /\ LackedIsOwed(t, slot)
                 /\ PaysInOrder(t, slot) /\ RewriteDivides(t, slot)

\* A rewrite is to take out the last turn of its day.
RewriteFits(t) ==
    \A q \in DOMAIN chains[t] : chains[t][q].kind = "rewrite" =>
        /\ Begins(chains[t][q].turns, turns[t])
        /\ Len(chains[t][q].turns) < Len(turns[t])
        /\ Len(diskTurns[t]) <= Len(chains[t][q].turns) + 1
        /\ chains[t][q].stage = "done" => diskTurns[t] = chains[t][q].turns
        /\ ~Materializing(t)
        /\ \A p \in DOMAIN chains[t] : chains[t][p].kind = "rewrite" => p = q

\* A thread that is deleted has no turns on disk.
DeleteFits(t) ==
    \A i \in DOMAIN chains[t] : chains[t][i].kind = "delete" =>
        /\ diskTurns[t] = <<>>
        /\ \A j \in DOMAIN chains[t] : chains[t][j].kind = "rewrite" => i < j

HeldIsFile(t) ==
    \A i \in DOMAIN chains[t] :
        chains[t][i].kind = "append" /\ chains[t][i].stage = "read"
            => chains[t][i].held = diskTurns[t]

DraftIsUnwritten(t) == "failed" \notin flaws[t] /\ t \in draftIds => diskTurns[t] = <<>>

Follows(t) ==
    /\ Begins(diskTurns[t], turns[t])
    /\ \E slot \in [DOMAIN chains[t] -> Nat] : Fits(t, slot)
    /\ RewriteFits(t) /\ DeleteFits(t)

Prefixed(t) == HeldIsFile(t) /\ DraftIsUnwritten(t) /\ (Sound(t) => Follows(t))

PrefixInv == HeadedInv /\ \A t \in Threads : Prefixed(t)

LEMMA EmptyBegins == \A s \in Seq(Nat) : Begins(<<>>, s)
  BY EmptySeq, LenProperties DEF Begins

\* A queue without operations on a file that agrees with the transcript.
LEMMA EmptyFollows ==
    ASSUME NEW t, chains[t] = <<>>, turns[t] \in Seq(Nat), diskTurns[t] = turns[t]
    PROVE  HeldIsFile(t) /\ Follows(t)
<1>1. DOMAIN chains[t] = {} /\ Len(turns[t]) \in Nat
  BY EmptySeq, LenProperties
<1>2. \E slot \in [DOMAIN chains[t] -> Nat] : Fits(t, slot)
  <2> DEFINE slot == [i \in DOMAIN chains[t] |-> 0]
  <2>1. slot \in [DOMAIN chains[t] -> Nat]
    OBVIOUS
  <2> HIDE DEF slot
  <2>2. Fits(t, slot)
    BY <1>1 DEF Fits, OwedIsLacked, LackedIsOwed, PaysInOrder, RewriteDivides
  <2> QED BY <2>1, <2>2
<1>3. Begins(diskTurns[t], turns[t])
  BY <1>1 DEF Begins
<1>4. HeldIsFile(t) /\ RewriteFits(t) /\ DeleteFits(t)
  BY <1>1 DEF HeldIsFile, RewriteFits, DeleteFits
<1> QED BY <1>2, <1>3, <1>4 DEF Follows

LEMMA PrefixStart == Init => PrefixInv
<1> SUFFICES ASSUME Init PROVE PrefixInv
  OBVIOUS
<1>1. ASSUME NEW t \in Threads PROVE Prefixed(t)
  <2>1. /\ chains[t] = <<>> /\ turns[t] = <<>> /\ diskTurns[t] = <<>> /\ <<>> \in Seq(Nat)
    BY EmptySeq DEF Init
  <2> QED BY <2>1, EmptyFollows DEF Prefixed, DraftIsUnwritten
<1> QED BY <1>1, HeadedStart DEF PrefixInv

LEMMA PrefixFileStep ==
    ASSUME PrefixInv, NEW t \in Threads,
           NEW i \in DOMAIN chains[t], FileStep(t, i) \/ FileFails(t, i)
    PROVE  Prefixed(t)'
<1>1. TypeOK /\ ShapeInv /\ Shape(t) /\ Headed(t) /\ Prefixed(t)
  BY DEF PrefixInv, HeadedInv, ShapeInv
<1>2. /\ FrontOnlyRuns(t) /\ DeletesAhead(t) /\ DraftWaits(t)
      /\ DraftIsNotRewritten(t) /\ DamageIsKnown(t)
      /\ HeldIsFile(t) /\ DraftIsUnwritten(t)
  BY <1>1 DEF Shape, ShapeInv, DamageInv, Headed, Prefixed
<1>3. i = 1 /\ MayRun(t, 1)
  BY <1>1, FrontGoesOn
<1>4. chains[t][1] \in Operation /\ 1 \in DOMAIN chains[t]
  BY <1>1, <1>3, FrontRuns
<1>5. /\ diskTurns \in [Threads -> Seq(Nat)] /\ turns[t] \in Seq(Nat)
      /\ Len(chains[t]) \in Nat /\ DOMAIN chains[t] = 1 .. Len(chains[t])
      /\ Len(diskTurns[t]) \in Nat /\ Len(turns[t]) \in Nat
      /\ \A j \in DOMAIN chains[t] : chains[t][j].turns \in Seq(Nat)
                                   /\ Len(chains[t][j].turns) \in Nat
  BY <1>1, Places, LenProperties DEF TypeOK, Operation
<1> DEFINE op == chains[t][1]
           new == chains'[t][1]
<1>6. /\ UNCHANGED <<threads, turns, draftIds>> /\ op.stage # "done"
      /\ flaws'[t] \in {flaws[t], flaws[t] \cup {"damaged"}}
  BY <1>1, FrontGoesOn
\* Nothing behind the front operation has got anywhere.
<1>8. \A j \in DOMAIN chains[t] : chains[t][j].stage # "done"
  BY <1>2, <1>6 DEF FrontOnlyRuns
<1>9. /\ Sound(t)' => Sound(t)
      /\ "failed" \in flaws'[t] <=> "failed" \in flaws[t]
  BY <1>6 DEF Sound
<1>10. ASSUME NEW stage \in Stages, Reaches(t, 1, stage)
      PROVE  /\ DOMAIN chains'[t] = DOMAIN chains[t]
             /\ new.kind = op.kind /\ new.turns = op.turns
             /\ new.stage = stage /\ new.held = op.held
             /\ \A j \in DOMAIN chains[t] \ {1} : chains'[t][j] = chains[t][j]
  <2>1. /\ DOMAIN chains'[t] = DOMAIN chains[t]
        /\ new = [op EXCEPT !.stage = stage]
        /\ \A j \in DOMAIN chains[t] \ {1} : chains'[t][j] = chains[t][j]
    BY <1>1, <1>3, <1>4, <1>10, Reached
  <2> QED BY <1>4, <2>1 DEF Operation
\* What the front operation does leaves the turns in the file alone.
<1>11. ASSUME DOMAIN chains'[t] = DOMAIN chains[t],
              new.kind = op.kind, new.turns = op.turns,
              \A j \in DOMAIN chains[t] \ {1} : chains'[t][j] = chains[t][j],
              diskTurns'[t] = diskTurns[t],
              op.kind \in {"append", "rewrite"} => new.stage # "done",
              op.kind = "append" /\ new.stage = "read" => new.held = diskTurns[t]
       PROVE  Prefixed(t)'
  <2>1. HeldIsFile(t)'
    BY <1>2, <1>11 DEF HeldIsFile
  <2>2. DraftIsUnwritten(t)'
    BY <1>2, <1>6, <1>9, <1>11 DEF DraftIsUnwritten
  <2>3. \A j \in DOMAIN chains[t] : /\ chains'[t][j].kind = chains[t][j].kind
                                 /\ chains'[t][j].turns = chains[t][j].turns
    BY <1>11
  <2>4. \A j \in DOMAIN chains[t] : Owes(t, j)' <=> Owes(t, j)
    BY <1>4, <1>8, <1>11 DEF Owes
  <2>5. \A j, k \in DOMAIN chains[t] : Sooner(t, j, k)' <=> Sooner(t, j, k)
    BY <2>3 DEF Sooner
  <2>6. Materializing(t)' <=> Materializing(t)
    BY <1>11, <2>3 DEF Materializing, Queued
  <2>7. \A j \in DOMAIN chains[t] :
           chains[t][j].kind = "rewrite" => chains'[t][j].stage # "done"
    BY <1>8, <1>11
  <2>8. ASSUME Sound(t)' PROVE Follows(t)'
    <3>1. Follows(t)
      BY <1>1, <1>9, <2>8 DEF Prefixed
    <3>2. PICK slot \in [DOMAIN chains[t] -> Nat] : Fits(t, slot)
      BY <3>1 DEF Follows
    <3>3. OwedIsLacked(t, slot)'
      BY <1>6, <1>11, <2>3, <2>4, <3>2 DEF Fits, OwedIsLacked
    <3>4. LackedIsOwed(t, slot)'
      BY <1>6, <1>8, <1>11, <2>4, <3>2 DEF Fits, LackedIsOwed
    <3>5. PaysInOrder(t, slot)'
      BY <1>11, <2>4, <2>5, <3>2 DEF Fits, PaysInOrder
    <3>6. RewriteDivides(t, slot)'
      BY <1>11, <2>3, <2>4, <3>2 DEF Fits, RewriteDivides
    <3>7. RewriteFits(t)'
      BY <1>6, <1>11, <2>3, <2>6, <2>7, <3>1 DEF Follows, RewriteFits
    <3>8. DeleteFits(t)'
      BY <1>11, <2>3, <3>1 DEF Follows, DeleteFits
    <3>9. Begins(diskTurns[t], turns[t])'
      BY <1>6, <1>11, <3>1 DEF Follows
    <3> QED BY <1>11, <3>3, <3>4, <3>5, <3>6, <3>7, <3>8, <3>9 DEF Follows, Fits
  <2> QED BY <2>1, <2>2, <2>8 DEF Prefixed
<1>12. CASE WriteMeta(t, i)
  BY <1>3, <1>4, <1>10, <1>11, <1>12 DEF WriteMeta, At, Stages
<1>13. CASE RewriteTurns(t, i)
  <2>1. op.kind = "rewrite" /\ Reaches(t, 1, "done")
        /\ diskTurns' = [diskTurns EXCEPT ![t] = op.turns]
    BY <1>3, <1>13 DEF RewriteTurns, At
  <2>2. diskTurns'[t] = op.turns
    BY <1>5, <2>1
  <2>3. /\ DOMAIN chains'[t] = DOMAIN chains[t]
        /\ new.kind = op.kind /\ new.turns = op.turns /\ new.stage = "done"
        /\ \A j \in DOMAIN chains[t] \ {1} : chains'[t][j] = chains[t][j]
    BY <1>10, <2>1 DEF Stages
  <2>4. \A j \in DOMAIN chains[t] : /\ chains'[t][j].kind = chains[t][j].kind
                                 /\ chains'[t][j].turns = chains[t][j].turns
    BY <2>3
  <2>5. HeldIsFile(t)'
    BY <1>2, <2>1, <2>3 DEF HeldIsFile, FrontOnlyRuns
  <2>6. Queued(t, "rewrite")
    BY <1>4, <2>1 DEF Queued
  <2>7. DraftIsUnwritten(t)'
    BY <1>2, <1>6, <1>9, <2>6 DEF DraftIsUnwritten, DraftIsNotRewritten
  <2>8. ASSUME Sound(t)' PROVE Follows(t)'
    <3>1. Follows(t)
      BY <1>1, <1>9, <2>8 DEF Prefixed
    <3>2. PICK slot \in [DOMAIN chains[t] -> Nat] : Fits(t, slot)
      BY <3>1 DEF Follows
    <3>3. /\ Begins(op.turns, turns[t]) /\ Len(op.turns) < Len(turns[t])
          /\ Len(diskTurns[t]) <= Len(op.turns) + 1 /\ ~Materializing(t)
          /\ \A p \in DOMAIN chains[t] : chains[t][p].kind = "rewrite" => p = 1
      BY <1>4, <2>1, <3>1 DEF Follows, RewriteFits
    <3>4. \A j \in DOMAIN chains[t] : Owes(t, j)' <=> Owes(t, j)
      BY <2>1, <2>3 DEF Owes
    <3>5. \A j \in DOMAIN chains[t] : Owes(t, j) => j > 1 /\ slot[j] > Len(op.turns) + 1
      <4> SUFFICES ASSUME NEW j \in DOMAIN chains[t], Owes(t, j)
                   PROVE  j > 1 /\ slot[j] > Len(op.turns) + 1
        OBVIOUS
      <4>1. j # 1
        BY <2>1 DEF Owes
      <4>2. j > 1
        BY <1>5, <4>1
      <4> QED BY <1>4, <2>1, <3>2, <4>2 DEF Fits, RewriteDivides
    <3>6. OwedIsLacked(t, slot)'
      <4> SUFFICES ASSUME NEW j \in DOMAIN chains[t], Owes(t, j)
                   PROVE  /\ slot[j] \in Len(op.turns) + 1 .. Len(turns[t])
                          /\ chains[t][j].turns = <<turns[t][slot[j]]>>
        BY <1>6, <2>2, <2>3, <2>4, <3>4 DEF OwedIsLacked
      <4>1. /\ slot[j] \in Len(diskTurns[t]) + 1 .. Len(turns[t])
            /\ chains[t][j].turns = <<turns[t][slot[j]]>>
        BY <3>2 DEF Fits, OwedIsLacked
      <4> QED BY <1>4, <1>5, <3>5, <4>1
    <3>7. LackedIsOwed(t, slot)'
      <4> SUFFICES ASSUME NEW n \in Len(op.turns) + 1 .. Len(turns[t])
                   PROVE  \/ n = Len(op.turns) + 1
                          \/ \E j \in DOMAIN chains[t] : Owes(t, j) /\ slot[j] = n
        BY <1>4, <1>6, <2>1, <2>2, <2>3, <3>4 DEF LackedIsOwed
      <4>1. CASE n = Len(op.turns) + 1
        BY <4>1
      <4>2. CASE n # Len(op.turns) + 1
        <5>1. n \in Len(diskTurns[t]) + 1 .. Len(turns[t])
          BY <1>4, <1>5, <3>3, <4>2
        <5> QED BY <1>8, <3>2, <5>1 DEF Fits, LackedIsOwed
      <4> QED BY <4>1, <4>2
    <3>8. PaysInOrder(t, slot)'
      BY <2>3, <2>4, <3>2, <3>4 DEF Fits, PaysInOrder, Sooner
    <3>9. RewriteDivides(t, slot)'
      BY <2>3, <2>4, <3>2, <3>4 DEF Fits, RewriteDivides
    <3>10. ~Materializing(t)'
      BY <2>3, <2>4, <3>3 DEF Materializing, Queued
    <3>11. Len(op.turns) <= Len(op.turns) + 1
      BY <1>4, <1>5
    <3>12. RewriteFits(t)'
      BY <1>6, <2>2, <2>3, <2>4, <3>3, <3>10, <3>11 DEF RewriteFits
    <3>13. DeleteFits(t)'
      <4> SUFFICES ASSUME NEW j \in DOMAIN chains[t], chains[t][j].kind = "delete"
                   PROVE  FALSE
        BY <2>3, <2>4 DEF DeleteFits
      <4>1. j < 1
        BY <1>4, <2>1, <3>1 DEF Follows, DeleteFits
      <4> QED BY <1>5, <4>1
    <3>14. Begins(diskTurns[t], turns[t])'
      BY <1>6, <2>2, <3>3
    <3> QED BY <2>3, <3>6, <3>7, <3>8, <3>9, <3>12, <3>13, <3>14 DEF Follows, Fits
  <2> QED BY <2>5, <2>7, <2>8 DEF Prefixed
<1>14. CASE ReadTurns(t, i)
  <2>1. /\ DOMAIN chains'[t] = DOMAIN chains[t]
        /\ new = [op EXCEPT !.stage = "read", !.held = diskTurns[t]]
        /\ \A j \in DOMAIN chains[t] \ {1} : chains'[t][j] = chains[t][j]
    BY <1>1, <1>3, <1>14, ReadReached
  <2>2. new.kind = op.kind /\ new.turns = op.turns /\ new.held = diskTurns[t]
        /\ new.stage = "read"
    BY <1>4, <2>1 DEF Operation
  <2>3. diskTurns' = diskTurns
    BY <1>14 DEF ReadTurns, diskVars
  <2> QED BY <1>11, <2>1, <2>2, <2>3
<1>15. CASE DeleteMeta(t, i)
  BY <1>3, <1>4, <1>10, <1>11, <1>15 DEF DeleteMeta, At, Stages
<1>16. CASE DeleteTurns(t, i)
  <2>1. op.kind = "delete" /\ Reaches(t, 1, "done") /\ diskTurns'[t] = <<>>
    BY <1>3, <1>5, <1>16 DEF DeleteTurns, At
  <2>2. /\ DOMAIN chains'[t] = DOMAIN chains[t]
        /\ new.kind = op.kind /\ new.turns = op.turns
        /\ \A j \in DOMAIN chains[t] \ {1} : chains'[t][j] = chains[t][j]
    BY <1>10, <2>1 DEF Stages
  <2>3. CASE Sound(t)
    <3>1. diskTurns[t] = <<>>
      BY <1>1, <1>4, <2>1, <2>3 DEF Prefixed, Follows, DeleteFits
    <3> QED BY <1>11, <2>1, <2>2, <3>1
  <2>4. CASE ~Sound(t)
    <3>1. HeldIsFile(t)'
      BY <1>2, <2>1, <2>2 DEF HeldIsFile, FrontOnlyRuns
    <3> QED BY <1>9, <2>1, <2>4, <3>1 DEF Prefixed, DraftIsUnwritten
  <2> QED BY <2>3, <2>4
<1>17. CASE Fault(t, i)
  BY <1>3, <1>4, <1>10, <1>11, <1>17 DEF Fault, diskVars, Stages
\* A file that an append has not read, or has not written to the end, is given up on.
<1>18. CASE ReadFails(t, i) \/ CutShort(t, i) \/ ReplaceTurns(t, i)
  <2>1. /\ op.kind = "append" /\ op.stage \in {"wait", "read", "blind"}
        /\ \E stage \in {"blind", "failed", "done"} : Reaches(t, 1, stage)
    BY <1>3, <1>18 DEF ReadFails, CutShort, BeingWritten, ReplaceTurns, At
  <2>2. "damaged" \in flaws'[t]
    <3>1. CASE ReadFails(t, i) \/ CutShort(t, i)
      BY <1>1, <3>1 DEF ReadFails, CutShort, Flaw, TypeOK
    <3>2. CASE ReplaceTurns(t, i)
      <4>1. Blind(t)
        BY <1>3, <1>4, <3>2 DEF ReplaceTurns, At, Blind
      <4> QED BY <1>2, <1>6, <4>1 DEF DamageIsKnown
    <3> QED BY <1>18, <3>1, <3>2
  <2>3. /\ DOMAIN chains'[t] = DOMAIN chains[t] /\ new.stage # "read"
        /\ \A j \in DOMAIN chains[t] \ {1} : chains'[t][j] = chains[t][j]
    BY <1>10, <2>1 DEF Stages
  <2>4. HeldIsFile(t)'
    BY <1>2, <2>3 DEF HeldIsFile, FrontOnlyRuns
  <2>5. DraftIsUnwritten(t)'
    BY <1>2, <1>4, <1>6, <2>1 DEF DraftIsUnwritten, DraftWaits
  <2> QED BY <2>2, <2>4, <2>5 DEF Prefixed, Sound
<1>19. CASE WriteTurns(t, i)
  <2>1. /\ op.kind = "append" /\ op.stage = "read" /\ Reaches(t, 1, "done")
        /\ diskTurns' = [diskTurns EXCEPT ![t] = NewFile(t, 1)]
    BY <1>3, <1>19 DEF WriteTurns, At
  <2>2. op.held = diskTurns[t]
    BY <1>2, <1>4, <2>1 DEF HeldIsFile
  <2>3. Sound(t) => diskTurns'[t] = diskTurns[t] \o op.turns
    BY <1>2, <1>5, <2>1, <2>2 DEF Sound, DamageIsKnown, NewFile
  <2>4. /\ DOMAIN chains'[t] = DOMAIN chains[t]
        /\ new.kind = op.kind /\ new.turns = op.turns /\ new.stage = "done"
        /\ \A j \in DOMAIN chains[t] \ {1} : chains'[t][j] = chains[t][j]
    BY <1>10, <2>1 DEF Stages
  <2>5. \A j \in DOMAIN chains[t] : /\ chains'[t][j].kind = chains[t][j].kind
                                 /\ chains'[t][j].turns = chains[t][j].turns
    BY <2>4
  <2>6. HeldIsFile(t)'
    BY <1>2, <2>1, <2>4 DEF HeldIsFile, FrontOnlyRuns
  <2>7. t \notin draftIds
    BY <1>2, <1>4, <2>1 DEF DraftWaits
  <2>8. DraftIsUnwritten(t)'
    BY <1>6, <2>7 DEF DraftIsUnwritten
  <2>9. ASSUME Sound(t)' PROVE Follows(t)'
    <3>1. Follows(t)
      BY <1>1, <1>9, <2>9 DEF Prefixed
    <3>2. PICK slot \in [DOMAIN chains[t] -> Nat] : Fits(t, slot)
      BY <3>1 DEF Follows
    <3> DEFINE n == Len(diskTurns[t]) + 1
    <3>3. Owes(t, 1)
      BY <2>1 DEF Owes
    <3>4. \A j \in DOMAIN chains[t] \ {1} : Owes(t, j)' <=> Owes(t, j)
      BY <2>4 DEF Owes
    <3>5. ~Owes(t, 1)'
      BY <2>1, <2>4 DEF Owes
    <3>6. \A j \in DOMAIN chains[t] \ {1} : Owes(t, j) => slot[1] < slot[j]
      <4> SUFFICES ASSUME NEW j \in DOMAIN chains[t] \ {1}, Owes(t, j)
                   PROVE  slot[1] < slot[j]
        OBVIOUS
      <4>1. 1 < j
        BY <1>5
      <4>2. Sooner(t, 1, j)
        BY <2>1, <4>1 DEF Owes, Sooner
      <4> QED BY <1>4, <3>2, <3>3, <4>2 DEF Fits, PaysInOrder
    <3>7. slot[1] \in n .. Len(turns[t]) /\ op.turns = <<turns[t][slot[1]]>>
      BY <1>4, <3>2, <3>3 DEF Fits, OwedIsLacked
    <3>8. slot[1] = n
      <4>1. n \in n .. Len(turns[t])
        BY <1>5, <3>7
      <4>2. PICK j \in DOMAIN chains[t] : Owes(t, j) /\ slot[j] = n
        BY <1>8, <3>2, <4>1 DEF Fits, LackedIsOwed
      <4>3. slot[1] \in Nat /\ slot[j] \in Nat /\ n \in Nat
        BY <1>4, <1>5
      <4>4. CASE j = 1
        BY <4>2, <4>4
      <4>5. CASE j # 1
        BY <3>6, <3>7, <4>2, <4>3, <4>5
      <4> QED BY <4>4, <4>5
    <3>9. turns[t][n] \in Nat
      BY <1>5, <3>7, <3>8, ElementOfSeq
    <3>10. op.turns = <<turns[t][n]>> /\ n <= Len(turns[t]) /\ n \in Nat
      BY <1>5, <3>7, <3>8
    <3> HIDE DEF n
    <3>11. /\ Len(diskTurns'[t]) = n
           /\ \A m \in 1 .. n : diskTurns'[t][m] = turns[t][m]
      <4> DEFINE d == diskTurns[t]
                 x == turns[t][n]
      <4>1. d \in Seq(Nat) /\ diskTurns'[t] = d \o <<x>>
        BY <1>5, <1>9, <2>3, <2>9, <3>10
      <4>2. diskTurns'[t] = Append(d, x)
        BY <3>9, <4>1, AppendIsConcat
      <4>3. /\ Len(Append(d, x)) = Len(d) + 1
            /\ \A m \in 1 .. Len(d) : Append(d, x)[m] = d[m]
            /\ Append(d, x)[Len(d) + 1] = x
        BY <3>9, <4>1, PutLast
      <4>4. \A m \in 1 .. Len(d) : d[m] = turns[t][m]
        BY <3>1 DEF Follows, Begins
      <4>5. n = Len(d) + 1
        BY DEF n
      <4>6. \A m \in 1 .. n : m \in 1 .. Len(d) \/ m = Len(d) + 1
        BY <1>5, <4>5
      <4> HIDE DEF d, x
      <4> QED BY <4>2, <4>3, <4>4, <4>5, <4>6 DEF x
    <3>12. Begins(diskTurns[t], turns[t])'
      BY <1>6, <3>10, <3>11 DEF Begins
    <3>13. OwedIsLacked(t, slot)'
      <4> SUFFICES ASSUME NEW j \in DOMAIN chains[t] \ {1}, Owes(t, j)
                   PROVE  /\ slot[j] \in n + 1 .. Len(turns[t])
                          /\ chains[t][j].turns = <<turns[t][slot[j]]>>
        BY <1>6, <2>4, <2>5, <3>4, <3>5, <3>11 DEF OwedIsLacked
      <4>1. /\ slot[j] \in Len(diskTurns[t]) + 1 .. Len(turns[t])
            /\ chains[t][j].turns = <<turns[t][slot[j]]>>
        BY <3>2 DEF Fits, OwedIsLacked
      <4>2. n < slot[j]
        BY <3>6, <3>8
      <4> QED BY <1>5, <3>10, <4>1, <4>2
    <3>14. LackedIsOwed(t, slot)'
      <4> SUFFICES ASSUME NEW m \in n + 1 .. Len(turns[t])
                   PROVE  \E j \in DOMAIN chains[t] \ {1} : Owes(t, j) /\ slot[j] = m
        BY <1>6, <2>4, <3>4, <3>11 DEF LackedIsOwed
      <4>1. m \in Len(diskTurns[t]) + 1 .. Len(turns[t]) /\ m # n
        BY <1>5, <3>10 DEF n
      <4>2. PICK j \in DOMAIN chains[t] : Owes(t, j) /\ slot[j] = m
        BY <1>8, <3>2, <4>1 DEF Fits, LackedIsOwed
      <4> QED BY <3>8, <4>1, <4>2
    <3>15. PaysInOrder(t, slot)'
      BY <2>4, <2>5, <3>2, <3>4, <3>5 DEF Fits, PaysInOrder, Sooner
    <3>16. RewriteDivides(t, slot)'
      BY <2>4, <2>5, <3>2, <3>4, <3>5 DEF Fits, RewriteDivides
    <3>17. Materializing(t)' <=> Materializing(t)
      BY <2>4, <2>5 DEF Materializing, Queued
    <3>18. RewriteFits(t)'
      <4> SUFFICES ASSUME NEW q \in DOMAIN chains[t], chains[t][q].kind = "rewrite"
                   PROVE  n <= Len(chains[t][q].turns) + 1 /\ chains'[t][q].stage # "done"
        BY <1>6, <2>4, <2>5, <3>1, <3>11, <3>17 DEF Follows, RewriteFits
      <4>1. q # 1
        BY <2>1
      <4>2. ~(1 > q)
        BY <1>5
      <4>3. ~(slot[1] > Len(chains[t][q].turns) + 1)
        BY <1>4, <3>2, <3>3, <4>2 DEF Fits, RewriteDivides
      <4>4. Len(chains[t][q].turns) \in Nat
        BY <1>5
      <4> QED BY <1>8, <2>4, <3>8, <3>10, <4>1, <4>3, <4>4
    <3>19. DeleteFits(t)'
      <4> SUFFICES ASSUME NEW j \in DOMAIN chains[t], chains[t][j].kind = "delete"
                   PROVE  FALSE
        BY <2>4, <2>5 DEF DeleteFits
      <4>1. j < 1
        BY <1>2, <1>4, <2>1 DEF DeletesAhead
      <4> QED BY <1>5, <4>1
    <3> QED BY <2>4, <3>12, <3>13, <3>14, <3>15, <3>16, <3>18, <3>19 DEF Follows, Fits
  <2> QED BY <2>6, <2>8, <2>9 DEF Prefixed
<1> QED BY <1>18, <1>12, <1>13, <1>14, <1>15, <1>16, <1>17, <1>19 DEF FileStep, FileFails

LEMMA PrefixReturn ==
    ASSUME PrefixInv, NEW t \in Threads,
           NEW i \in DOMAIN chains[t], Return(t, i)
    PROVE  Prefixed(t)'
<1>1. TypeOK /\ ShapeInv /\ Shape(t) /\ Headed(t) /\ Prefixed(t)
  BY DEF PrefixInv, HeadedInv, ShapeInv
<1>2. /\ FrontOnlyRuns(t) /\ HeldIsFile(t) /\ DraftIsUnwritten(t)
  BY <1>1 DEF Shape, Headed, Prefixed
<1>3. MayRun(t, i)
  BY DEF Return, Materialized, Appended, MetaWritten, Rewritten, Removed, GivesUp, At
<1>4. i = 1 /\ chains[t][1] \in Operation /\ 1 \in DOMAIN chains[t]
  BY <1>1, <1>3, FrontRuns
<1>5. /\ diskTurns \in [Threads -> Seq(Nat)] /\ turns \in [Threads -> Seq(Nat)]
      /\ threads \in [Threads -> Meta \cup {None}] /\ flaws \in [Threads -> SUBSET Flaws]
      /\ Len(chains[t]) \in Nat /\ DOMAIN chains[t] = 1 .. Len(chains[t])
      /\ Len(diskTurns[t]) \in Nat /\ Len(turns[t]) \in Nat
      /\ \A j \in DOMAIN chains[t] : chains[t][j].turns \in Seq(Nat)
                                   /\ Len(chains[t][j].turns) \in Nat
  BY <1>1, Places, LenProperties DEF TypeOK, Operation
<1> DEFINE op == chains[t][1]
\* The others move up, and none of them has got anywhere.
<1>6. ASSUME Leave(t, 1)
      PROVE  /\ \A j \in DOMAIN chains'[t] :
                   /\ j \in Nat /\ j + 1 # 1 /\ j + 1 \in DOMAIN chains[t]
                   /\ chains'[t][j] = chains[t][j + 1]
                   /\ chains'[t][j].stage = "wait"
             /\ \A k \in DOMAIN chains[t] \ {1} :
                   k - 1 \in DOMAIN chains'[t] /\ (k - 1) + 1 = k
  <2>1. /\ DOMAIN chains'[t] = 1 .. Len(chains[t]) - 1
        /\ \A j \in DOMAIN chains'[t] : /\ chains'[t][j] = chains[t][j + 1]
                                       /\ j + 1 \in DOMAIN chains[t]
    BY <1>1, <1>3, <1>4, <1>6, Left
  <2>2. \A j \in DOMAIN chains'[t] : j \in Nat /\ j + 1 # 1
    BY <1>5, <2>1
  <2>3. \A j \in DOMAIN chains'[t] : chains'[t][j].stage = "wait"
    BY <1>2, <2>1, <2>2 DEF FrontOnlyRuns
  <2>4. \A k \in DOMAIN chains[t] \ {1} :
           k - 1 \in DOMAIN chains'[t] /\ (k - 1) + 1 = k
    BY <1>5, <2>1
  <2> QED BY <2>1, <2>2, <2>3, <2>4
\* The operation that leaves owes nothing, and takes nothing with it.
<1>7. ASSUME Leave(t, 1), op.kind \in {"append", "meta"}, op.stage = "done",
             UNCHANGED <<threads, turns, draftIds, diskTurns, flaws>>
      PROVE  Prefixed(t)'
  <2>1. /\ \A j \in DOMAIN chains'[t] :
              /\ j \in Nat /\ j + 1 # 1 /\ j + 1 \in DOMAIN chains[t]
              /\ chains'[t][j] = chains[t][j + 1]
              /\ chains'[t][j].stage = "wait"
        /\ \A k \in DOMAIN chains[t] \ {1} :
              k - 1 \in DOMAIN chains'[t] /\ (k - 1) + 1 = k
    BY <1>6, <1>7
  <2>2. HeldIsFile(t)' /\ DraftIsUnwritten(t)'
    BY <1>2, <1>7, <2>1 DEF HeldIsFile, DraftIsUnwritten
  <2>3. \A j \in DOMAIN chains'[t] : Owes(t, j)' <=> Owes(t, j + 1)
    BY <1>2, <2>1 DEF Owes, FrontOnlyRuns
  <2>4. ~Owes(t, 1)
    BY <1>7 DEF Owes
  <2>5. \A j, k \in DOMAIN chains'[t] : Sooner(t, j, k)' => Sooner(t, j + 1, k + 1)
    BY <2>1 DEF Sooner
  <2>6. Materializing(t)' => Materializing(t)
    BY <1>1, <1>3, <1>4, <1>7, QueuedLess DEF Materializing, Kinds
  <2>7. ASSUME Sound(t)' PROVE Follows(t)'
    <3>1. Follows(t)
      BY <1>1, <1>7, <2>7 DEF Prefixed, Sound
    <3>2. PICK old \in [DOMAIN chains[t] -> Nat] : Fits(t, old)
      BY <3>1 DEF Follows
    <3>3. PICK slot \in [DOMAIN chains'[t] -> Nat] :
             \A j \in DOMAIN chains'[t] : slot[j] = old[j + 1]
      <4> DEFINE next == [j \in DOMAIN chains'[t] |-> old[j + 1]]
      <4>1. next \in [DOMAIN chains'[t] -> Nat]
        BY <2>1
      <4> QED BY <4>1
    <3>4. OwedIsLacked(t, slot)'
      BY <1>7, <2>1, <2>3, <3>2, <3>3 DEF Fits, OwedIsLacked
    <3>5. LackedIsOwed(t, slot)'
      <4> SUFFICES ASSUME NEW n \in Len(diskTurns[t]) + 1 .. Len(turns[t])
                   PROVE  \E j \in DOMAIN chains'[t] : Owes(t, j)' /\ slot[j] = n
        BY <1>7 DEF LackedIsOwed
      <4>1. \A k \in DOMAIN chains[t] :
               chains[t][k].kind = "rewrite" => chains[t][k].stage # "done"
        BY <1>2, <1>7 DEF FrontOnlyRuns
      <4>2. PICK k \in DOMAIN chains[t] : Owes(t, k) /\ old[k] = n
        BY <3>2, <4>1 DEF Fits, LackedIsOwed
      <4>3. k # 1
        BY <2>4, <4>2
      <4>4. k - 1 \in DOMAIN chains'[t] /\ (k - 1) + 1 = k
        BY <2>1, <4>3
      <4>5. Owes(t, k - 1)' /\ slot[k - 1] = n
        BY <2>3, <3>3, <4>2, <4>4
      <4> QED BY <4>4, <4>5
    <3>6. PaysInOrder(t, slot)'
      <4> SUFFICES ASSUME NEW j \in DOMAIN chains'[t], NEW k \in DOMAIN chains'[t],
                          Owes(t, j)', Owes(t, k)', Sooner(t, j, k)'
                   PROVE  slot[j] < slot[k]
        BY DEF PaysInOrder
      <4>1. Owes(t, j + 1) /\ Owes(t, k + 1) /\ Sooner(t, j + 1, k + 1)
        BY <2>3, <2>5
      <4>2. old[j + 1] < old[k + 1]
        BY <2>1, <3>2, <4>1 DEF Fits, PaysInOrder
      <4> QED BY <3>3, <4>2
    <3>7. RewriteDivides(t, slot)'
      <4> SUFFICES ASSUME NEW q \in DOMAIN chains'[t], NEW j \in DOMAIN chains'[t],
                          chains'[t][q].kind = "rewrite", Owes(t, j)'
                   PROVE  j > q <=> slot[j] > Len(chains'[t][q].turns) + 1
        BY DEF RewriteDivides
      <4>1. chains[t][q + 1].kind = "rewrite" /\ Owes(t, j + 1)
        BY <2>1, <2>3
      <4>2. j + 1 > q + 1 <=> old[j + 1] > Len(chains[t][q + 1].turns) + 1
        BY <2>1, <3>2, <4>1 DEF Fits, RewriteDivides
      <4>3. j > q <=> j + 1 > q + 1
        BY <2>1
      <4> QED BY <2>1, <3>3, <4>2, <4>3
    <3>8. RewriteFits(t)'
      <4> SUFFICES ASSUME NEW q \in DOMAIN chains'[t], chains'[t][q].kind = "rewrite"
                   PROVE  /\ Begins(chains'[t][q].turns, turns[t])
                          /\ Len(chains'[t][q].turns) < Len(turns[t])
                          /\ Len(diskTurns[t]) <= Len(chains'[t][q].turns) + 1
                          /\ ~Materializing(t)
                          /\ \A p \in DOMAIN chains'[t] :
                                chains'[t][p].kind = "rewrite" => p = q
        BY <1>7, <2>1, <2>6 DEF RewriteFits
      <4>1. /\ Begins(chains[t][q + 1].turns, turns[t])
            /\ Len(chains[t][q + 1].turns) < Len(turns[t])
            /\ Len(diskTurns[t]) <= Len(chains[t][q + 1].turns) + 1
            /\ ~Materializing(t)
            /\ \A p \in DOMAIN chains[t] : chains[t][p].kind = "rewrite" => p = q + 1
        BY <2>1, <3>1 DEF Follows, RewriteFits
      <4>2. ASSUME NEW p \in DOMAIN chains'[t], chains'[t][p].kind = "rewrite"
            PROVE  p = q
        <5>1. p + 1 = q + 1
          BY <2>1, <4>1, <4>2
        <5> QED BY <2>1, <5>1
      <4> QED BY <2>1, <4>1, <4>2
    <3>9. DeleteFits(t)'
      <4> SUFFICES ASSUME NEW j \in DOMAIN chains'[t], chains'[t][j].kind = "delete"
                   PROVE  /\ diskTurns[t] = <<>>
                          /\ \A k \in DOMAIN chains'[t] :
                                chains'[t][k].kind = "rewrite" => j < k
        BY <1>7 DEF DeleteFits
      <4>1. /\ diskTurns[t] = <<>>
            /\ \A k \in DOMAIN chains[t] : chains[t][k].kind = "rewrite" => j + 1 < k
        BY <2>1, <3>1 DEF Follows, DeleteFits
      <4>2. ASSUME NEW k \in DOMAIN chains'[t], chains'[t][k].kind = "rewrite"
            PROVE  j < k
        <5>1. j + 1 < k + 1
          BY <2>1, <4>1, <4>2
        <5> QED BY <2>1, <5>1
      <4> QED BY <4>1, <4>2
    <3>10. Begins(diskTurns[t], turns[t])'
      BY <1>7, <3>1 DEF Follows
    <3> QED BY <3>3, <3>4, <3>5, <3>6, <3>7, <3>8, <3>9, <3>10 DEF Follows, Fits
  <2> QED BY <2>2, <2>7 DEF Prefixed
<1>8. CASE Appended(t, i)
  BY <1>4, <1>7, <1>8 DEF Appended, At, memVars, diskVars
<1>9. CASE MetaWritten(t, i)
  BY <1>4, <1>7, <1>9 DEF MetaWritten, At, memVars, diskVars
<1>10. CASE Removed(t, i)
  <2>1. Leave(t, 1) /\ threads'[t] = None /\ t \notin draftIds'
    BY <1>4, <1>5, <1>10 DEF Removed
  <2>2. HeldIsFile(t)'
    BY <1>6, <2>1 DEF HeldIsFile
  <2> QED BY <2>1, <2>2 DEF Prefixed, DraftIsUnwritten, Sound
<1>11. CASE GivesUp(t, i)
  <2>1. Leave(t, 1) /\ "failed" \in flaws'[t]
    BY <1>4, <1>5, <1>11 DEF GivesUp, Flaw
  <2>2. HeldIsFile(t)'
    BY <1>6, <2>1 DEF HeldIsFile
  <2> QED BY <2>1, <2>2 DEF Prefixed, DraftIsUnwritten, Sound
\* A rewrite that nothing has followed leaves both the same.
<1>12. CASE Rewritten(t, i)
  <2>1. /\ Leave(t, 1) /\ op.kind = "rewrite" /\ op.stage = "done"
        /\ turns'[t] = op.turns
        /\ Flaw(t, IF Len(turns[t]) > Len(op.turns) + 1 THEN {"wiped"} ELSE {})
        /\ UNCHANGED <<threads, draftIds, diskTurns>>
    BY <1>4, <1>5, <1>12 DEF Rewritten, At, diskVars
  <2>2. /\ \A j \in DOMAIN chains'[t] :
              /\ j \in Nat /\ j + 1 # 1 /\ j + 1 \in DOMAIN chains[t]
              /\ chains'[t][j] = chains[t][j + 1]
              /\ chains'[t][j].stage = "wait"
    BY <1>6, <2>1
  <2>3. /\ flaws[t] \subseteq flaws'[t]
        /\ "wiped" \notin flaws'[t] => ~(Len(turns[t]) > Len(op.turns) + 1)
    BY <1>5, <2>1 DEF Flaw
  <2>4. HeldIsFile(t)' /\ DraftIsUnwritten(t)'
    BY <1>2, <2>1, <2>2, <2>3 DEF HeldIsFile, DraftIsUnwritten
  <2>5. ASSUME Sound(t)' PROVE Follows(t)'
    <3>1. Follows(t) /\ Len(turns[t]) <= Len(op.turns) + 1
      <4>1. Sound(t) /\ ~(Len(turns[t]) > Len(op.turns) + 1)
        BY <2>1, <2>3, <2>5 DEF Sound
      <4>2. Len(op.turns) \in Nat
        BY <1>4, <1>5
      <4> QED BY <1>1, <1>5, <4>1, <4>2 DEF Prefixed
    <3>2. PICK old \in [DOMAIN chains[t] -> Nat] : Fits(t, old)
      BY <3>1 DEF Follows
    <3>3. /\ diskTurns[t] = op.turns
          /\ \A p \in DOMAIN chains[t] : chains[t][p].kind = "rewrite" => p = 1
      BY <1>4, <2>1, <3>1 DEF Follows, RewriteFits
    <3>4. ASSUME NEW k \in DOMAIN chains[t] \ {1} PROVE ~Owes(t, k)
      <4> SUFFICES ASSUME Owes(t, k) PROVE FALSE
        OBVIOUS
      <4>1. k > 1
        BY <1>5
      <4>2. old[k] > Len(op.turns) + 1
        BY <1>4, <2>1, <3>2, <4>1 DEF Fits, RewriteDivides
      <4>3. old[k] <= Len(turns[t])
        BY <1>5, <3>2 DEF Fits, OwedIsLacked
      <4>4. Len(op.turns) \in Nat /\ old[k] \in Nat
        BY <1>4, <1>5
      <4> QED BY <1>5, <3>1, <4>2, <4>3, <4>4
    <3>5. \A j \in DOMAIN chains'[t] : ~Owes(t, j)' /\ chains'[t][j].kind # "rewrite"
      <4> SUFFICES ASSUME NEW j \in DOMAIN chains'[t]
                   PROVE  ~Owes(t, j)' /\ chains'[t][j].kind # "rewrite"
        OBVIOUS
      <4>1. ~Owes(t, j + 1) /\ chains[t][j + 1].kind # "rewrite"
        BY <2>2, <3>3, <3>4
      <4> QED BY <2>2, <4>1 DEF Owes
    <3>6. \A j \in DOMAIN chains'[t] : chains'[t][j].kind # "delete"
      <4> SUFFICES ASSUME NEW j \in DOMAIN chains'[t], chains'[t][j].kind = "delete"
                   PROVE  FALSE
        OBVIOUS
      <4>1. j + 1 < 1
        BY <1>4, <2>1, <2>2, <3>1 DEF Follows, DeleteFits
      <4> QED BY <2>2, <4>1
    <3>7. diskTurns'[t] = turns'[t] /\ Len(turns'[t]) \in Nat
      BY <1>4, <1>5, <2>1, <3>3
    <3>8. \E slot \in [DOMAIN chains'[t] -> Nat] : Fits(t, slot)'
      <4>1. PICK slot : slot \in [DOMAIN chains'[t] -> Nat]
        <5>1. [j \in DOMAIN chains'[t] |-> 0] \in [DOMAIN chains'[t] -> Nat]
          OBVIOUS
        <5> QED BY <5>1
      <4>2. Fits(t, slot)'
        BY <3>5, <3>7 DEF Fits, OwedIsLacked, LackedIsOwed, PaysInOrder, RewriteDivides
      <4> QED BY <4>1, <4>2
    <3>9. Begins(diskTurns[t], turns[t])'
      BY <3>7 DEF Begins
    <3>10. RewriteFits(t)' /\ DeleteFits(t)'
      BY <3>5, <3>6 DEF RewriteFits, DeleteFits
    <3> QED BY <3>8, <3>9, <3>10 DEF Follows
  <2> QED BY <2>4, <2>5 DEF Prefixed
\* The turn of a first turn joins the end of the queue.
<1>13. CASE Materialized(t, i)
  <2> PICK n : n = Len(chains[t])
    OBVIOUS
  <2>1. /\ UNCHANGED <<threads, turns, diskTurns, flaws>> /\ draftIds' = draftIds \ {t}
        /\ op.kind = "first" /\ op.stage = "done"
    BY <1>4, <1>13 DEF Materialized, At, diskVars
  <2>2. /\ n \in Nat \ {0}
        /\ DOMAIN chains'[t] = DOMAIN chains[t]
        /\ chains'[t][n] = Op("append", None, op.turns)
        /\ \A j \in DOMAIN chains[t] \ {n} :
               chains'[t][j] = chains[t][j + 1] /\ j + 1 \in DOMAIN chains[t]
    BY <1>1, <1>4, <1>13, MaterializedMoves
  <2>3. /\ chains'[t][n].kind = "append" /\ chains'[t][n].stage = "wait"
        /\ chains'[t][n].turns = op.turns
    BY <2>2 DEF Op
  <2>4. DOMAIN chains[t] = 1 .. n
    BY <1>5
  <2>5. /\ n \in DOMAIN chains[t]
        /\ \A j \in DOMAIN chains[t] : j \in Nat /\ j + 1 # 1
        /\ \A j \in DOMAIN chains[t] : j # n => j < n
        /\ \A k \in DOMAIN chains[t] \ {1} :
              k - 1 \in DOMAIN chains[t] \ {n} /\ (k - 1) + 1 = k
    BY <2>2, <2>4
  <2>6. ASSUME NEW j \in DOMAIN chains[t] PROVE chains'[t][j].stage = "wait"
    <3>1. CASE j = n
      BY <2>3, <3>1
    <3>2. CASE j # n
      <4>1. chains'[t][j] = chains[t][j + 1] /\ j + 1 \in DOMAIN chains[t] /\ j + 1 # 1
        BY <2>2, <2>5, <3>2
      <4> QED BY <1>2, <4>1 DEF FrontOnlyRuns
    <3> QED BY <3>1, <3>2
  <2>7. HeldIsFile(t)' /\ DraftIsUnwritten(t)'
    BY <2>1, <2>2, <2>6 DEF HeldIsFile, DraftIsUnwritten
  <2>8. \A j \in DOMAIN chains[t] \ {n} : Owes(t, j)' <=> Owes(t, j + 1)
    BY <1>2, <2>2, <2>5, <2>6 DEF Owes, FrontOnlyRuns
  <2>9. Owes(t, n)' /\ Owes(t, 1)
    BY <2>1, <2>3 DEF Owes
  <2>10. ASSUME Sound(t)' PROVE Follows(t)'
    <3>1. Follows(t)
      BY <1>1, <2>1, <2>10 DEF Prefixed, Sound
    <3>2. PICK old \in [DOMAIN chains[t] -> Nat] : Fits(t, old)
      BY <3>1 DEF Follows
    <3>3. PICK slot \in [DOMAIN chains'[t] -> Nat] :
             /\ slot[n] = old[1]
             /\ \A j \in DOMAIN chains[t] \ {n} : slot[j] = old[j + 1]
      <4> DEFINE next == [j \in DOMAIN chains[t] |->
                            IF j = n THEN old[1] ELSE old[j + 1]]
      <4>1. next \in [DOMAIN chains[t] -> Nat]
        BY <1>4, <2>2
      <4>2. next[n] = old[1] /\ \A j \in DOMAIN chains[t] \ {n} : next[j] = old[j + 1]
        BY <2>5
      <4> HIDE DEF next
      <4> QED BY <2>2, <4>1, <4>2
    <3>4. Materializing(t)
      BY <1>4, <2>1 DEF Materializing, Queued
    <3>5. \A k \in DOMAIN chains[t] : chains[t][k].kind # "rewrite"
      BY <3>1, <3>4 DEF Follows, RewriteFits
    <3>6. \A j \in DOMAIN chains'[t] : chains'[t][j].kind # "rewrite"
      BY <2>2, <2>3, <3>5
    <3>7. OwedIsLacked(t, slot)'
      <4> SUFFICES ASSUME NEW j \in DOMAIN chains[t], Owes(t, j)'
                   PROVE  /\ slot[j] \in Len(diskTurns[t]) + 1 .. Len(turns[t])
                          /\ chains'[t][j].turns = <<turns[t][slot[j]]>>
        BY <2>1, <2>2 DEF OwedIsLacked
      <4>1. CASE j = n
        <5>1. /\ old[1] \in Len(diskTurns[t]) + 1 .. Len(turns[t])
              /\ op.turns = <<turns[t][old[1]]>>
          BY <1>4, <2>9, <3>2 DEF Fits, OwedIsLacked
        <5> QED BY <2>3, <3>3, <4>1, <5>1
      <4>2. CASE j # n
        <5>1. /\ old[j + 1] \in Len(diskTurns[t]) + 1 .. Len(turns[t])
              /\ chains[t][j + 1].turns = <<turns[t][old[j + 1]]>>
          BY <2>2, <2>8, <3>2, <4>2 DEF Fits, OwedIsLacked
        <5> QED BY <2>2, <3>3, <4>2, <5>1
      <4> QED BY <4>1, <4>2
    <3>8. LackedIsOwed(t, slot)'
      <4> SUFFICES ASSUME NEW m \in Len(diskTurns[t]) + 1 .. Len(turns[t])
                   PROVE  \E j \in DOMAIN chains[t] : Owes(t, j)' /\ slot[j] = m
        BY <2>1, <2>2 DEF LackedIsOwed
      <4>1. PICK k \in DOMAIN chains[t] : Owes(t, k) /\ old[k] = m
        BY <3>2, <3>5 DEF Fits, LackedIsOwed
      <4>2. CASE k = 1
        BY <2>5, <2>9, <3>3, <4>1, <4>2
      <4>3. CASE k # 1
        <5>1. k - 1 \in DOMAIN chains[t] \ {n} /\ (k - 1) + 1 = k
          BY <2>5, <4>3
        <5>2. Owes(t, k - 1)' /\ slot[k - 1] = m
          BY <2>8, <3>3, <4>1, <5>1
        <5> QED BY <5>1, <5>2
      <4> QED BY <4>2, <4>3
    <3>9. PaysInOrder(t, slot)'
      <4> SUFFICES ASSUME NEW j \in DOMAIN chains[t], NEW k \in DOMAIN chains[t],
                          Owes(t, j)', Owes(t, k)', Sooner(t, j, k)'
                   PROVE  slot[j] < slot[k]
        BY <2>2 DEF PaysInOrder
      <4>1. \/ chains'[t][j].kind = "append" /\ chains'[t][k].kind = "first"
            \/ chains'[t][j].kind = chains'[t][k].kind /\ j < k
        BY DEF Sooner
      <4>2. j \in Nat /\ k \in Nat /\ (j # n => j < n) /\ (k # n => k < n)
        BY <2>5
      <4>3. CASE j # n /\ k # n
        <5>1. Owes(t, j + 1) /\ Owes(t, k + 1)
          BY <2>8, <4>3
        <5>2. Sooner(t, j + 1, k + 1)
          <6>1. chains'[t][j] = chains[t][j + 1] /\ chains'[t][k] = chains[t][k + 1]
            BY <2>2, <4>3
          <6>2. j < k => j + 1 < k + 1
            BY <4>2
          <6> QED BY <4>1, <6>1, <6>2 DEF Sooner
        <5>3. old[j + 1] < old[k + 1]
          BY <2>2, <3>2, <4>3, <5>1, <5>2 DEF Fits, PaysInOrder
        <5> QED BY <3>3, <4>3, <5>3
      <4>4. CASE j = n
        <5>1. k # n /\ chains'[t][k].kind = "first"
          BY <2>3, <4>4, <4>1, <4>2
        <5>2. chains'[t][k] = chains[t][k + 1] /\ k + 1 \in DOMAIN chains[t]
          BY <2>2, <5>1
        <5>3. chains[t][k + 1].kind = "first" /\ k + 1 \in DOMAIN chains[t] /\ 1 < k + 1
          <6>1. k \in 1 .. n
            BY <2>4
          <6> QED BY <5>1, <5>2, <6>1
        <5>4. Sooner(t, 1, k + 1) /\ Owes(t, k + 1)
          BY <2>1, <5>3 DEF Sooner, Owes
        <5>5. old[1] < old[k + 1]
          BY <1>4, <2>9, <3>2, <5>3, <5>4 DEF Fits, PaysInOrder
        <5> QED BY <3>3, <4>4, <5>1, <5>5
      <4>5. CASE j # n /\ k = n
        <5>1. chains'[t][j].kind = "append"
          BY <2>3, <4>5 DEF Sooner
        <5>2. chains[t][j + 1].kind = "append" /\ j + 1 \in DOMAIN chains[t]
          BY <2>2, <4>5, <5>1
        <5>3. Sooner(t, j + 1, 1) /\ Owes(t, j + 1)
          BY <2>1, <2>8, <4>5, <5>2 DEF Sooner
        <5>4. old[j + 1] < old[1]
          BY <1>4, <2>9, <3>2, <5>2, <5>3 DEF Fits, PaysInOrder
        <5> QED BY <3>3, <4>5, <5>4
      <4> QED BY <4>3, <4>4, <4>5
    <3>10. RewriteDivides(t, slot)' /\ RewriteFits(t)'
      BY <3>6 DEF RewriteDivides, RewriteFits
    <3>11. DeleteFits(t)'
      <4> SUFFICES ASSUME NEW j \in DOMAIN chains[t], chains'[t][j].kind = "delete"
                   PROVE  diskTurns[t] = <<>>
        BY <2>1, <2>2, <3>6 DEF DeleteFits
      <4>1. j # n
        BY <2>3
      <4> QED BY <2>2, <3>1, <4>1 DEF Follows, DeleteFits
    <3>12. Begins(diskTurns[t], turns[t])'
      BY <2>1, <3>1 DEF Follows
    <3> QED BY <3>3, <3>7, <3>8, <3>9, <3>10, <3>11, <3>12 DEF Follows, Fits
  <2> QED BY <2>7, <2>10 DEF Prefixed
<1> QED BY <1>8, <1>9, <1>10, <1>11, <1>12, <1>13 DEF Return

(* An operation that joins the queue.                                      *)

LEMMA OwesMore ==
    ASSUME TypeOK, NEW t \in Threads, NEW op \in Operation, Enqueue(t, op)
    PROVE  /\ \A j \in DOMAIN chains[t] : Owes(t, j)' <=> Owes(t, j)
           /\ \A j, k \in DOMAIN chains[t] : Sooner(t, j, k)' <=> Sooner(t, j, k)
<1>1. \A j \in DOMAIN chains[t] : chains'[t][j] = chains[t][j]
  BY Enqueued
<1> QED BY <1>1 DEF Owes, Sooner

LEMMA PrefixUserStep ==
    ASSUME PrefixInv, NEW t \in Threads,
           \/ CreateThread(t) \/ ArchiveThread(t) \/ RestoreThread(t)
           \/ Patch(t) \/ RemoveTurn(t) \/ AppendTurn(t)
    PROVE  Prefixed(t)'
<1>1. TypeOK /\ ShapeInv /\ Shape(t) /\ Headed(t) /\ Prefixed(t)
  BY DEF PrefixInv, HeadedInv, ShapeInv
<1>2. /\ NewIsBlank(t) /\ DraftIsNotRewritten(t)
      /\ HeldIsFile(t) /\ DraftIsUnwritten(t)
  BY <1>1 DEF Shape, Headed, Prefixed
<1>3. /\ diskTurns \in [Threads -> Seq(Nat)] /\ turns \in [Threads -> Seq(Nat)]
      /\ threads \in [Threads -> Meta \cup {None}] /\ flaws \in [Threads -> SUBSET Flaws]
      /\ Len(chains[t]) \in Nat /\ DOMAIN chains[t] = 1 .. Len(chains[t])
      /\ Len(diskTurns[t]) \in Nat /\ Len(turns[t]) \in Nat /\ said \in Nat
      /\ \A j \in DOMAIN chains[t] : chains[t][j].turns \in Seq(Nat)
                                   /\ Len(chains[t][j].turns) \in Nat
  BY <1>1, Places, LenProperties DEF TypeOK, Operation
<1>4. <<>> \in Seq(Nat) /\ None \in Meta \cup {None}
  BY EmptySeq
<1> DEFINE new == Len(chains[t]) + 1
<1>5. /\ new \in Nat /\ new \notin DOMAIN chains[t]
      /\ \A j \in DOMAIN chains[t] : j \in Nat /\ j < new
  BY <1>3
\* No operation joins the queue.
<1>6. ASSUME UNCHANGED <<turns, diskTurns, chains>>
      PROVE  HeldIsFile(t)' /\ (Follows(t) => Follows(t)')
  BY <1>2, <1>6 DEF HeldIsFile, Follows, Fits, OwedIsLacked, LackedIsOwed, PaysInOrder,
       RewriteDivides, RewriteFits, DeleteFits, Owes, Sooner, Materializing, Queued
\* What every operation that joins the queue leaves as it was.
<1>7. ASSUME NEW op \in Operation, op.stage = "wait", Enqueue(t, op),
             UNCHANGED <<diskTurns>>
      PROVE  /\ HeldIsFile(t)'
             /\ DOMAIN chains'[t] = DOMAIN chains[t] \cup {new}
             /\ chains'[t][new] = op
             /\ \A j \in DOMAIN chains[t] : chains'[t][j] = chains[t][j]
  <2>1. /\ DOMAIN chains'[t] = DOMAIN chains[t] \cup {new}
        /\ chains'[t][new] = op
        /\ \A j \in DOMAIN chains[t] : chains'[t][j] = chains[t][j]
    BY <1>1, <1>7, Enqueued
  <2>2. HeldIsFile(t)'
    BY <1>2, <1>7, <2>1 DEF HeldIsFile
  <2> QED BY <2>1, <2>2
\* An operation that owes nothing joins the queue.
<1>8. ASSUME NEW op \in Operation, op.stage = "wait", Enqueue(t, op),
             op.kind \in {"meta", "delete", "rewrite"},
             UNCHANGED <<turns, diskTurns>>, Follows(t),
             op.kind = "delete" => diskTurns[t] = <<>> /\ ~Queued(t, "rewrite"),
             op.kind = "rewrite" =>
                /\ turns[t] # <<>> /\ op.turns = Front(turns[t])
                /\ ~Materializing(t) /\ ~Queued(t, "rewrite")
      PROVE  Follows(t)'
  <2>1. PICK m : m = new
    OBVIOUS
  <2>2. /\ DOMAIN chains'[t] = DOMAIN chains[t] \cup {m}
        /\ chains'[t][m] = op
        /\ \A j \in DOMAIN chains[t] : chains'[t][j] = chains[t][j]
    BY <1>7, <1>8, <2>1
  <2>3. ~Owes(t, m)'
    BY <1>8, <2>2 DEF Owes
  <2>4. /\ m \in Nat /\ m \notin DOMAIN chains[t]
        /\ \A j \in DOMAIN chains[t] : j \in Nat /\ j < m /\ ~(j > m)
    BY <1>5, <2>1
  <2>5. /\ \A j \in DOMAIN chains[t] : Owes(t, j)' <=> Owes(t, j)
        /\ \A j, k \in DOMAIN chains[t] : Sooner(t, j, k)' <=> Sooner(t, j, k)
    BY <1>1, <1>8, OwesMore
  <2>6. Materializing(t)' <=> Materializing(t)
    BY <1>1, <1>8, QueuedMore DEF Materializing, Kinds
  <2>7. op.kind = "rewrite" =>
          /\ Begins(op.turns, turns[t]) /\ Len(op.turns) + 1 = Len(turns[t])
          /\ Len(op.turns) \in Nat
    <3> SUFFICES ASSUME op.kind = "rewrite"
                 PROVE  /\ Begins(op.turns, turns[t]) /\ Len(op.turns) + 1 = Len(turns[t])
                        /\ Len(op.turns) \in Nat
      OBVIOUS
    <3>1. /\ op.turns = Front(turns[t]) /\ turns[t] # <<>> /\ turns[t] \in Seq(Nat)
      BY <1>3, <1>8
    <3>2. /\ Len(op.turns) = Len(turns[t]) - 1 /\ op.turns \in Seq(Nat)
          /\ \A k \in 1 .. Len(turns[t]) - 1 : op.turns[k] = turns[t][k]
      BY <3>1, FrontIsShorter
    <3>3. Len(op.turns) \in Nat
      BY <3>2, LenProperties
    <3> QED BY <1>3, <3>2, <3>3 DEF Begins
  <2>8. PICK old \in [DOMAIN chains[t] -> Nat] : Fits(t, old)
    BY <1>8 DEF Follows
  <2>9. PICK slot \in [DOMAIN chains'[t] -> Nat] :
           \A j \in DOMAIN chains[t] : slot[j] = old[j]
    <3> DEFINE next == [j \in DOMAIN chains[t] \cup {m} |-> IF j = m THEN 0 ELSE old[j]]
    <3>1. /\ next \in [DOMAIN chains[t] \cup {m} -> Nat]
          /\ \A j \in DOMAIN chains[t] : next[j] = old[j]
      BY <2>4
    <3> HIDE DEF next
    <3> QED BY <2>2, <3>1
  <2>10. OwedIsLacked(t, slot)'
    BY <1>8, <2>2, <2>3, <2>5, <2>8, <2>9 DEF Fits, OwedIsLacked
  <2>11. LackedIsOwed(t, slot)'
    <3> SUFFICES ASSUME NEW n \in Len(diskTurns[t]) + 1 .. Len(turns[t])
                 PROVE  \/ \E j \in DOMAIN chains[t] : Owes(t, j) /\ old[j] = n
                        \/ \E j \in DOMAIN chains[t] :
                              /\ chains[t][j].kind = "rewrite"
                              /\ chains[t][j].stage = "done"
                              /\ n = Len(chains[t][j].turns) + 1
      BY <1>8, <2>2, <2>5, <2>9 DEF LackedIsOwed
    <3> QED BY <2>8 DEF Fits, LackedIsOwed
  <2>12. PaysInOrder(t, slot)'
    BY <2>2, <2>3, <2>5, <2>8, <2>9 DEF Fits, PaysInOrder
  <2>13. RewriteDivides(t, slot)'
    <3> SUFFICES ASSUME NEW q \in DOMAIN chains'[t], NEW j \in DOMAIN chains[t],
                        chains'[t][q].kind = "rewrite", Owes(t, j)
                 PROVE  j > q <=> old[j] > Len(chains'[t][q].turns) + 1
      BY <2>2, <2>3, <2>5, <2>9 DEF RewriteDivides
    <3>1. CASE q = m
      <4>1. old[j] \in Len(diskTurns[t]) + 1 .. Len(turns[t])
        BY <2>8 DEF Fits, OwedIsLacked
      <4>2. op.kind = "rewrite" /\ chains'[t][q].turns = op.turns
        BY <2>2, <3>1
      <4>3. ~(old[j] > Len(op.turns) + 1)
        BY <1>3, <2>7, <4>1, <4>2
      <4> QED BY <2>4, <3>1, <4>2, <4>3
    <3>2. CASE q # m
      BY <2>2, <2>8, <3>2 DEF Fits, RewriteDivides
    <3> QED BY <3>1, <3>2
  <2>14. RewriteFits(t)'
    <3> SUFFICES ASSUME NEW q \in DOMAIN chains'[t], chains'[t][q].kind = "rewrite"
                 PROVE  /\ Begins(chains'[t][q].turns, turns[t])
                        /\ Len(chains'[t][q].turns) < Len(turns[t])
                        /\ Len(diskTurns[t]) <= Len(chains'[t][q].turns) + 1
                        /\ chains'[t][q].stage = "done" => diskTurns[t] = chains'[t][q].turns
                        /\ ~Materializing(t)
                        /\ \A p \in DOMAIN chains'[t] :
                              chains'[t][p].kind = "rewrite" => p = q
      BY <1>8, <2>6 DEF RewriteFits
    <3>1. CASE q = m
      <4>1. op.kind = "rewrite" /\ chains'[t][q] = op
        BY <2>2, <3>1
      <4>2. \A p \in DOMAIN chains[t] : chains[t][p].kind # "rewrite"
        BY <1>8, <4>1 DEF Queued
      <4>3. \A p \in DOMAIN chains'[t] : chains'[t][p].kind = "rewrite" => p = q
        BY <2>2, <3>1, <4>2
      <4>4. Len(diskTurns[t]) <= Len(turns[t])
        BY <1>8 DEF Follows, Begins
      <4>5. /\ Begins(op.turns, turns[t]) /\ Len(op.turns) < Len(turns[t])
            /\ Len(diskTurns[t]) <= Len(op.turns) + 1
        BY <1>3, <2>7, <4>1, <4>4
      <4> QED BY <1>8, <4>1, <4>3, <4>5
    <3>2. CASE q # m
      <4>1. q \in DOMAIN chains[t] /\ chains'[t][q] = chains[t][q]
        BY <2>2, <3>2
      <4>2. op.kind # "rewrite"
        BY <1>8, <4>1 DEF Queued
      <4>3. \A p \in DOMAIN chains'[t] : chains'[t][p].kind = "rewrite" =>
               p \in DOMAIN chains[t] /\ chains[t][p].kind = "rewrite"
        BY <2>2, <4>2
      <4> QED BY <1>8, <4>1, <4>3 DEF Follows, RewriteFits
    <3> QED BY <3>1, <3>2
  <2>15. DeleteFits(t)'
    <3> SUFFICES ASSUME NEW j \in DOMAIN chains'[t], chains'[t][j].kind = "delete"
                 PROVE  /\ diskTurns[t] = <<>>
                        /\ \A k \in DOMAIN chains'[t] :
                              chains'[t][k].kind = "rewrite" => j < k
      BY <1>8 DEF DeleteFits
    <3>1. CASE j = m
      <4>1. op.kind = "delete"
        BY <2>2, <3>1
      <4>2. \A k \in DOMAIN chains'[t] : chains'[t][k].kind # "rewrite"
        BY <1>8, <2>2, <4>1 DEF Queued
      <4> QED BY <1>8, <4>1, <4>2
    <3>2. CASE j # m
      BY <1>8, <2>2, <2>4, <3>2 DEF Follows, DeleteFits
    <3> QED BY <3>1, <3>2
  <2>16. Begins(diskTurns[t], turns[t])'
    BY <1>8 DEF Follows
  <2> QED BY <2>9, <2>10, <2>11, <2>12, <2>13, <2>14, <2>15, <2>16 DEF Follows, Fits
<1>9. CASE CreateThread(t)
  <2>1. /\ UNCHANGED <<turns, diskTurns, chains>>
        /\ turns[t] = <<>> /\ chains[t] = <<>> /\ diskTurns[t] = <<>>
    BY <1>2, <1>9 DEF CreateThread, NewIsBlank, diskVars
  <2>2. Follows(t)
    BY <1>4, <2>1, EmptyFollows
  <2> QED BY <1>6, <2>1, <2>2 DEF Prefixed, DraftIsUnwritten
\* A patch of the meta record.
<1>10. ASSUME threads[t] # None, threads[t].version < MaxVersion,
              NEW archived \in BOOLEAN, UpdateMeta(t, Patched(t, archived)),
              UNCHANGED <<diskVars, faultVars, settled>>
       PROVE  Prefixed(t)'
  <2>1. threads[t] \in Meta
    BY <1>3, <1>10
  <2>2. Patched(t, archived) \in Meta
    BY <1>10, <2>1, ThreadsAssumption DEF Patched, Meta
  <2> DEFINE op == Op("meta", Patched(t, archived), <<>>)
  <2>3. op \in Operation
    BY <1>4, <2>2, OperationsAreTyped DEF Kinds
  <2>4. op.stage = "wait" /\ op.kind = "meta"
    BY DEF Op
  <2>5. UNCHANGED <<turns, draftIds, diskTurns>>
    BY <1>10 DEF UpdateMeta, diskVars
  <2>6. UNCHANGED chains \/ Enqueue(t, op)
    BY <1>10 DEF UpdateMeta
  <2>7. \A w \in {"failed", "wiped", "overtaken", "damaged"} :
              w \in flaws[t] => w \in flaws'[t]
    BY <1>3, <1>10 DEF UpdateMeta, Flaw
  <2> HIDE DEF op
  <2>8. Sound(t)' => Sound(t)
    BY <1>10, <2>7 DEF Sound
  <2>9. DraftIsUnwritten(t)'
    BY <1>2, <2>5, <2>7 DEF DraftIsUnwritten
  <2>10. HeldIsFile(t)'
    BY <1>6, <1>7, <2>3, <2>4, <2>5, <2>6
  <2>11. Follows(t) => Follows(t)'
    BY <1>6, <1>8, <2>3, <2>4, <2>5, <2>6
  <2> QED BY <1>1, <2>8, <2>9, <2>10, <2>11 DEF Prefixed
<1>11. CASE ArchiveThread(t)
  <2>1. threads[t] # None /\ threads[t].version < MaxVersion
    BY <1>11 DEF ArchiveThread, Active
  <2>2. CASE t \notin draftIds
    BY <1>10, <1>11, <2>1, <2>2 DEF ArchiveThread
  <2>3. CASE t \in draftIds
    <3> DEFINE op == Op("delete", None, <<>>)
    <3>1. op \in Operation
      BY <1>4, OperationsAreTyped DEF Kinds
    <3>2. op.stage = "wait" /\ op.kind = "delete"
      BY DEF Op
    <3>3. /\ Enqueue(t, op) /\ UNCHANGED <<threads, turns, draftIds, diskTurns>>
          /\ \A w \in Flaws : w \in flaws[t] => w \in flaws'[t]
      BY <1>3, <1>11, <2>3 DEF ArchiveThread, RemoveThread, memVars, diskVars, Flaw
    <3> HIDE DEF op
    <3>4. Sound(t)' => Sound(t)
      BY <3>3 DEF Sound, Flaws
    <3>5. DraftIsUnwritten(t)'
      BY <1>2, <3>3 DEF DraftIsUnwritten, Flaws
    <3>6. HeldIsFile(t)'
      BY <1>7, <3>1, <3>2, <3>3
    <3>7. Sound(t) => diskTurns[t] = <<>> /\ ~Queued(t, "rewrite")
      BY <1>2, <2>3 DEF Sound, DraftIsUnwritten, DraftIsNotRewritten
    <3>8. Sound(t) => Follows(t)'
      BY <1>1, <1>8, <3>1, <3>2, <3>3, <3>7 DEF Prefixed
    <3> QED BY <3>4, <3>5, <3>6, <3>8 DEF Prefixed
  <2> QED BY <2>2, <2>3
<1>12. CASE RestoreThread(t)
  BY <1>10, <1>12 DEF RestoreThread
<1>13. CASE Patch(t)
  <2>1. threads[t] \in Meta
    BY <1>3, <1>13 DEF Patch
  <2>2. threads[t].archived \in BOOLEAN
    BY <2>1 DEF Meta
  <2> QED BY <1>10, <1>13, <2>2 DEF Patch
<1>14. CASE RemoveTurn(t)
  <2> DEFINE op == Op("rewrite", None, Front(turns[t]))
  <2>1. Front(turns[t]) \in Seq(Nat)
    BY <1>3, <1>14, FrontIsShorter DEF RemoveTurn
  <2>2. op \in Operation
    BY <1>4, <2>1, OperationsAreTyped DEF Kinds
  <2>3. op.stage = "wait" /\ op.kind = "rewrite" /\ op.turns = Front(turns[t])
    BY DEF Op
  <2>4. /\ Enqueue(t, op) /\ UNCHANGED <<threads, turns, draftIds, diskTurns, flaws>>
        /\ turns[t] # <<>> /\ ~Materializing(t) /\ ~Queued(t, "rewrite")
    BY <1>14 DEF RemoveTurn, memVars, diskVars
  <2> HIDE DEF op
  <2>5. HeldIsFile(t)' /\ DraftIsUnwritten(t)'
    BY <1>2, <1>7, <2>2, <2>3, <2>4 DEF DraftIsUnwritten
  <2>6. Follows(t) => Follows(t)'
    BY <1>8, <2>2, <2>3, <2>4
  <2>7. Sound(t)' => Sound(t)
    BY <2>4 DEF Sound
  <2> QED BY <1>1, <2>5, <2>6, <2>7 DEF Prefixed
<1>15. CASE AppendTurn(t)
  <2> DEFINE op == IF t \in draftIds THEN Op("first", threads[t], <<said'>>)
                                     ELSE Op("append", None, <<said'>>)
  <2>1. PICK x \in Nat : x = said'
    BY <1>3, <1>15 DEF AppendTurn
  <2>2. /\ op \in Operation /\ op.stage = "wait" /\ op.turns = <<x>>
        /\ op.kind = IF t \in draftIds THEN "first" ELSE "append"
    <3>1. <<x>> \in Seq(Nat) /\ threads[t] \in Meta \cup {None}
      BY <1>3, SinglesAreTyped
    <3>2. op \in Operation
      BY <1>4, <2>1, <3>1, OperationsAreTyped DEF Kinds
    <3> QED BY <2>1, <3>2 DEF Op
  <2>3. /\ threads[t] # None /\ Enqueue(t, op)
        /\ turns'[t] = Append(turns[t], x)
        /\ UNCHANGED <<threads, draftIds, diskTurns>>
    BY <1>3, <1>15, <2>1 DEF AppendTurn, diskVars
  <2>4. /\ \A w \in {"failed", "wiped", "overtaken", "damaged"} :
              w \in flaws[t] => w \in flaws'[t]
        /\ t \notin draftIds /\ Materializing(t) => "overtaken" \in flaws'[t]
    BY <1>3, <1>15 DEF AppendTurn
  <2> HIDE DEF op
  <2>5. HeldIsFile(t)' /\ DraftIsUnwritten(t)'
    BY <1>2, <1>7, <2>2, <2>3, <2>4 DEF DraftIsUnwritten
  <2>6. ASSUME Sound(t)' PROVE Follows(t)'
    <3>1. Follows(t) /\ "failed" \notin flaws[t] /\ (t \in draftIds \/ ~Materializing(t))
      BY <1>1, <2>3, <2>4, <2>6 DEF Prefixed, Sound
    <3>2. PICK m : m = new
      OBVIOUS
    <3>3. /\ DOMAIN chains'[t] = DOMAIN chains[t] \cup {m}
          /\ chains'[t][m] = op /\ Owes(t, m)'
          /\ \A j \in DOMAIN chains[t] : chains'[t][j] = chains[t][j]
      <4>1. /\ DOMAIN chains'[t] = DOMAIN chains[t] \cup {m}
            /\ chains'[t][m] = op
            /\ \A j \in DOMAIN chains[t] : chains'[t][j] = chains[t][j]
        BY <1>7, <2>2, <2>3, <3>2
      <4>2. Owes(t, m)'
        BY <2>2, <4>1 DEF Owes
      <4> QED BY <4>1, <4>2
    <3>4. /\ m \in Nat /\ m \notin DOMAIN chains[t]
          /\ \A j \in DOMAIN chains[t] : j \in Nat /\ j < m
      BY <1>5, <3>2
    <3>5. /\ \A j \in DOMAIN chains[t] : Owes(t, j)' <=> Owes(t, j)
          /\ \A j, k \in DOMAIN chains[t] : Sooner(t, j, k)' <=> Sooner(t, j, k)
      BY <1>1, <2>2, <2>3, OwesMore
    <3>6. PICK n \in Nat : n = Len(turns[t])
      BY <1>3
    <3>7. /\ Len(turns'[t]) = n + 1 /\ turns'[t][n + 1] = x
          /\ \A k \in 1 .. n : turns'[t][k] = turns[t][k]
      BY <1>3, <2>3, <3>6, PutLast
    <3>8. PICK old \in [DOMAIN chains[t] -> Nat] : Fits(t, old)
      BY <3>1 DEF Follows
    <3>9. PICK slot \in [DOMAIN chains'[t] -> Nat] :
             slot[m] = n + 1 /\ \A j \in DOMAIN chains[t] : slot[j] = old[j]
      <4>1. n + 1 \in Nat
        BY <3>6
      <4> DEFINE next == [j \in DOMAIN chains[t] \cup {m} |->
                            IF j = m THEN n + 1 ELSE old[j]]
      <4>2. /\ next \in [DOMAIN chains[t] \cup {m} -> Nat] /\ next[m] = n + 1
            /\ \A j \in DOMAIN chains[t] : next[j] = old[j]
        BY <3>4, <4>1
      <4> HIDE DEF next
      <4> QED BY <3>3, <4>2
    <3>10. \A j \in DOMAIN chains[t] : Owes(t, j) =>
              /\ old[j] \in Len(diskTurns[t]) + 1 .. n
              /\ chains[t][j].turns = <<turns[t][old[j]]>>
      BY <3>6, <3>8 DEF Fits, OwedIsLacked
    <3>11. Len(diskTurns[t]) <= n
           /\ \A k \in 1 .. Len(diskTurns[t]) : diskTurns[t][k] = turns[t][k]
      BY <3>1, <3>6 DEF Follows, Begins
    <3>12. OwedIsLacked(t, slot)'
      <4> SUFFICES ASSUME NEW j \in DOMAIN chains'[t], Owes(t, j)'
                   PROVE  /\ slot[j] \in Len(diskTurns[t]) + 1 .. n + 1
                          /\ chains'[t][j].turns = <<turns'[t][slot[j]]>>
        BY <2>3, <3>7 DEF OwedIsLacked
      <4>1. CASE j = m
        <5>1. n + 1 \in Len(diskTurns[t]) + 1 .. n + 1
          BY <1>3, <3>6, <3>11
        <5> QED BY <2>2, <3>3, <3>7, <3>9, <4>1, <5>1
      <4>2. CASE j # m
        <5>1. j \in DOMAIN chains[t] /\ chains'[t][j] = chains[t][j] /\ slot[j] = old[j]
          BY <3>3, <3>9, <4>2
        <5>2. /\ old[j] \in Len(diskTurns[t]) + 1 .. n
              /\ chains[t][j].turns = <<turns[t][old[j]]>>
          BY <3>5, <3>10, <5>1
        <5>3. old[j] \in Len(diskTurns[t]) + 1 .. n + 1 /\ old[j] \in 1 .. n
          BY <1>3, <5>2
        <5> QED BY <3>7, <5>1, <5>2, <5>3
      <4> QED BY <4>1, <4>2
    <3>13. LackedIsOwed(t, slot)'
      <4> SUFFICES ASSUME NEW k \in Len(diskTurns[t]) + 1 .. n + 1
                   PROVE  \/ \E j \in DOMAIN chains'[t] : Owes(t, j)' /\ slot[j] = k
                          \/ \E j \in DOMAIN chains'[t] :
                                /\ chains'[t][j].kind = "rewrite"
                                /\ chains'[t][j].stage = "done"
                                /\ k = Len(chains'[t][j].turns) + 1
        BY <2>3, <3>7 DEF LackedIsOwed
      <4>1. CASE k = n + 1
        BY <3>3, <3>9, <4>1
      <4>2. CASE k # n + 1
        <5>1. k \in Len(diskTurns[t]) + 1 .. n
          BY <1>3, <4>2
        <5>2. \/ \E j \in DOMAIN chains[t] : Owes(t, j) /\ old[j] = k
              \/ \E j \in DOMAIN chains[t] :
                    /\ chains[t][j].kind = "rewrite" /\ chains[t][j].stage = "done"
                    /\ k = Len(chains[t][j].turns) + 1
          BY <3>6, <3>8, <5>1 DEF Fits, LackedIsOwed
        <5> QED BY <3>3, <3>5, <3>9, <5>2
      <4> QED BY <4>1, <4>2
    <3>14. PaysInOrder(t, slot)'
      <4> SUFFICES ASSUME NEW j \in DOMAIN chains'[t], NEW k \in DOMAIN chains'[t],
                          Owes(t, j)', Owes(t, k)', Sooner(t, j, k)'
                   PROVE  slot[j] < slot[k]
        BY DEF PaysInOrder
      <4>1. \/ chains'[t][j].kind = "append" /\ chains'[t][k].kind = "first"
            \/ chains'[t][j].kind = chains'[t][k].kind /\ j < k
        BY DEF Sooner
      <4>2. CASE j # m /\ k # m
        <5>1. /\ j \in DOMAIN chains[t] /\ k \in DOMAIN chains[t]
              /\ slot[j] = old[j] /\ slot[k] = old[k]
          BY <3>3, <3>9, <4>2
        <5> QED BY <3>5, <3>8, <5>1 DEF Fits, PaysInOrder
      <4>3. CASE j # m /\ k = m
        <5>1. j \in DOMAIN chains[t] /\ slot[j] = old[j]
          BY <3>3, <3>9, <4>3
        <5>2. old[j] \in Len(diskTurns[t]) + 1 .. n
          BY <3>5, <3>10, <5>1
        <5> QED BY <1>3, <3>9, <4>3, <5>1, <5>2
      <4>4. CASE j = m
        <5>1. k # m
          BY <3>3, <3>4, <4>1, <4>4
        <5>2. k \in DOMAIN chains[t] /\ k < m /\ chains'[t][k] = chains[t][k]
              /\ k \in Nat
          BY <3>3, <3>4, <5>1
        <5>3. op.kind = "append" /\ chains[t][k].kind = "first"
          BY <3>3, <3>4, <4>1, <4>4, <5>2
        <5>4. t \notin draftIds /\ Materializing(t)
          BY <2>2, <5>2, <5>3 DEF Materializing, Queued
        <5> QED BY <3>1, <5>4
      <4> QED BY <4>2, <4>3, <4>4
    <3>15. \A q \in DOMAIN chains'[t] : chains'[t][q].kind = "rewrite" =>
              /\ q \in DOMAIN chains[t] /\ chains'[t][q] = chains[t][q]
              /\ chains[t][q].kind = "rewrite" /\ q < m
      BY <2>2, <3>3, <3>4
    <3>16. RewriteDivides(t, slot)'
      <4> SUFFICES ASSUME NEW q \in DOMAIN chains'[t], NEW j \in DOMAIN chains'[t],
                          chains'[t][q].kind = "rewrite", Owes(t, j)'
                   PROVE  j > q <=> slot[j] > Len(chains'[t][q].turns) + 1
        BY DEF RewriteDivides
      <4>1. /\ q \in DOMAIN chains[t] /\ chains'[t][q] = chains[t][q]
            /\ chains[t][q].kind = "rewrite" /\ q < m
        BY <3>15
      <4>2. CASE j = m
        <5>1. Len(chains[t][q].turns) < n /\ Len(chains[t][q].turns) \in Nat
          BY <1>3, <3>1, <3>6, <4>1 DEF Follows, RewriteFits
        <5>2. n + 1 > Len(chains[t][q].turns) + 1
          BY <3>6, <5>1
        <5>3. m > q /\ slot[m] = n + 1
          BY <3>4, <3>9, <4>1
        <5> QED BY <4>1, <4>2, <5>2, <5>3
      <4>3. CASE j # m
        <5>1. j \in DOMAIN chains[t] /\ Owes(t, j) /\ slot[j] = old[j]
          BY <3>3, <3>5, <3>9, <4>3
        <5> QED BY <3>8, <4>1, <5>1 DEF Fits, RewriteDivides
      <4> QED BY <4>2, <4>3
    <3>17. RewriteFits(t)'
      <4> SUFFICES ASSUME NEW q \in DOMAIN chains'[t], chains'[t][q].kind = "rewrite"
                   PROVE  /\ Begins(chains[t][q].turns, turns'[t])
                          /\ Len(chains[t][q].turns) < Len(turns'[t])
                          /\ Len(diskTurns[t]) <= Len(chains[t][q].turns) + 1
                          /\ chains[t][q].stage = "done" => diskTurns[t] = chains[t][q].turns
                          /\ ~Materializing(t)'
                          /\ \A p \in DOMAIN chains'[t] :
                                chains'[t][p].kind = "rewrite" => p = q
        BY <2>3, <3>15 DEF RewriteFits
      <4>1. q \in DOMAIN chains[t] /\ chains[t][q].kind = "rewrite"
        BY <3>15
      <4>2. /\ Begins(chains[t][q].turns, turns[t])
            /\ Len(chains[t][q].turns) < n /\ Len(chains[t][q].turns) \in Nat
            /\ Len(diskTurns[t]) <= Len(chains[t][q].turns) + 1
            /\ chains[t][q].stage = "done" => diskTurns[t] = chains[t][q].turns
            /\ ~Materializing(t)
            /\ \A p \in DOMAIN chains[t] : chains[t][p].kind = "rewrite" => p = q
        BY <1>3, <3>1, <3>6, <4>1 DEF Follows, RewriteFits
      <4>3. Begins(chains[t][q].turns, turns'[t])
            /\ Len(chains[t][q].turns) < Len(turns'[t])
        <5>1. \A k \in 1 .. Len(chains[t][q].turns) : k \in 1 .. n
          BY <3>6, <4>2
        <5>2. Len(chains[t][q].turns) < n + 1 /\ Len(chains[t][q].turns) <= n + 1
          BY <3>6, <4>2
        <5> QED BY <3>7, <4>2, <5>1, <5>2 DEF Begins
      <4>4. Queued(t, "rewrite")
        BY <4>1 DEF Queued
      <4>5. t \notin draftIds
        BY <1>2, <3>1, <4>4 DEF DraftIsNotRewritten
      <4>6. ~Materializing(t)'
        BY <1>1, <2>2, <2>3, <4>2, <4>5, QueuedMore DEF Materializing, Kinds
      <4> QED BY <3>15, <4>2, <4>3, <4>6
    <3>18. DeleteFits(t)'
      <4> SUFFICES ASSUME NEW j \in DOMAIN chains'[t], chains'[t][j].kind = "delete"
                   PROVE  /\ diskTurns[t] = <<>>
                          /\ \A k \in DOMAIN chains'[t] :
                                chains'[t][k].kind = "rewrite" => j < k
        BY <2>3 DEF DeleteFits
      <4>1. j \in DOMAIN chains[t] /\ chains[t][j].kind = "delete"
        BY <2>2, <3>3
      <4> QED BY <3>1, <3>15, <4>1 DEF Follows, DeleteFits
    <3>19. Begins(diskTurns[t], turns[t])'
      <4>1. \A k \in 1 .. Len(diskTurns[t]) : k \in 1 .. n
        BY <1>3, <3>6, <3>11
      <4>2. Len(diskTurns[t]) <= n + 1
        BY <1>3, <3>6, <3>11
      <4> QED BY <2>3, <3>7, <3>11, <4>1, <4>2 DEF Begins
    <3> QED BY <3>9, <3>12, <3>13, <3>14, <3>16, <3>17, <3>18, <3>19 DEF Follows, Fits
  <2> QED BY <2>5, <2>6 DEF Prefixed
<1> QED BY <1>9, <1>11, <1>12, <1>13, <1>14, <1>15

LEMMA PrefixRestart ==
    ASSUME PrefixInv, Restart, NEW t \in Threads
    PROVE  Prefixed(t)'
<1>1. /\ chains'[t] = <<>> /\ draftIds' = {} /\ threads' = diskMeta
      /\ turns'[t] = IF diskMeta[t] = None THEN <<>> ELSE diskTurns'[t]
  BY DEF Restart
<1>2. DOMAIN chains'[t] = {}
  BY <1>1, EmptySeq, LenProperties
<1>3. HeldIsFile(t)' /\ DraftIsUnwritten(t)'
  BY <1>1, <1>2 DEF HeldIsFile, DraftIsUnwritten
<1>4. ASSUME Sound(t)' PROVE Follows(t)'
  <2>1. turns'[t] = diskTurns'[t]
    BY <1>1, <1>4 DEF Sound
  <2>2. Len(turns'[t]) \in Nat
    <3>1. TypeOK'
      BY TypeRestart DEF PrefixInv, HeadedInv, ShapeInv
    <3> QED BY <3>1, LenProperties DEF TypeOK
  <2>3. \E slot \in [DOMAIN chains'[t] -> Nat] : Fits(t, slot)'
    <3>1. PICK slot : slot \in [DOMAIN chains'[t] -> Nat]
      <4>1. [j \in DOMAIN chains'[t] |-> 0] \in [DOMAIN chains'[t] -> Nat]
        OBVIOUS
      <4> QED BY <4>1
    <3>2. Fits(t, slot)'
      BY <1>2, <2>1, <2>2
         DEF Fits, OwedIsLacked, LackedIsOwed, PaysInOrder, RewriteDivides
    <3> QED BY <3>1, <3>2
  <2>4. Begins(diskTurns[t], turns[t])'
    BY <2>1, <2>2 DEF Begins
  <2>5. RewriteFits(t)' /\ DeleteFits(t)'
    BY <1>2 DEF RewriteFits, DeleteFits
  <2> QED BY <2>3, <2>4, <2>5 DEF Follows
<1> QED BY <1>3, <1>4 DEF Prefixed

LEMMA PrefixNext == PrefixInv /\ [Next]_vars => PrefixInv'
<1> SUFFICES ASSUME PrefixInv, [Next]_vars PROVE PrefixInv'
  OBVIOUS
<1>1. HeadedInv /\ HeadedInv' /\ TypeOK
  BY HeadedNext DEF PrefixInv, HeadedInv, ShapeInv
<1>2. ASSUME NEW t \in Threads, StepOf(t), NEW u \in Threads
      PROVE  Prefixed(u)'
  <2>1. CASE u = t
    BY <1>2, <2>1, PrefixUserStep, PrefixFileStep, PrefixReturn DEF StepOf
  <2>2. CASE u # t
    <3>1. Unmoved(u) /\ Prefixed(u)
      BY <1>1, <1>2, <2>2, OthersStay DEF PrefixInv
    <3>2. /\ threads'[u] = threads[u] /\ turns'[u] = turns[u]
          /\ diskTurns'[u] = diskTurns[u] /\ chains'[u] = chains[u]
          /\ flaws'[u] = flaws[u] /\ (u \in draftIds' <=> u \in draftIds)
      BY <3>1 DEF Unmoved
    <3>3. HeldIsFile(u)' /\ DraftIsUnwritten(u)' /\ (Sound(u)' <=> Sound(u))
      BY <3>1, <3>2 DEF Prefixed, HeldIsFile, DraftIsUnwritten, Sound
    <3>4. Follows(u) => Follows(u)'
      BY SMTT(20), <3>2 DEF Follows, Fits, OwedIsLacked, LackedIsOwed, PaysInOrder,
           RewriteDivides, RewriteFits, DeleteFits, Owes, Sooner, Materializing, Queued
    <3> QED BY <3>1, <3>3, <3>4 DEF Prefixed
  <2> QED BY <2>1, <2>2
<1>3. CASE Restart
  BY <1>1, <1>3, PrefixRestart DEF PrefixInv
<1>4. CASE UNCHANGED vars
  <2>1. ASSUME NEW u \in Threads PROVE Prefixed(u)'
    BY <1>4 DEF vars, PrefixInv, Prefixed, HeldIsFile, DraftIsUnwritten, Sound, Follows,
         Fits, OwedIsLacked, LackedIsOwed, PaysInOrder, RewriteDivides, RewriteFits,
         DeleteFits, Owes, Sooner, Materializing, Queued
  <2> QED BY <1>1, <2>1 DEF PrefixInv
<1> QED BY <1>1, <1>2, <1>3, <1>4, StepsAreOf DEF PrefixInv

\* The beginning of a sequence, as the library puts it.
LEMMA BeginningsArePrefixes ==
    ASSUME NEW r \in Seq(Nat), NEW s \in Seq(Nat), Begins(r, s)
    PROVE  IsPrefix(r, s)
<1>1. /\ Len(r) \in Nat /\ Len(s) \in Nat /\ Len(r) <= Len(s)
      /\ \A n \in 1 .. Len(r) : r[n] = s[n]
  BY LenProperties DEF Begins
<1>2. \A n \in 1 .. Len(r) : s[n] \in Nat
  BY <1>1, ElementOfSeq
<1>3. /\ SubSeq(s, 1, Len(r)) \in Seq(Nat)
      /\ Len(SubSeq(s, 1, Len(r))) = IF 1 <= Len(r) THEN Len(r) - 1 + 1 ELSE 0
      /\ \A n \in 1 .. Len(r) - 1 + 1 : SubSeq(s, 1, Len(r))[n] = s[1 + n - 1]
  BY <1>1, <1>2, SubSeqProperties
<1> DEFINE b == SubSeq(s, 1, Len(r))
<1> HIDE DEF b
<1>4. Len(b) = Len(r) /\ \A n \in 1 .. Len(r) : b[n] = r[n]
  <2>1. \A n \in 1 .. Len(r) : n \in 1 .. Len(r) - 1 + 1 /\ 1 + n - 1 = n
    BY <1>1
  <2> QED BY <1>1, <1>3, <2>1 DEF b
<1>5. b = r
  BY <1>3, <1>4, SeqEqual DEF b
<1> QED BY <1>1, <1>5 DEF IsPrefix, b

\* Whatever the order of messages, patches, Regenerate, failures and restarts, the
\* file of a thread holds a beginning of what the user sees, unless an operation has
\* failed, an append has not read its file or has left a part of it, a turn has fallen
\* into a rewrite or was overtaken.
THEOREM FileIsPrefix == Spec => []DiskIsPrefix
<1>1. PrefixInv => DiskIsPrefix
  <2> SUFFICES ASSUME PrefixInv, NEW t \in Threads, Sound(t)
               PROVE  IsPrefix(diskTurns[t], turns[t])
    BY DEF DiskIsPrefix, Sound
  <2>1. /\ diskTurns[t] \in Seq(Nat) /\ turns[t] \in Seq(Nat)
        /\ Begins(diskTurns[t], turns[t])
    BY DEF PrefixInv, HeadedInv, ShapeInv, TypeOK, Prefixed, Follows
  <2> QED BY <2>1, BeginningsArePrefixes
<1>2. Spec => []PrefixInv
  BY PrefixStart, PrefixNext, PTL DEF Spec
<1> QED BY <1>1, <1>2, PTL

-----------------------------------------------------------------------------
(* The store mirrors the files.                                            *)

\* A meta record on its way to the file.
Pending(t, i) == chains[t][i].kind \in {"first", "meta"} /\ chains[t][i].stage # "done"

\* No operation has failed, and the thread was not discarded too late.
Intact(t) == flaws[t] \cap {"failed", "crossed"} = {}

DraftHasNoMeta(t) ==
    t \in draftIds => /\ diskMeta[t] = None \/ MetaJustWritten(t)
                      /\ ~Queued(t, "meta")

ForgottenIsGone(t) ==
    threads[t] = None => /\ chains[t] = <<>> /\ diskMeta[t] = None
                         /\ diskTurns[t] = <<>> \/ "orphan" \in flaws[t]

\* An unused draft has nothing under way but its own deletion.
DiscardedAlone(t) ==
    \A i \in DOMAIN chains[t] : chains[t][i].kind = "delete" =>
        /\ Len(chains[t]) = 1
        /\ chains[t][i].stage \in {"half", "done"} => diskMeta[t] = None

\* The last record on its way is the one in memory ...
NewestIsLast(t) ==
    \A i \in DOMAIN chains[t] :
        Pending(t, i) /\ (\A j \in DOMAIN chains[t] : Pending(t, j) => j <= i)
            => chains[t][i].meta = threads[t]

\* ... and so is the one in the file when none is on its way.
WrittenIsNewest(t) ==
    (\A i \in DOMAIN chains[t] : ~Pending(t, i)) /\ (t \notin draftIds \/ MetaJustWritten(t))
        => diskMeta[t] = threads[t]

RecordIsKept(t) ==
    "patched" \notin flaws[t] /\ threads[t] # None => NewestIsLast(t) /\ WrittenIsNewest(t)

Mirrored(t) ==
    /\ DraftHasNoMeta(t)
    /\ Intact(t) => ForgottenIsGone(t) /\ DiscardedAlone(t) /\ RecordIsKept(t)

MirrorInv == PrefixInv /\ \A t \in Threads : Mirrored(t)

LEMMA MirrorStart == Init => MirrorInv
<1> SUFFICES ASSUME Init PROVE MirrorInv
  OBVIOUS
<1>1. ASSUME NEW t \in Threads PROVE Mirrored(t)
  <2>1. /\ chains[t] = <<>> /\ threads[t] = None /\ diskMeta[t] = None
        /\ diskTurns[t] = <<>> /\ draftIds = {}
    BY DEF Init
  <2>2. DOMAIN chains[t] = {}
    BY <2>1, EmptySeq, LenProperties
  <2> QED BY <2>1, <2>2 DEF Mirrored, DraftHasNoMeta, ForgottenIsGone, DiscardedAlone,
                            RecordIsKept
<1> QED BY <1>1, PrefixStart DEF MirrorInv

\* What the invariants found so far say about a thread.
LEMMA MirrorFacts ==
    ASSUME MirrorInv, NEW t \in Threads
    PROVE  /\ TypeOK /\ ShapeInv
           /\ FrontOnlyRuns(t) /\ NewIsBlank(t) /\ DraftWaits(t) /\ MetaIsRecord(t)
           /\ DraftIsComing(t) /\ DraftIsNotRewritten(t) /\ DraftIsUnwritten(t)
           /\ Intact(t) => DeletedAsUnused(t)
           /\ Mirrored(t)
  BY DEF MirrorInv, PrefixInv, HeadedInv, ShapeInv, Shape, Headed, Prefixed, Intact

LEMMA MirrorFileStep ==
    ASSUME MirrorInv, NEW t \in Threads,
           NEW i \in DOMAIN chains[t], FileStep(t, i) \/ FileFails(t, i)
    PROVE  Mirrored(t)'
<1>1. /\ TypeOK /\ FrontOnlyRuns(t) /\ DraftHasNoMeta(t)
      /\ Intact(t) => DeletedAsUnused(t)
      /\ Intact(t) => ForgottenIsGone(t) /\ DiscardedAlone(t) /\ RecordIsKept(t)
  BY MirrorFacts DEF Mirrored
<1>2. /\ i = 1 /\ MayRun(t, 1) /\ UNCHANGED <<threads, draftIds>>
      /\ flaws'[t] \in {flaws[t], flaws[t] \cup {"damaged"}} /\ chains[t][1].stage # "done"
  BY <1>1, FrontGoesOn
<1>3. chains[t][1] \in Operation /\ 1 \in DOMAIN chains[t] /\ chains[t] # <<>>
  BY <1>1, <1>2, FrontRuns
<1>4. /\ diskMeta \in [Threads -> Meta \cup {None}] /\ diskTurns \in [Threads -> Seq(Nat)]
      /\ Len(chains[t]) \in Nat /\ DOMAIN chains[t] = 1 .. Len(chains[t])
  BY <1>1, Places DEF TypeOK
<1> DEFINE op == chains[t][1]
           new == chains'[t][1]
<1>5. /\ UNCHANGED <<threads, draftIds>> /\ op.stage # "done"
      /\ \A f \in {"failed", "crossed", "orphan", "patched"} :
            f \in flaws'[t] <=> f \in flaws[t]
  BY <1>2
<1>6. ~MetaJustWritten(t)
  BY <1>1, <1>5 DEF MetaJustWritten, FrontOnlyRuns
<1>7. Intact(t) => threads[t] # None
  BY <1>1, <1>3 DEF ForgottenIsGone
<1>8. \A j \in DOMAIN chains[t] \ {1} : chains[t][j].stage = "wait"
  BY <1>1 DEF FrontOnlyRuns
\* What every step keeps: the kinds and records, and the operations behind.
<1>9. /\ Len(chains'[t]) = Len(chains[t]) /\ DOMAIN chains'[t] = DOMAIN chains[t]
      /\ new.kind = op.kind /\ new.meta = op.meta
      /\ \A j \in DOMAIN chains[t] \ {1} : chains'[t][j] = chains[t][j]
  <2>1. ASSUME NEW stage \in Stages, Reaches(t, 1, stage)
        PROVE  /\ Len(chains'[t]) = Len(chains[t]) /\ DOMAIN chains'[t] = DOMAIN chains[t]
               /\ new = [op EXCEPT !.stage = stage]
               /\ \A j \in DOMAIN chains[t] \ {1} : chains'[t][j] = chains[t][j]
    BY <1>1, <1>2, <1>3, <2>1, Reached
  <2>2. ASSUME NEW stage \in Stages, Reaches(t, 1, stage)
        PROVE  /\ Len(chains'[t]) = Len(chains[t]) /\ DOMAIN chains'[t] = DOMAIN chains[t]
               /\ new.kind = op.kind /\ new.meta = op.meta
               /\ \A j \in DOMAIN chains[t] \ {1} : chains'[t][j] = chains[t][j]
    BY <1>3, <2>1, <2>2 DEF Operation
  <2>3. CASE ReadTurns(t, i)
    <3>1. /\ Len(chains'[t]) = Len(chains[t]) /\ DOMAIN chains'[t] = DOMAIN chains[t]
          /\ new = [op EXCEPT !.stage = "read", !.held = diskTurns[t]]
          /\ \A j \in DOMAIN chains[t] \ {1} : chains'[t][j] = chains[t][j]
      BY <1>1, <1>2, <2>3, ReadReached
    <3> QED BY <1>3, <3>1 DEF Operation
  <2>4. CASE ~ReadTurns(t, i)
    BY <1>2, <2>2, <2>4
       DEF FileStep, FileFails, Fault, ReadFails, CutShort, WriteMeta, RewriteTurns,
           WriteTurns, ReplaceTurns, DeleteMeta, DeleteTurns, Stages
  <2> QED BY <2>3, <2>4
<1>10. \A j \in DOMAIN chains[t] :
          chains'[t][j].kind = chains[t][j].kind /\ chains'[t][j].meta = chains[t][j].meta
  BY <1>9
<1>11. \A kind : Queued(t, kind)' <=> Queued(t, kind)
  BY <1>9, <1>10 DEF Queued
<1>12. CASE WriteMeta(t, i)
  <2>1. /\ op.kind \in {"first", "meta"} /\ diskMeta'[t] = op.meta
        /\ new.stage = "done" /\ diskTurns' = diskTurns
    <3>1. Reaches(t, 1, "done")
      BY <1>2, <1>12 DEF WriteMeta
    <3>2. new = [op EXCEPT !.stage = "done"]
      BY <1>1, <1>2, <1>3, <3>1, Reached DEF Stages
    <3> QED BY <1>2, <1>3, <1>4, <1>12, <3>2 DEF WriteMeta, At, Operation
  <2>2. Pending(t, 1) /\ ~Pending(t, 1)'
    BY <1>5, <2>1 DEF Pending
  <2>3. \A j \in DOMAIN chains[t] \ {1} : Pending(t, j)' <=> Pending(t, j)
    BY <1>9 DEF Pending
  <2>4. DraftHasNoMeta(t)'
    <3> SUFFICES ASSUME t \in draftIds
                 PROVE  MetaJustWritten(t)' /\ ~Queued(t, "meta")'
      BY <1>5 DEF DraftHasNoMeta
    <3>1. ~Queued(t, "meta")
      BY <1>1 DEF DraftHasNoMeta
    <3>2. op.kind = "first"
      BY <1>3, <2>1, <3>1 DEF Queued
    <3> QED BY <1>3, <1>9, <1>11, <2>1, <3>1, <3>2 DEF MetaJustWritten
  <2>5. ASSUME Intact(t)
        PROVE  ForgottenIsGone(t)' /\ DiscardedAlone(t)' /\ RecordIsKept(t)'
    <3>1. ForgottenIsGone(t)'
      BY <1>5, <1>7, <2>5 DEF ForgottenIsGone
    <3>2. DiscardedAlone(t)'
      <4> SUFFICES ASSUME NEW j \in DOMAIN chains[t], chains[t][j].kind = "delete"
                   PROVE  FALSE
        BY <1>9, <1>10 DEF DiscardedAlone
      <4>1. j = 1
        BY <1>1, <1>4, <2>5 DEF DiscardedAlone
      <4> QED BY <2>1, <4>1
    <3>3. ASSUME "patched" \notin flaws[t] PROVE NewestIsLast(t)' /\ WrittenIsNewest(t)'
      <4>1. NewestIsLast(t)
        BY <1>1, <1>7, <2>5, <3>3 DEF RecordIsKept
      <4>2. NewestIsLast(t)'
        <5> SUFFICES ASSUME NEW j \in DOMAIN chains[t], Pending(t, j)',
                            \A k \in DOMAIN chains[t] : Pending(t, k)' => k <= j
                     PROVE  chains[t][j].meta = threads[t]
          BY <1>5, <1>9, <1>10 DEF NewestIsLast
        <5>1. j # 1 /\ Pending(t, j)
          BY <2>2, <2>3
        <5>2. \A k \in DOMAIN chains[t] : Pending(t, k) => k <= j
          <6> SUFFICES ASSUME NEW k \in DOMAIN chains[t], Pending(t, k) PROVE k <= j
            OBVIOUS
          <6>1. CASE k = 1
            BY <1>4, <6>1
          <6>2. CASE k # 1
            BY <2>3, <6>2
          <6> QED BY <6>1, <6>2
        <5> QED BY <4>1, <5>1, <5>2 DEF NewestIsLast
      <4>3. WrittenIsNewest(t)'
        <5> SUFFICES ASSUME \A j \in DOMAIN chains[t] : ~Pending(t, j)'
                     PROVE  op.meta = threads[t]
          BY <1>5, <1>9, <2>1 DEF WrittenIsNewest
        <5>1. \A j \in DOMAIN chains[t] : Pending(t, j) => j = 1
          BY <2>3
        <5>2. \A j \in DOMAIN chains[t] : Pending(t, j) => j <= 1
          BY <5>1
        <5> QED BY <1>3, <2>2, <4>1, <5>2 DEF NewestIsLast
      <4> QED BY <4>2, <4>3
    <3> QED BY <1>5, <3>1, <3>2, <3>3 DEF RecordIsKept
  <2> QED BY <1>5, <2>4, <2>5 DEF Mirrored, Intact
\* The other steps leave the records on their way alone.
<1>13. ASSUME op.kind \notin {"first", "meta"} \/ new.stage # "done",
              diskMeta'[t] = diskMeta[t] \/ (op.kind = "delete" /\ diskMeta'[t] = None),
              /\ op.kind = "delete"
              /\ op.stage \notin {"half", "done"}
              /\ new.stage \in {"half", "done"}
              => diskMeta'[t] = None
       PROVE  Mirrored(t)'
  <2>1. \A j \in DOMAIN chains[t] : Pending(t, j)' <=> Pending(t, j)
    <3> SUFFICES ASSUME NEW j \in DOMAIN chains[t]
                 PROVE  Pending(t, j)' <=> Pending(t, j)
      OBVIOUS
    <3>1. CASE j = 1
      BY <1>5, <1>9, <1>13, <3>1 DEF Pending
    <3>2. CASE j # 1
      BY <1>9, <3>2 DEF Pending
    <3> QED BY <3>1, <3>2
  <2>2. ~MetaJustWritten(t)'
    <3> SUFFICES ASSUME NEW j \in DOMAIN chains[t], chains'[t][j].kind = "first",
                        chains'[t][j].stage = "done"
                 PROVE  FALSE
      BY <1>9 DEF MetaJustWritten
    <3>1. CASE j = 1
      BY <1>9, <1>13, <3>1
    <3>2. CASE j # 1
      BY <1>8, <1>9, <3>2
    <3> QED BY <3>1, <3>2
  <2>3. DraftHasNoMeta(t)'
    BY <1>1, <1>5, <1>6, <1>11, <1>13 DEF DraftHasNoMeta
  <2>4. ASSUME Intact(t)
        PROVE  ForgottenIsGone(t)' /\ DiscardedAlone(t)' /\ RecordIsKept(t)'
    <3>1. ForgottenIsGone(t)'
      BY <1>5, <1>7, <2>4 DEF ForgottenIsGone
    <3>2. DiscardedAlone(t)'
      <4> SUFFICES ASSUME NEW j \in DOMAIN chains[t], chains[t][j].kind = "delete"
                   PROVE  /\ Len(chains[t]) = 1
                          /\ chains'[t][j].stage \in {"half", "done"} => diskMeta'[t] = None
        BY <1>9, <1>10 DEF DiscardedAlone
      <4>1. /\ Len(chains[t]) = 1
            /\ chains[t][j].stage \in {"half", "done"} => diskMeta[t] = None
        BY <1>1, <2>4 DEF DiscardedAlone
      <4>2. j = 1
        BY <1>4, <4>1
      <4>3. CASE op.stage \in {"half", "done"}
        BY <1>13, <4>1, <4>2, <4>3
      <4>4. CASE op.stage \notin {"half", "done"}
        BY <1>9, <1>13, <4>1, <4>2, <4>4
      <4> QED BY <4>3, <4>4
    <3>3. ASSUME "patched" \notin flaws[t] PROVE NewestIsLast(t)' /\ WrittenIsNewest(t)'
      <4>1. NewestIsLast(t) /\ WrittenIsNewest(t)
        BY <1>1, <1>7, <2>4, <3>3 DEF RecordIsKept
      <4>2. NewestIsLast(t)'
        BY <1>5, <1>9, <1>10, <2>1, <4>1 DEF NewestIsLast
      <4>3. CASE diskMeta'[t] = diskMeta[t]
        <5>1. WrittenIsNewest(t)'
          BY <1>5, <1>9, <2>1, <2>2, <4>1, <4>3 DEF WrittenIsNewest
        <5> QED BY <4>2, <5>1
      <4>4. CASE op.kind = "delete"
        <5>1. Discarding(t)
          BY <1>3, <4>4 DEF Discarding, Queued
        <5>2. t \in draftIds
          BY <1>1, <2>4, <5>1 DEF DeletedAsUnused
        <5>3. WrittenIsNewest(t)'
          BY <1>5, <2>2, <5>2 DEF WrittenIsNewest
        <5> QED BY <4>2, <5>3
      <4> QED BY <1>13, <4>3, <4>4
    <3> QED BY <1>5, <3>1, <3>2, <3>3 DEF RecordIsKept
  <2> QED BY <1>5, <2>3, <2>4 DEF Mirrored, Intact
<1>14. CASE RewriteTurns(t, i) \/ ReadTurns(t, i) \/ WriteTurns(t, i)
              \/ ReplaceTurns(t, i) \/ ReadFails(t, i) \/ CutShort(t, i)
  <2>1. op.kind \in {"append", "rewrite"} /\ diskMeta' = diskMeta
    BY <1>2, <1>14 DEF RewriteTurns, WriteTurns, ReplaceTurns, ReadTurns, ReadFails,
                       CutShort, BeingWritten, At, diskVars
  <2> QED BY <1>13, <2>1
<1>15. CASE DeleteMeta(t, i)
  BY <1>2, <1>4, <1>13, <1>15 DEF DeleteMeta, At
<1>16. CASE DeleteTurns(t, i)
  BY <1>2, <1>13, <1>16 DEF DeleteTurns, At
<1>17. CASE Fault(t, i)
  <2>1. Reaches(t, 1, "failed")
    BY <1>2, <1>17 DEF Fault
  <2>2. new = [op EXCEPT !.stage = "failed"]
    BY <1>1, <1>2, <1>3, <2>1, Reached DEF Stages
  <2>3. new.stage = "failed"
    BY <1>3, <2>2 DEF Operation
  <2> QED BY <1>13, <1>17, <2>3 DEF Fault, diskVars
<1> QED BY <1>12, <1>14, <1>15, <1>16, <1>17 DEF FileStep, FileFails

LEMMA MirrorReturn ==
    ASSUME MirrorInv, NEW t \in Threads,
           NEW i \in DOMAIN chains[t], Return(t, i)
    PROVE  Mirrored(t)'
<1>1. /\ TypeOK /\ FrontOnlyRuns(t) /\ DraftHasNoMeta(t) /\ DraftIsUnwritten(t)
      /\ Intact(t) => DeletedAsUnused(t)
      /\ Intact(t) => ForgottenIsGone(t) /\ DiscardedAlone(t) /\ RecordIsKept(t)
  BY MirrorFacts DEF Mirrored
<1>2. MayRun(t, i)
  BY DEF Return, Materialized, Appended, MetaWritten, Rewritten, Removed, GivesUp, At
<1>3. /\ i = 1 /\ chains[t][1] \in Operation /\ 1 \in DOMAIN chains[t]
      /\ chains[t] # <<>>
  BY <1>1, <1>2, FrontRuns
<1>4. /\ threads \in [Threads -> Meta \cup {None}] /\ flaws \in [Threads -> SUBSET Flaws]
      /\ Len(chains[t]) \in Nat /\ DOMAIN chains[t] = 1 .. Len(chains[t])
  BY <1>1, Places DEF TypeOK
<1> DEFINE op == chains[t][1]
<1>5. Intact(t) => threads[t] # None
  BY <1>1, <1>3 DEF ForgottenIsGone
<1>6. ASSUME Leave(t, 1)
      PROVE  /\ DOMAIN chains'[t] = 1 .. Len(chains[t]) - 1
             /\ Len(chains'[t]) = Len(chains[t]) - 1
             /\ chains' \in [Threads -> Seq(Operation)]
             /\ \A j \in DOMAIN chains'[t] :
                   /\ j \in Nat /\ j + 1 # 1 /\ j + 1 \in DOMAIN chains[t]
                   /\ chains'[t][j] = chains[t][j + 1]
                   /\ chains'[t][j].stage = "wait"
             /\ \A k \in DOMAIN chains[t] \ {1} :
                   k - 1 \in DOMAIN chains'[t] /\ (k - 1) + 1 = k
             /\ Queued(t, "meta")' => Queued(t, "meta")
  <2>1. /\ DOMAIN chains'[t] = 1 .. Len(chains[t]) - 1
        /\ Len(chains'[t]) = Len(chains[t]) - 1
        /\ chains' \in [Threads -> Seq(Operation)]
        /\ \A j \in DOMAIN chains'[t] : /\ chains'[t][j] = chains[t][j + 1]
                                       /\ j + 1 \in DOMAIN chains[t]
    BY <1>1, <1>2, <1>3, <1>6, Left
  <2>2. \A j \in DOMAIN chains'[t] : j \in Nat /\ j + 1 # 1
    BY <1>4, <2>1
  <2>3. \A j \in DOMAIN chains'[t] : chains'[t][j].stage = "wait"
    BY <1>1, <2>1, <2>2 DEF FrontOnlyRuns
  <2>4. \A k \in DOMAIN chains[t] \ {1} :
           k - 1 \in DOMAIN chains'[t] /\ (k - 1) + 1 = k
    BY <1>4, <2>1
  <2>5. Queued(t, "meta")' => Queued(t, "meta")
    BY <2>1 DEF Queued
  <2> QED BY <2>1, <2>2, <2>3, <2>4, <2>5
\* Something else than a record on its way, or a deletion, leaves the queue.
<1>7. ASSUME Leave(t, 1), op.kind \in {"append", "meta", "rewrite"}, op.stage = "done",
             UNCHANGED <<threads, draftIds, diskMeta>>,
             Intact(t)' => Intact(t), "patched" \notin flaws'[t] => "patched" \notin flaws[t]
      PROVE  Mirrored(t)'
  <2>1. /\ Len(chains'[t]) = Len(chains[t]) - 1
        /\ DOMAIN chains'[t] = 1 .. Len(chains[t]) - 1
        /\ \A j \in DOMAIN chains'[t] :
              /\ j \in Nat /\ j + 1 # 1 /\ j + 1 \in DOMAIN chains[t]
              /\ chains'[t][j] = chains[t][j + 1]
              /\ chains'[t][j].stage = "wait"
        /\ \A k \in DOMAIN chains[t] \ {1} :
              k - 1 \in DOMAIN chains'[t] /\ (k - 1) + 1 = k
        /\ Queued(t, "meta")' => Queued(t, "meta")
    BY <1>6, <1>7
  <2>2. ~MetaJustWritten(t)
    BY <1>1, <1>7 DEF MetaJustWritten, FrontOnlyRuns
  <2>3. ~MetaJustWritten(t)'
    BY <2>1 DEF MetaJustWritten
  <2>4. DraftHasNoMeta(t)'
    BY <1>1, <1>7, <2>1, <2>2 DEF DraftHasNoMeta
  <2>5. ~Pending(t, 1)
    BY <1>7 DEF Pending
  <2>6. \A j \in DOMAIN chains'[t] : Pending(t, j)' <=> Pending(t, j + 1)
    BY <2>1 DEF Pending
  <2>7. ASSUME Intact(t)'
        PROVE  ForgottenIsGone(t)' /\ DiscardedAlone(t)' /\ RecordIsKept(t)'
    <3>1. ForgottenIsGone(t)'
      BY <1>5, <1>7, <2>7 DEF ForgottenIsGone
    <3>2. DiscardedAlone(t)'
      <4> SUFFICES ASSUME NEW j \in DOMAIN chains'[t], chains'[t][j].kind = "delete"
                   PROVE  FALSE
        BY DEF DiscardedAlone
      <4>1. Len(chains[t]) = 1
        BY <1>1, <1>7, <2>1, <2>7 DEF DiscardedAlone
      <4> QED BY <2>1, <4>1
    <3>3. ASSUME "patched" \notin flaws'[t] PROVE NewestIsLast(t)' /\ WrittenIsNewest(t)'
      <4>1. NewestIsLast(t) /\ WrittenIsNewest(t)
        BY <1>1, <1>5, <1>7, <2>7, <3>3 DEF RecordIsKept
      <4>2. NewestIsLast(t)'
        <5> SUFFICES ASSUME NEW j \in DOMAIN chains'[t], Pending(t, j)',
                            \A k \in DOMAIN chains'[t] : Pending(t, k)' => k <= j
                     PROVE  chains'[t][j].meta = threads[t]
          BY <1>7 DEF NewestIsLast
        <5>1. ASSUME NEW k \in DOMAIN chains[t], Pending(t, k) PROVE k <= j + 1
          <6>1. k # 1
            BY <2>5, <5>1
          <6>2. k - 1 \in DOMAIN chains'[t] /\ (k - 1) + 1 = k
            BY <2>1, <6>1
          <6>3. Pending(t, k - 1)'
            BY <2>6, <5>1, <6>2
          <6>4. k - 1 <= j
            BY <6>2, <6>3
          <6> QED BY <1>4, <2>1, <6>4
        <5>2. chains[t][j + 1].meta = threads[t]
          BY <2>1, <2>6, <4>1, <5>1 DEF NewestIsLast
        <5> QED BY <2>1, <5>2
      <4>3. WrittenIsNewest(t)'
        <5> SUFFICES ASSUME \A j \in DOMAIN chains'[t] : ~Pending(t, j)', t \notin draftIds
                     PROVE  diskMeta[t] = threads[t]
          BY <1>7, <2>3 DEF WrittenIsNewest
        <5>1. ASSUME NEW k \in DOMAIN chains[t] PROVE ~Pending(t, k)
          <6>1. CASE k = 1
            BY <2>5, <6>1
          <6>2. CASE k # 1
            <7>1. k - 1 \in DOMAIN chains'[t] /\ (k - 1) + 1 = k
              BY <2>1, <6>2
            <7> QED BY <2>6, <7>1
          <6> QED BY <6>1, <6>2
        <5> QED BY <4>1, <5>1 DEF WrittenIsNewest
      <4> QED BY <4>2, <4>3
    <3> QED BY <3>1, <3>2, <3>3 DEF RecordIsKept
  <2> QED BY <2>4, <2>7 DEF Mirrored
<1>8. CASE Appended(t, i)
  BY <1>3, <1>7, <1>8 DEF Appended, At, memVars, diskVars, Intact
<1>9. CASE MetaWritten(t, i)
  BY <1>3, <1>7, <1>9 DEF MetaWritten, At, memVars, diskVars, Intact
<1>10. CASE Rewritten(t, i)
  <2>1. flaws[t] \subseteq flaws'[t]
    BY <1>4, <1>10 DEF Rewritten, Flaw
  <2>2. Intact(t)' => Intact(t)
    BY <2>1 DEF Intact
  <2> QED BY <1>3, <1>7, <1>10, <2>1, <2>2 DEF Rewritten, At, diskVars
<1>11. CASE Removed(t, i)
  <2>1. /\ Leave(t, 1) /\ op.kind = "delete" /\ op.stage = "done"
        /\ threads'[t] = None /\ t \notin draftIds'
        /\ UNCHANGED <<diskMeta, diskTurns, flaws>>
    BY <1>3, <1>4, <1>11 DEF Removed, At, diskVars
  <2>2. DraftHasNoMeta(t)'
    BY <2>1 DEF DraftHasNoMeta
  <2>3. ASSUME Intact(t)
        PROVE  ForgottenIsGone(t)' /\ DiscardedAlone(t)' /\ RecordIsKept(t)'
    <3>1. Len(chains[t]) = 1 /\ diskMeta[t] = None
      BY <1>1, <1>3, <2>1, <2>3 DEF DiscardedAlone
    <3>2. /\ DOMAIN chains'[t] = {} /\ Len(chains'[t]) = 0
          /\ chains'[t] \in Seq(Operation)
      BY <1>6, <2>1, <3>1
    <3>3. chains'[t] = <<>>
      BY <3>2, EmptySeq
    <3>4. Discarding(t)
      BY <1>3, <2>1 DEF Discarding, Queued
    <3>5. diskTurns[t] = <<>>
      BY <1>1, <2>3, <3>4 DEF DeletedAsUnused, DraftIsUnwritten, Intact
    <3> QED BY <2>1, <3>1, <3>2, <3>3, <3>5 DEF ForgottenIsGone, DiscardedAlone, RecordIsKept
  <2> QED BY <2>1, <2>2, <2>3 DEF Mirrored, Intact
<1>12. CASE GivesUp(t, i)
  <2>1. /\ Leave(t, 1) /\ op.stage = "failed" /\ UNCHANGED <<draftIds, diskMeta>>
        /\ "failed" \in flaws'[t]
    BY <1>3, <1>4, <1>12 DEF GivesUp, Flaw, memVars, diskVars
  <2>2. ~MetaJustWritten(t)
    BY <1>1, <2>1 DEF MetaJustWritten, FrontOnlyRuns
  <2>3. DraftHasNoMeta(t)'
    BY <1>1, <1>6, <2>1, <2>2 DEF DraftHasNoMeta
  <2> QED BY <2>1, <2>3 DEF Mirrored, Intact
<1>13. CASE Materialized(t, i)
  <2>1. /\ UNCHANGED <<threads, diskMeta, diskTurns, flaws>> /\ t \notin draftIds'
        /\ op.kind = "first" /\ op.stage = "done"
    BY <1>3, <1>13 DEF Materialized, At, diskVars
  <2>2. PICK n : n = Len(chains[t])
    OBVIOUS
  <2>3. /\ n \in Nat \ {0}
        /\ DOMAIN chains'[t] = DOMAIN chains[t]
        /\ chains'[t][n] = Op("append", None, op.turns)
        /\ \A j \in DOMAIN chains[t] \ {n} :
               chains'[t][j] = chains[t][j + 1] /\ j + 1 \in DOMAIN chains[t]
    BY <1>1, <1>3, <1>13, <2>2, MaterializedMoves
  <2>4. DOMAIN chains[t] = 1 .. n
    BY <1>4, <2>2
  <2>5. chains'[t][n].kind = "append"
    BY <2>3 DEF Op
  <2>6. ~Pending(t, n)' /\ ~Pending(t, 1) /\ MetaJustWritten(t)
    BY <1>3, <2>1, <2>5 DEF Pending, MetaJustWritten
  <2>7. \A j \in DOMAIN chains[t] \ {n} : Pending(t, j)' <=> Pending(t, j + 1)
    BY <2>3 DEF Pending
  <2>8. \A k \in DOMAIN chains[t] \ {1} :
           k - 1 \in DOMAIN chains[t] \ {n} /\ (k - 1) + 1 = k
    BY <2>3, <2>4
  <2>9. DraftHasNoMeta(t)'
    BY <2>1 DEF DraftHasNoMeta
  <2>10. ASSUME Intact(t)
         PROVE  ForgottenIsGone(t)' /\ DiscardedAlone(t)' /\ RecordIsKept(t)'
    <3>1. ForgottenIsGone(t)'
      BY <1>5, <2>1, <2>10 DEF ForgottenIsGone
    <3>2. DiscardedAlone(t)'
      <4> SUFFICES ASSUME NEW j \in DOMAIN chains[t], chains'[t][j].kind = "delete"
                   PROVE  FALSE
        BY <2>3 DEF DiscardedAlone
      <4>1. /\ j # n /\ chains[t][j + 1].kind = "delete" /\ j + 1 \in DOMAIN chains[t]
        BY <2>3, <2>5
      <4>2. Len(chains[t]) = 1
        BY <1>1, <2>10, <4>1 DEF DiscardedAlone
      <4> QED BY <2>2, <2>4, <4>1, <4>2
    <3>3. ASSUME "patched" \notin flaws[t] PROVE NewestIsLast(t)' /\ WrittenIsNewest(t)'
      <4>1. NewestIsLast(t) /\ WrittenIsNewest(t)
        BY <1>1, <1>5, <2>10, <3>3 DEF RecordIsKept
      <4>2. NewestIsLast(t)'
        <5> SUFFICES ASSUME NEW j \in DOMAIN chains[t], Pending(t, j)',
                            \A k \in DOMAIN chains[t] : Pending(t, k)' => k <= j
                     PROVE  chains'[t][j].meta = threads[t]
          BY <2>1, <2>3 DEF NewestIsLast
        <5>1. /\ j # n /\ Pending(t, j + 1) /\ j + 1 \in DOMAIN chains[t]
              /\ chains'[t][j] = chains[t][j + 1] /\ j \in Nat
          BY <2>3, <2>4, <2>6, <2>7
        <5>2. ASSUME NEW k \in DOMAIN chains[t], Pending(t, k) PROVE k <= j + 1
          <6>1. k - 1 \in DOMAIN chains[t] \ {n} /\ (k - 1) + 1 = k
            BY <2>6, <2>8, <5>2
          <6>2. Pending(t, k - 1)'
            BY <2>7, <5>2, <6>1
          <6>3. k - 1 <= j
            BY <6>1, <6>2
          <6>4. k \in Nat
            BY <2>4
          <6> QED BY <5>1, <6>3, <6>4
        <5>3. chains[t][j + 1].meta = threads[t]
          BY <4>1, <5>1, <5>2 DEF NewestIsLast
        <5> QED BY <5>1, <5>3
      <4>3. WrittenIsNewest(t)'
        <5> SUFFICES ASSUME \A j \in DOMAIN chains[t] : ~Pending(t, j)'
                     PROVE  diskMeta[t] = threads[t]
          BY <2>1, <2>3 DEF WrittenIsNewest
        <5>1. ASSUME NEW k \in DOMAIN chains[t] PROVE ~Pending(t, k)
          <6>1. CASE k = 1
            BY <2>6, <6>1
          <6>2. CASE k # 1
            <7>1. k - 1 \in DOMAIN chains[t] \ {n} /\ (k - 1) + 1 = k
              BY <2>8, <6>2
            <7> QED BY <2>7, <7>1
          <6> QED BY <6>1, <6>2
        <5> QED BY <2>6, <4>1, <5>1 DEF WrittenIsNewest
      <4> QED BY <4>2, <4>3
    <3> QED BY <2>1, <3>1, <3>2, <3>3 DEF RecordIsKept
  <2> QED BY <2>1, <2>9, <2>10 DEF Mirrored, Intact
<1> QED BY <1>8, <1>9, <1>10, <1>11, <1>12, <1>13 DEF Return

LEMMA MirrorUserStep ==
    ASSUME MirrorInv, NEW t \in Threads,
           \/ CreateThread(t) \/ ArchiveThread(t) \/ RestoreThread(t)
           \/ Patch(t) \/ RemoveTurn(t) \/ AppendTurn(t)
    PROVE  Mirrored(t)'
<1>1. /\ TypeOK /\ NewIsBlank(t) /\ DraftWaits(t) /\ DraftHasNoMeta(t)
      /\ DraftIsComing(t) /\ DraftIsNotRewritten(t) /\ FrontOnlyRuns(t)
      /\ Intact(t) => DeletedAsUnused(t)
      /\ Intact(t) => ForgottenIsGone(t) /\ DiscardedAlone(t) /\ RecordIsKept(t)
  BY MirrorFacts DEF Mirrored
<1>2. /\ threads \in [Threads -> Meta \cup {None}] /\ flaws \in [Threads -> SUBSET Flaws]
      /\ turns \in [Threads -> Seq(Nat)] /\ said \in Nat
      /\ chains[t] \in Seq(Operation)
      /\ Len(chains[t]) \in Nat /\ DOMAIN chains[t] = 1 .. Len(chains[t])
      /\ \A j \in DOMAIN chains[t] : chains[t][j] \in Operation
  BY <1>1, Places DEF TypeOK
<1>3. <<>> \in Seq(Nat) /\ None \in Meta \cup {None} /\ None \notin Meta
  BY EmptySeq, ThreadsAssumption
\* What an operation that joins the queue leaves of the older ones.
<1>4. ASSUME NEW op \in Operation, op.stage = "wait", Enqueue(t, op), UNCHANGED <<diskMeta>>,
             NEW m, m = Len(chains[t]) + 1
      PROVE  /\ DOMAIN chains'[t] = DOMAIN chains[t] \cup {m} /\ chains'[t][m] = op
             /\ \A j \in DOMAIN chains[t] : chains'[t][j] = chains[t][j]
             /\ m \in Nat /\ m \notin DOMAIN chains[t]
             /\ \A j \in DOMAIN chains[t] : j \in Nat /\ j < m /\ j <= m /\ ~(m <= j)
             /\ \A j \in DOMAIN chains[t] : Pending(t, j)' <=> Pending(t, j)
             /\ Pending(t, m)' <=> op.kind \in {"first", "meta"}
             /\ MetaJustWritten(t)' <=> MetaJustWritten(t)
             /\ \A kind \in Kinds : Queued(t, kind)' <=> (Queued(t, kind) \/ kind = op.kind)
  <2>1. /\ DOMAIN chains'[t] = DOMAIN chains[t] \cup {m} /\ chains'[t][m] = op
        /\ \A j \in DOMAIN chains[t] : chains'[t][j] = chains[t][j]
    BY <1>1, <1>4, Enqueued
  <2>2. /\ m \in Nat /\ m \notin DOMAIN chains[t]
        /\ \A j \in DOMAIN chains[t] : j \in Nat /\ j < m /\ j <= m /\ ~(m <= j)
    BY <1>2, <1>4
  <2>3. \A j \in DOMAIN chains[t] : Pending(t, j)' <=> Pending(t, j)
    BY <2>1 DEF Pending
  <2>4. Pending(t, m)' <=> op.kind \in {"first", "meta"}
    BY <1>4, <2>1 DEF Pending
  <2>5. MetaJustWritten(t)' <=> MetaJustWritten(t)
    BY <1>4, <2>1 DEF MetaJustWritten
  <2>6. \A kind \in Kinds : Queued(t, kind)' <=> (Queued(t, kind) \/ kind = op.kind)
    BY <1>1, <1>4, QueuedMore
  <2> QED BY <2>1, <2>2, <2>3, <2>4, <2>5, <2>6
\* The newest record of the thread joins the queue.
<1>5. ASSUME NEW op \in Operation, op.stage = "wait", Enqueue(t, op), UNCHANGED <<diskMeta>>,
             op.kind \in {"first", "meta"}, op.meta = threads'[t]
      PROVE  NewestIsLast(t)' /\ WrittenIsNewest(t)'
  <2>1. PICK m : m = Len(chains[t]) + 1
    OBVIOUS
  <2>2. /\ DOMAIN chains'[t] = DOMAIN chains[t] \cup {m} /\ chains'[t][m] = op
        /\ \A j \in DOMAIN chains[t] : ~(m <= j)
        /\ Pending(t, m)'
    BY <1>4, <1>5, <2>1
  <2>3. NewestIsLast(t)'
    <3> SUFFICES ASSUME NEW j \in DOMAIN chains'[t],
                        \A k \in DOMAIN chains'[t] : Pending(t, k)' => k <= j
                 PROVE  chains'[t][j].meta = threads'[t]
      BY DEF NewestIsLast
    <3>1. j = m
      BY <2>2
    <3> QED BY <1>5, <2>2, <3>1
  <2>4. WrittenIsNewest(t)'
    BY <2>2 DEF WrittenIsNewest
  <2> QED BY <2>3, <2>4
\* Another operation joins the queue.
<1>6. ASSUME NEW op \in Operation, op.stage = "wait", Enqueue(t, op),
             UNCHANGED <<diskMeta, draftIds, threads>>,
             op.kind \in {"append", "rewrite", "delete"},
             NewestIsLast(t), WrittenIsNewest(t)
      PROVE  NewestIsLast(t)' /\ WrittenIsNewest(t)'
  <2>1. PICK m : m = Len(chains[t]) + 1
    OBVIOUS
  <2>2. /\ DOMAIN chains'[t] = DOMAIN chains[t] \cup {m} /\ chains'[t][m] = op
        /\ \A j \in DOMAIN chains[t] : chains'[t][j] = chains[t][j]
        /\ \A j \in DOMAIN chains[t] : Pending(t, j)' <=> Pending(t, j)
        /\ ~Pending(t, m)'
        /\ MetaJustWritten(t)' <=> MetaJustWritten(t)
    BY <1>4, <1>6, <2>1
  <2>3. NewestIsLast(t)'
    <3> SUFFICES ASSUME NEW j \in DOMAIN chains'[t], Pending(t, j)',
                        \A k \in DOMAIN chains'[t] : Pending(t, k)' => k <= j
                 PROVE  chains'[t][j].meta = threads[t]
      BY <1>6 DEF NewestIsLast
    <3>1. j \in DOMAIN chains[t] /\ Pending(t, j)
      BY <2>2
    <3>2. \A k \in DOMAIN chains[t] : Pending(t, k) => k <= j
      BY <2>2
    <3> QED BY <1>6, <2>2, <3>1, <3>2 DEF NewestIsLast
  <2>4. WrittenIsNewest(t)'
    BY <1>6, <2>2 DEF WrittenIsNewest
  <2> QED BY <2>3, <2>4
\* Nothing is deleted, and the queue gets longer.
<1>7. ASSUME NEW op \in Operation, op.stage = "wait", Enqueue(t, op), UNCHANGED <<diskMeta>>,
             op.kind # "delete", ~Discarding(t)
      PROVE  DiscardedAlone(t)'
  <2>1. PICK m : m = Len(chains[t]) + 1
    OBVIOUS
  <2>2. /\ DOMAIN chains'[t] = DOMAIN chains[t] \cup {m} /\ chains'[t][m] = op
        /\ \A j \in DOMAIN chains[t] : chains'[t][j] = chains[t][j]
    BY <1>4, <1>7, <2>1
  <2>3. \A j \in DOMAIN chains'[t] : chains'[t][j].kind # "delete"
    BY <1>7, <2>2 DEF Discarding, Queued
  <2> QED BY <2>3 DEF DiscardedAlone
<1>8. CASE CreateThread(t)
  <2>1. /\ chains'[t] = <<>> /\ UNCHANGED <<diskMeta, chains, flaws>> /\ diskMeta[t] = None
        /\ threads'[t] # None /\ t \in draftIds'
    <3>1. [version |-> 0, archived |-> FALSE] \in Meta
      BY ThreadsAssumption DEF Meta
    <3> QED BY <1>1, <1>2, <1>3, <1>8, <3>1 DEF CreateThread, NewIsBlank, diskVars
  <2>2. DOMAIN chains'[t] = {}
    BY <2>1, EmptySeq, LenProperties
  <2>3. ~MetaJustWritten(t)' /\ ~Queued(t, "meta")'
    BY <2>2 DEF MetaJustWritten, Queued
  <2>4. DraftHasNoMeta(t)'
    BY <2>1, <2>3 DEF DraftHasNoMeta
  <2>5. ForgottenIsGone(t)' /\ DiscardedAlone(t)'
    BY <2>1, <2>2 DEF ForgottenIsGone, DiscardedAlone
  <2>6. RecordIsKept(t)'
    BY <2>1, <2>2, <2>3 DEF RecordIsKept, NewestIsLast, WrittenIsNewest
  <2> QED BY <2>4, <2>5, <2>6 DEF Mirrored
\* A patch of the meta record.
<1>9. ASSUME threads[t] # None, threads[t].version < MaxVersion,
             NEW archived \in BOOLEAN, UpdateMeta(t, Patched(t, archived)),
             UNCHANGED <<diskVars, faultVars, settled>>
      PROVE  Mirrored(t)'
  <2>1. threads[t] \in Meta
    BY <1>2, <1>9
  <2>2. Patched(t, archived) \in Meta
    BY <1>9, <2>1, ThreadsAssumption DEF Patched, Meta
  <2>3. /\ threads'[t] = Patched(t, archived) /\ threads'[t] # None
        /\ UNCHANGED <<draftIds, diskMeta, diskTurns>>
    BY <1>2, <1>3, <1>9, <2>2 DEF UpdateMeta, diskVars
  <2>4. ForgottenIsGone(t)'
    BY <2>3 DEF ForgottenIsGone
  <2>5. CASE t \in draftIds
    <3>1. /\ UNCHANGED chains /\ flaws[t] \subseteq flaws'[t]
          /\ Materializing(t) => "patched" \in flaws'[t]
      BY <1>2, <1>9, <2>5 DEF UpdateMeta, Flaw
    <3>2. DraftHasNoMeta(t)'
      BY <1>1, <2>3, <3>1 DEF DraftHasNoMeta, MetaJustWritten, Queued
    <3>3. Intact(t)' => Intact(t)
      BY <3>1 DEF Intact
    <3>4. Intact(t) => DiscardedAlone(t)'
      BY <1>1, <2>3, <3>1 DEF DiscardedAlone
    <3>5. RecordIsKept(t)'
      <4> SUFFICES ASSUME ~Materializing(t) PROVE NewestIsLast(t)' /\ WrittenIsNewest(t)'
        BY <3>1 DEF RecordIsKept
      <4>1. \A j \in DOMAIN chains[t] : chains[t][j].kind \notin {"first", "meta"}
        BY <1>1, <2>5 DEF DraftHasNoMeta, Materializing, Queued
      <4> QED BY <2>3, <2>5, <3>1, <4>1 DEF NewestIsLast, WrittenIsNewest, Pending,
                                            MetaJustWritten
    <3> QED BY <2>4, <3>2, <3>3, <3>4, <3>5 DEF Mirrored
  <2>6. CASE t \notin draftIds
    <3> DEFINE op == Op("meta", Patched(t, archived), <<>>)
    <3>1. op \in Operation
      BY <1>3, <2>2, OperationsAreTyped DEF Kinds
    <3>2. op.stage = "wait" /\ op.kind = "meta" /\ op.meta = threads'[t]
      BY <2>3 DEF Op
    <3>3. Enqueue(t, op) /\ flaws'[t] = flaws[t] \ {"patched"}
      BY <1>2, <1>9, <2>6 DEF UpdateMeta
    <3> HIDE DEF op
    <3>4. DraftHasNoMeta(t)'
      BY <2>3, <2>6 DEF DraftHasNoMeta
    <3>5. RecordIsKept(t)'
      BY <1>5, <2>3, <3>1, <3>2, <3>3 DEF RecordIsKept
    <3>6. Intact(t)' => Intact(t)
      BY <3>3 DEF Intact
    <3>7. Intact(t) => ~Discarding(t)
      BY <1>1, <2>6 DEF DeletedAsUnused
    <3>8. Intact(t)' => DiscardedAlone(t)'
      BY <1>7, <2>3, <3>1, <3>2, <3>3, <3>6, <3>7
    <3> QED BY <2>4, <3>4, <3>5, <3>8 DEF Mirrored
  <2> QED BY <2>5, <2>6
<1>10. CASE ArchiveThread(t)
  <2>1. threads[t] # None /\ threads[t].version < MaxVersion /\ ~Discarding(t)
    BY <1>10 DEF ArchiveThread, Active
  <2>2. CASE t \notin draftIds
    BY <1>9, <1>10, <2>1, <2>2 DEF ArchiveThread
  <2>3. CASE t \in draftIds
    <3> DEFINE op == Op("delete", None, <<>>)
    <3>1. op \in Operation
      BY <1>3, OperationsAreTyped DEF Kinds
    <3>2. op.stage = "wait" /\ op.kind = "delete"
      BY DEF Op
    <3>3. /\ Enqueue(t, op) /\ UNCHANGED <<threads, draftIds, diskMeta, diskTurns>>
          /\ flaws[t] \subseteq flaws'[t]
          /\ "patched" \notin flaws'[t] => "patched" \notin flaws[t]
          /\ Materializing(t) => "crossed" \in flaws'[t]
      BY <1>2, <1>10, <2>3 DEF ArchiveThread, RemoveThread, memVars, diskVars, Flaw
    <3> HIDE DEF op
    <3>4. PICK m : m = Len(chains[t]) + 1
      OBVIOUS
    <3>5. /\ DOMAIN chains'[t] = DOMAIN chains[t] \cup {m} /\ chains'[t][m] = op
          /\ MetaJustWritten(t)' <=> MetaJustWritten(t)
          /\ \A kind \in Kinds : Queued(t, kind)' <=> (Queued(t, kind) \/ kind = op.kind)
      BY <1>4, <3>1, <3>2, <3>3, <3>4
    <3>6. DraftHasNoMeta(t)'
      BY <1>1, <3>2, <3>3, <3>5 DEF DraftHasNoMeta, Kinds
    <3>7. ASSUME Intact(t)'
          PROVE  ForgottenIsGone(t)' /\ DiscardedAlone(t)' /\ RecordIsKept(t)'
      <4>1. Intact(t) /\ ~Materializing(t)
        BY <3>3, <3>7 DEF Intact
      <4>2. ForgottenIsGone(t)'
        BY <2>1, <3>3 DEF ForgottenIsGone
      <4>3. DOMAIN chains[t] = {}
        <5> SUFFICES ASSUME NEW j \in DOMAIN chains[t] PROVE FALSE
          OBVIOUS
        <5>1. chains[t][j].kind \in Kinds
          BY <1>2 DEF Operation
        <5>2. /\ ~Queued(t, "append") /\ ~Queued(t, "first") /\ ~Queued(t, "meta")
              /\ ~Queued(t, "rewrite") /\ ~Queued(t, "delete")
          BY <1>1, <2>1, <2>3, <4>1 DEF DraftWaits, DraftHasNoMeta, DraftIsNotRewritten,
                                        Queued, Materializing, Discarding, Intact
        <5> QED BY <5>1, <5>2 DEF Kinds, Queued
      <4>4. m = 1
        <5>1. 1 \notin 1 .. Len(chains[t])
          BY <1>2, <4>3
        <5> QED BY <1>2, <3>4, <5>1
      <4>5. Len(chains'[t]) = 1
        BY <1>1, <3>1, <3>3, <3>4, <4>4, Enqueued
      <4>6. DiscardedAlone(t)'
        BY <3>2, <3>5, <4>3, <4>5 DEF DiscardedAlone
      <4>7. "patched" \notin flaws'[t] => NewestIsLast(t) /\ WrittenIsNewest(t)
        BY <1>1, <2>1, <3>3, <4>1 DEF RecordIsKept
      <4>8. RecordIsKept(t)'
        BY <1>6, <3>1, <3>2, <3>3, <4>7 DEF RecordIsKept
      <4> QED BY <4>2, <4>6, <4>8
    <3> QED BY <3>6, <3>7 DEF Mirrored
  <2> QED BY <2>2, <2>3
<1>11. CASE RestoreThread(t)
  BY <1>9, <1>11 DEF RestoreThread
<1>12. CASE Patch(t)
  <2>1. threads[t] \in Meta
    BY <1>2, <1>12 DEF Patch
  <2>2. threads[t].archived \in BOOLEAN
    BY <2>1 DEF Meta
  <2> QED BY <1>9, <1>12, <2>2 DEF Patch
<1>13. CASE RemoveTurn(t)
  <2> DEFINE op == Op("rewrite", None, Front(turns[t]))
  <2>1. Front(turns[t]) \in Seq(Nat)
    BY <1>2, <1>13, FrontIsShorter DEF RemoveTurn
  <2>2. op \in Operation
    BY <1>3, <2>1, OperationsAreTyped DEF Kinds
  <2>3. op.stage = "wait" /\ op.kind = "rewrite"
    BY DEF Op
  <2>4. /\ Enqueue(t, op) /\ UNCHANGED <<threads, turns, draftIds, diskMeta, diskTurns, flaws>>
        /\ threads[t] # None /\ turns[t] # <<>> /\ ~Materializing(t)
    BY <1>13 DEF RemoveTurn, memVars, diskVars
  <2> HIDE DEF op
  <2>5. MetaJustWritten(t)' <=> MetaJustWritten(t)
    BY <1>4, <2>2, <2>3, <2>4
  <2>6. \A kind \in Kinds : Queued(t, kind)' <=> (Queued(t, kind) \/ kind = op.kind)
    BY <1>4, <2>2, <2>3, <2>4
  <2>7. DraftHasNoMeta(t)'
    BY <1>1, <2>3, <2>4, <2>5, <2>6 DEF DraftHasNoMeta, Kinds
  <2>8. ASSUME Intact(t)
        PROVE  ForgottenIsGone(t)' /\ DiscardedAlone(t)' /\ RecordIsKept(t)'
    <3>1. ForgottenIsGone(t)'
      BY <2>4 DEF ForgottenIsGone
    <3>2. ~Discarding(t)
      BY <1>1, <2>4, <2>8 DEF DeletedAsUnused, DraftIsComing, Intact
    <3>3. DiscardedAlone(t)'
      BY <1>7, <2>2, <2>3, <2>4, <3>2
    <3>4. RecordIsKept(t)'
      BY <1>1, <1>6, <2>2, <2>3, <2>4, <2>8 DEF RecordIsKept
    <3> QED BY <3>1, <3>3, <3>4
  <2> QED BY <2>4, <2>7, <2>8 DEF Mirrored, Intact
<1>14. CASE AppendTurn(t)
  <2> DEFINE op == IF t \in draftIds THEN Op("first", threads[t], <<said'>>)
                                     ELSE Op("append", None, <<said'>>)
  <2>1. said' \in Nat
    BY <1>2, <1>14 DEF AppendTurn
  <2>2. /\ op \in Operation /\ op.stage = "wait"
        /\ op.kind = IF t \in draftIds THEN "first" ELSE "append"
        /\ t \in draftIds => op.meta = threads[t]
    <3>1. <<said'>> \in Seq(Nat) /\ threads[t] \in Meta \cup {None}
      BY <1>2, <2>1
    <3>2. op \in Operation
      BY <1>3, <3>1, OperationsAreTyped DEF Kinds
    <3> QED BY <3>2 DEF Op
  <2>3. /\ threads[t] # None /\ Enqueue(t, op)
        /\ UNCHANGED <<threads, draftIds, diskMeta, diskTurns>>
    BY <1>14 DEF AppendTurn, diskVars
  <2>4. /\ \A w \in {"failed", "crossed"} : w \in flaws[t] => w \in flaws'[t]
        /\ t \notin draftIds => flaws[t] \subseteq flaws'[t]
        /\ Discarding(t) => "crossed" \in flaws'[t]
    BY <1>2, <1>14 DEF AppendTurn
  <2> HIDE DEF op
  <2>5. /\ MetaJustWritten(t)' <=> MetaJustWritten(t)
        /\ \A kind \in Kinds : Queued(t, kind)' <=> (Queued(t, kind) \/ kind = op.kind)
    BY <1>4, <2>2, <2>3
  <2>6. DraftHasNoMeta(t)'
    BY <1>1, <2>2, <2>3, <2>5 DEF DraftHasNoMeta, Kinds
  <2>7. ASSUME Intact(t)'
        PROVE  ForgottenIsGone(t)' /\ DiscardedAlone(t)' /\ RecordIsKept(t)'
    <3>1. Intact(t) /\ ~Discarding(t)
      BY <2>4, <2>7 DEF Intact
    <3>2. ForgottenIsGone(t)'
      BY <2>3 DEF ForgottenIsGone
    <3>3. DiscardedAlone(t)'
      BY <1>7, <2>2, <2>3, <3>1
    <3>4. CASE t \in draftIds
      <4>1. NewestIsLast(t)' /\ WrittenIsNewest(t)'
        BY <1>5, <2>2, <2>3, <3>4
      <4> QED BY <3>2, <3>3, <4>1 DEF RecordIsKept
    <3>5. CASE t \notin draftIds
      <4>1. "patched" \notin flaws'[t] => NewestIsLast(t) /\ WrittenIsNewest(t)
        BY <1>1, <2>3, <2>4, <3>1, <3>5 DEF RecordIsKept
      <4>2. RecordIsKept(t)'
        BY <1>6, <2>2, <2>3, <3>5, <4>1 DEF RecordIsKept
      <4> QED BY <3>2, <3>3, <4>2
    <3> QED BY <3>4, <3>5
  <2> QED BY <2>6, <2>7 DEF Mirrored
<1> QED BY <1>8, <1>10, <1>11, <1>12, <1>13, <1>14

LEMMA MirrorRestart ==
    ASSUME MirrorInv, Restart, NEW t \in Threads
    PROVE  Mirrored(t)'
<1>1. /\ chains'[t] = <<>> /\ draftIds' = {} /\ threads' = diskMeta /\ diskMeta' = diskMeta
      /\ diskMeta[t] = None /\ diskTurns'[t] # <<>> => "orphan" \in flaws'[t]
  BY DEF Restart
<1>2. DOMAIN chains'[t] = {}
  BY <1>1, EmptySeq, LenProperties
<1>3. DraftHasNoMeta(t)' /\ ForgottenIsGone(t)' /\ DiscardedAlone(t)'
  BY <1>1, <1>2 DEF DraftHasNoMeta, ForgottenIsGone, DiscardedAlone
<1>4. RecordIsKept(t)'
  BY <1>1, <1>2 DEF RecordIsKept, NewestIsLast, WrittenIsNewest
<1> QED BY <1>3, <1>4 DEF Mirrored

LEMMA MirrorNext == MirrorInv /\ [Next]_vars => MirrorInv'
<1> SUFFICES ASSUME MirrorInv, [Next]_vars PROVE MirrorInv'
  OBVIOUS
<1>1. PrefixInv /\ PrefixInv' /\ TypeOK
  BY PrefixNext DEF MirrorInv, PrefixInv, HeadedInv, ShapeInv
<1>2. ASSUME NEW u \in Threads, Mirrored(u),
             threads'[u] = threads[u], chains'[u] = chains[u], flaws'[u] = flaws[u],
             diskMeta'[u] = diskMeta[u], diskTurns'[u] = diskTurns[u],
             u \in draftIds' <=> u \in draftIds
      PROVE  Mirrored(u)'
  BY <1>2 DEF Mirrored, DraftHasNoMeta, ForgottenIsGone, DiscardedAlone, RecordIsKept,
              NewestIsLast, WrittenIsNewest, Pending, Intact, MetaJustWritten, Queued
<1>3. ASSUME NEW t \in Threads, StepOf(t), NEW u \in Threads
      PROVE  Mirrored(u)'
  <2>1. CASE u = t
    BY <1>3, <2>1, MirrorUserStep, MirrorFileStep, MirrorReturn DEF StepOf
  <2>2. CASE u # t
    <3>1. Unmoved(u) /\ Mirrored(u)
      BY <1>1, <1>3, <2>2, OthersStay DEF MirrorInv
    <3> QED BY <1>2, <3>1 DEF Unmoved
  <2> QED BY <2>1, <2>2
<1>4. CASE Restart
  BY <1>1, <1>4, MirrorRestart DEF MirrorInv
<1>5. CASE UNCHANGED vars
  BY <1>1, <1>2, <1>5 DEF vars, MirrorInv
<1> QED BY <1>1, <1>3, <1>4, <1>5, StepsAreOf DEF MirrorInv

\* Once nothing of a thread is under way the store and the files agree, but for
\* what an operation that failed, a file that was not read or not written to its end,
\* a late discard or patch, or a turn that came into a rewrite has parted: for any
\* number of threads, turns and restarts.
THEOREM StoreMirrorsDisk == Spec => []MirrorsDisk
<1>1. MirrorInv => MirrorsDisk
  <2> SUFFICES ASSUME MirrorInv, NEW t \in Threads, chains[t] = <<>>,
                      flaws[t] \cap {"failed", "crossed", "orphan"} = {}
               PROVE  IF threads[t] = None \/ t \in draftIds
                      THEN diskMeta[t] = None /\ diskTurns[t] = <<>>
                      ELSE /\ "patched" \notin flaws[t] => diskMeta[t] = threads[t]
                           /\ flaws[t] \cap {"wiped", "overtaken", "damaged"} = {}
                                 => diskTurns[t] = turns[t]
    BY DEF MirrorsDisk
  <2>1. /\ DraftHasNoMeta(t) /\ ForgottenIsGone(t) /\ RecordIsKept(t)
        /\ DraftIsUnwritten(t) /\ "failed" \notin flaws[t]
    BY MirrorFacts DEF Mirrored, Intact
  <2>2. DOMAIN chains[t] = {}
    BY EmptySeq, LenProperties
  <2>3. CASE threads[t] = None
    BY <2>1, <2>3 DEF ForgottenIsGone
  <2>4. CASE threads[t] # None /\ t \in draftIds
    <3>1. diskMeta[t] = None
      BY <2>1, <2>2, <2>4 DEF DraftHasNoMeta, MetaJustWritten
    <3> QED BY <2>1, <2>4, <3>1 DEF DraftIsUnwritten
  <2>5. CASE threads[t] # None /\ t \notin draftIds
    <3>1. "patched" \notin flaws[t] => diskMeta[t] = threads[t]
      BY <2>1, <2>2, <2>5 DEF RecordIsKept, WrittenIsNewest
    <3>2. ASSUME flaws[t] \cap {"wiped", "overtaken", "damaged"} = {}
          PROVE  diskTurns[t] = turns[t]
      <4>1. Sound(t)
        BY <2>1, <2>5, <3>2 DEF Sound
      <4>2. /\ diskTurns[t] \in Seq(Nat) /\ turns[t] \in Seq(Nat)
            /\ Len(diskTurns[t]) \in Nat /\ Len(turns[t]) \in Nat
        BY LenProperties DEF MirrorInv, PrefixInv, HeadedInv, ShapeInv, TypeOK
      <4>3. Follows(t)
        BY <4>1 DEF MirrorInv, PrefixInv, Prefixed
      <4>4. \A n \in Len(diskTurns[t]) + 1 .. Len(turns[t]) : FALSE
        BY <2>2, <4>3 DEF Follows, Fits, LackedIsOwed
      <4>5. /\ Len(diskTurns[t]) <= Len(turns[t])
            /\ \A n \in 1 .. Len(diskTurns[t]) : diskTurns[t][n] = turns[t][n]
        BY <4>3 DEF Follows, Begins
      <4>6. Len(diskTurns[t]) = Len(turns[t])
        <5>1. Len(turns[t]) \notin Len(diskTurns[t]) + 1 .. Len(turns[t])
          BY <4>4
        <5> QED BY <4>2, <4>5, <5>1
      <4> QED BY <4>2, <4>5, <4>6, SeqEqual
    <3> QED BY <2>5, <3>1, <3>2
  <2> QED BY <2>3, <2>4, <2>5
<1>2. Spec => []MirrorInv
  BY MirrorStart, MirrorNext, PTL DEF Spec
<1> QED BY <1>1, <1>2, PTL
=============================================================================
