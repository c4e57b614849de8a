------------------------ MODULE ThreadEngineProofs ------------------------
(***************************************************************************)
(* What ThreadEngine promises about runs, for any number of threads, runs, *)
(* records and live queries, either teardown policy, hosts that send a     *)
(* second run to a busy thread as well as those that do not, and whatever  *)
(* fails but for the faults that a theorem names.                          *)
(*                                                                         *)
(* The argument is that a run which has not been reported is in one place: *)
(* it waits in the queue of one record, or is the one that a record is     *)
(* built for, replays after a fresh token or is at work on, or it waits    *)
(* for control requests (HoldInv).  A step only takes runs out of records, *)
(* or lets one record gain the run that is accepted, moved to a new record *)
(* or asked for, so that what reports a run lets go of it (Fine).  On that *)
(* rest AnswerInv (the answers owed by the SDK), OnceInv (the reports) and *)
(* GateInv (the gates a turn has open), conditions on single records.      *)
(*                                                                         *)
(* First what every operation makes of a record, then what it makes of the *)
(* places, then one lemma per action (...Step) with Fine as its conclusion.*)
(*                                                                         *)
(* The registries come second (RegInv): whoever holds a run is a record of *)
(* its thread, and while it is live it has the slot of the thread, so that *)
(* a thread has one run and one live record at a time, whatever is said to *)
(* wait beside it is done, and the queues stay empty (Plain).  Again what  *)
(* every operation makes of a record (...Goes), then one lemma per action  *)
(* (...Reg), with RegFine as its conclusion.                               *)
(*                                                                         *)
(* Last, what is left to the SDK: a record whose loop is over takes up no  *)
(* run but one whose control requests were out (GoneFine).                 *)
(***************************************************************************)
EXTENDS ThreadEngine, SequenceTheorems, FiniteSetTheorems, TLAPS

\* The types of a record.
RecType ==
    [thread : Threads \cup {NoThread}, policy : AllPolicies,
     loop : {"free", "build", "stuck", "read", "usage", "token", "rebuild", "gone"},
     gen : {"none", "parked", "turn", "done"}, dead : BOOLEAN, closeRequested : BOOLEAN,
     turnQueue : Seq(Runs), currentRunId : Runs \cup {NoRun},
     turnActive : BOOLEAN, cancelRequested : BOOLEAN, terminalEmitted : BOOLEAN,
     awaitingDecision : Int, authRetried : BOOLEAN, background : BOOLEAN,
     forRun : Runs \cup {NoRun}, oldRec : Recs \cup {NoRec}, owed : Seq(Runs),
     got : Runs \cup {NoRun}, kind : {"ok", "error", "auth"}, caught : BOOLEAN,
     asked : BOOLEAN]

\* What a record is, wherever its loop and its generator stand.
Shape(q) ==
    /\ q.loop = "free" => q = Blank
    /\ q.loop \in {"free", "build", "stuck"} <=> q.gen = "none"
    /\ q.loop = "build" => q.forRun \in Runs /\ (q.dead => q.closeRequested)
    /\ q.loop = "usage" => q.turnActive \/ q.terminalEmitted
    /\ q.loop = "token" => q.got \in Runs /\ (~q.caught => ~q.turnActive /\ q.gen # "parked")
    /\ q.loop = "rebuild" => q.dead
    /\ q.gen \in {"none", "parked"} => ~q.turnActive
    /\ q.gen = "parked" => q.turnQueue = <<>>
    /\ q.gen = "turn" => q.turnActive \/ (q.loop = "token" /\ ~q.caught)
    /\ q.dead => q.gen \in {"none", "done"}
    /\ q.turnActive /\ q.loop # "gone" => q.currentRunId \in Runs

\* x is the run of the turn that q is at work on and has not reported.
Current(q, x) ==
    /\ q.loop \notin {"token", "rebuild"}
    /\ q.turnActive /\ ~q.terminalEmitted /\ q.currentRunId = x

\* The runs that a record may still answer: those that wait in its queue, and the
\* one that it is built, replaced or at work for.
Waiting(q, x) == \E i \in DOMAIN q.turnQueue : q.turnQueue[i] = x

\* x is the run that q is built, replaced or at work for.
Has(q, x) ==
    \/ q.loop = "build" /\ q.forRun = x
    \/ q.loop = "token" /\ q.got = x
    \/ Current(q, x)

\* q may still report x.
Holds(q, x) == Waiting(q, x) \/ Has(q, x)

\* No run waits twice, and none waits that its record also has.
Apart(q) ==
    /\ \A i, j \in DOMAIN q.turnQueue : q.turnQueue[i] = q.turnQueue[j] => i = j
    /\ \A i \in DOMAIN q.turnQueue : ~Has(q, q.turnQueue[i])

\* Somebody may still report x.
Held(x) == (\E r \in Recs : Holds(rec[r], x)) \/ (\E r \in Recs : <<r, x>> \in controls)

\* The record that a build replaces waits for it, and for it alone.
OldInv ==
    \A n \in Recs : rec[n].loop = "build" /\ rec[n].oldRec # NoRec =>
        /\ rec[rec[n].oldRec].loop = "rebuild"
        /\ \A m \in Recs : rec[m].loop = "build" /\ rec[m].oldRec = rec[n].oldRec => m = n

\* A run is in one place.
Unique ==
    /\ \A r, s \in Recs : \A x \in Runs : Holds(rec[r], x) /\ Holds(rec[s], x) => r = s
    /\ \A r \in Recs, x \in Runs : <<r, x>> \in controls =>
          /\ \A s \in Recs : ~Holds(rec[s], x)
          /\ \A s \in Recs : <<s, x>> \in controls => s = r

\* The types of what is no record.
OthersTyped ==
    /\ activeThreads \in [Threads -> Recs \cup {NoRec}]
    /\ runToThread \in [Runs -> Threads \cup {NoThread}]
    /\ controls \subseteq Recs \X Runs /\ gates \subseteq Recs \X Runs
    /\ shuttingDown \in BOOLEAN
    /\ sentTo \in [Runs -> Threads \cup {NoThread}]
    /\ terminals \in [Runs -> Nat]
    /\ answers \in [Runs -> Seq(Runs \cup {NoRun})]

\* Every record is typed, and as its loop and generator say.
Shapes == /\ rec \in [Recs -> RecType]
          /\ \A r \in Recs : Shape(rec[r]) /\ Apart(rec[r])

\* What names a record names one that is there; who is held was sent.
Known == /\ \A t \in Threads : activeThreads[t] # NoRec => rec[activeThreads[t]].loop # "free"
         /\ \A r \in Recs, x \in Runs : <<r, x>> \in controls \/ <<r, x>> \in gates =>
                                            rec[r].loop # "free"
         /\ \A x \in Runs : Held(x) => sentTo[x] # NoThread

\* The invariant of the places of runs.
HoldInv == OthersTyped /\ Shapes /\ OldInv /\ Unique /\ Known

\* Where the SDK never works on its own between two turns, it owes the message of
\* the turn and nothing else.
Own(q) ==
    /\ q.loop = "usage" \/ (q.loop = "token" /\ ~q.caught) => q.owed = <<>>
    /\ q.gen \in {"none", "parked"} => q.owed = <<>>
    /\ q.loop = "read" /\ q.turnActive => q.owed = <<q.currentRunId>>
    /\ q.loop = "usage" => q.turnActive /\ q.got = q.currentRunId
    /\ q.background = FALSE

\* A run that is still held, or was never sent, has no answer.
AnswerInv ==
    /\ \A r \in Recs : Own(rec[r])
    /\ \A x \in Runs : sentTo[x] = NoThread \/ Held(x) => answers[x] = <<>>
    /\ OwnAnswers

\* A turn that has been reported is over, unless its thread is.
Once(q) ==
    /\ q.turnActive /\ ~q.dead => ~q.terminalEmitted
    /\ q.loop = "token" => ~q.caught
    /\ q.loop = "rebuild" => ~q.turnActive /\ ~q.caught

\* A run that is still held, or was never sent, has not been reported.
OnceInv ==
    /\ \A r \in Recs : Once(rec[r])
    /\ \A x \in Runs : /\ sentTo[x] = NoThread \/ Held(x) => terminals[x] = 0
                       /\ terminals[x] \in {0, 1}

\* What a record says of the gates S that are open for it.
GateFine(q, S) ==
    /\ q.turnActive /\ ~q.dead => ~q.terminalEmitted
    /\ q.loop \in {"free", "build", "stuck"} => S = {}
    /\ ~q.dead /\ (q.loop = "usage" \/ (q.loop = "token" /\ ~q.caught)) => S = {}
    /\ ~q.dead /\ q.loop # "gone" /\ q.cancelRequested => S = {}
    /\ ~q.dead /\ (q.loop = "read" \/ (q.loop = "token" /\ q.caught)) =>
          /\ \A x \in S : q.turnActive /\ x = q.currentRunId /\ q.asked
          /\ q.turnActive => q.awaitingDecision = IF q.currentRunId \in S THEN 1 ELSE 0

\* The runs that have a gate open for r.
GatesOf(r) == {x \in Runs : <<r, x>> \in gates}

\* The invariant of the gates.
GateInv == \A r \in Recs : GateFine(rec[r], GatesOf(r))


-----------------------------------------------------------------------------
(* What the operations make of a record *)

\* The fields that only the loop and the requests touch, and those of a turn.
SameLife(p, q) ==
    /\ p.thread = q.thread /\ p.policy = q.policy /\ p.loop = q.loop
    /\ p.dead = q.dead /\ p.closeRequested = q.closeRequested
    /\ p.authRetried = q.authRetried /\ p.background = q.background
    /\ p.forRun = q.forRun /\ p.oldRec = q.oldRec
    /\ p.got = q.got /\ p.kind = q.kind /\ p.caught = q.caught

\* The fields of a turn.
SameTurn(p, q) ==
    /\ p.turnQueue = q.turnQueue /\ p.currentRunId = q.currentRunId
    /\ p.turnActive = q.turnActive /\ p.cancelRequested = q.cancelRequested
    /\ p.terminalEmitted = q.terminalEmitted /\ p.asked = q.asked
    /\ p.awaitingDecision = q.awaitingDecision /\ p.owed = q.owed

\* The head of the queue starts.
Starts(p, q) ==
    /\ q.turnQueue # <<>> /\ p.gen = "turn"
    /\ p.turnQueue = Tail(q.turnQueue) /\ p.currentRunId = Head(q.turnQueue)
    /\ p.turnActive = TRUE /\ p.cancelRequested = FALSE /\ p.terminalEmitted = FALSE
    /\ p.asked = FALSE
    /\ p.awaitingDecision = 0 /\ p.owed = Append(q.owed, Head(q.turnQueue))

\* The record that nobody uses is one.
LEMMA BlankIs == Blank \in RecType
<1>1. <<>> \in Seq(Runs)
  OBVIOUS
<1> QED BY <1>1 DEF Blank, RecType, AllPolicies, NoRec

\* A record is known by its fields.
IsRecord(p) == p = [f \in DOMAIN Blank |-> p[f]]

\* Records have the fields of the blank one.
LEMMA RecordsAre ==
    ASSUME NEW q \in RecType
    PROVE  IsRecord(q) /\ DOMAIN q = DOMAIN Blank
<1>1. DOMAIN Blank = DOMAIN q /\ q = [f \in DOMAIN q |-> q[f]]
  BY DEF Blank, RecType
<1> QED BY <1>1 DEF IsRecord

\* Fields of the right types make a record.
LEMMA RecordOf ==
    ASSUME NEW p, IsRecord(p),
           p.thread \in Threads \cup {NoThread}, p.policy \in AllPolicies,
           p.loop \in {"free", "build", "stuck", "read", "usage", "token", "rebuild", "gone"},
           p.gen \in {"none", "parked", "turn", "done"}, p.dead \in BOOLEAN,
           p.closeRequested \in BOOLEAN, p.turnQueue \in Seq(Runs),
           p.currentRunId \in Runs \cup {NoRun}, p.turnActive \in BOOLEAN,
           p.cancelRequested \in BOOLEAN, p.terminalEmitted \in BOOLEAN,
           p.awaitingDecision \in Int, p.authRetried \in BOOLEAN, p.background \in BOOLEAN,
           p.forRun \in Runs \cup {NoRun}, p.oldRec \in Recs \cup {NoRec},
           p.owed \in Seq(Runs), p.got \in Runs \cup {NoRun},
           p.kind \in {"ok", "error", "auth"}, p.caught \in BOOLEAN, p.asked \in BOOLEAN
    PROVE  p \in RecType
BY DEF IsRecord, Blank, RecType

\* A turn starts with the head of the queue.
LEMMA StartHeadIs ==
    ASSUME NEW q \in RecType, q.turnQueue # <<>>
    PROVE  StartHead(q) \in RecType /\ SameLife(StartHead(q), q) /\ Starts(StartHead(q), q)
<1>1. /\ Head(q.turnQueue) \in Runs /\ Tail(q.turnQueue) \in Seq(Runs)
      /\ Append(q.owed, Head(q.turnQueue)) \in Seq(Runs)
  BY DEF RecType
<1>2. StartHead(q) = [q EXCEPT !.turnQueue = Tail(q.turnQueue), !.gen = "turn",
          !.currentRunId = Head(q.turnQueue), !.turnActive = TRUE,
          !.cancelRequested = FALSE, !.terminalEmitted = FALSE,
          !.awaitingDecision = 0, !.asked = FALSE,
          !.owed = Append(q.owed, Head(q.turnQueue))]
  BY DEF StartHead, StartTurn, RecType
<1>3. SameLife(StartHead(q), q)
  BY <1>1, <1>2 DEF RecType, SameLife
<1>4. Starts(StartHead(q), q)
  BY <1>1, <1>2 DEF RecType, Starts
<1>5. StartHead(q) \in RecType
  <2>1. IsRecord(StartHead(q))
    BY <1>2, RecordsAre DEF IsRecord
  <2> DEFINE p == StartHead(q)
  <2>2. /\ p.thread \in Threads \cup {NoThread} /\ p.policy \in AllPolicies
        /\ p.loop \in {"free", "build", "stuck", "read", "usage", "token", "rebuild", "gone"}
        /\ p.dead \in BOOLEAN /\ p.closeRequested \in BOOLEAN
        /\ p.authRetried \in BOOLEAN /\ p.background \in BOOLEAN
        /\ p.forRun \in Runs \cup {NoRun} /\ p.oldRec \in Recs \cup {NoRec}
        /\ p.got \in Runs \cup {NoRun} /\ p.kind \in {"ok", "error", "auth"}
        /\ p.caught \in BOOLEAN
    BY <1>3 DEF SameLife, RecType
  <2>3. /\ p.gen \in {"none", "parked", "turn", "done"} /\ p.turnQueue \in Seq(Runs)
        /\ p.currentRunId \in Runs \cup {NoRun} /\ p.turnActive \in BOOLEAN
        /\ p.cancelRequested \in BOOLEAN /\ p.terminalEmitted \in BOOLEAN
        /\ p.owed \in Seq(Runs) /\ p.asked \in BOOLEAN
    BY <1>1, <1>4 DEF Starts
  <2>4. p.awaitingDecision \in Int
    <3>1. p.awaitingDecision = 0
      BY <1>4 DEF Starts
    <3> QED BY <3>1
  <2> HIDE DEF p
  <2> QED BY <2>1, <2>2, <2>3, <2>4, RecordOf DEF p
<1> QED BY <1>3, <1>4, <1>5

\* The generator takes the next turn, parks, or is done.
LEMMA PullTurnIs ==
    ASSUME NEW q \in RecType
    PROVE  LET p == PullTurn(q)
           IN  /\ p \in RecType /\ SameLife(p, q)
               /\ \/ q.closeRequested /\ p.gen = "done" /\ SameTurn(p, q)
                  \/ ~q.closeRequested /\ Starts(p, q)
                  \/ /\ ~q.closeRequested /\ q.turnQueue = <<>>
                     /\ p.gen = "parked" /\ SameTurn(p, q)
<1>1. \A g \in {"done", "parked"} :
        /\ [q EXCEPT !.gen = g] \in RecType /\ [q EXCEPT !.gen = g].gen = g
        /\ SameLife([q EXCEPT !.gen = g], q) /\ SameTurn([q EXCEPT !.gen = g], q)
  BY DEF RecType, SameLife, SameTurn
<1>2. CASE q.closeRequested
  BY <1>1, <1>2 DEF PullTurn
<1>3. CASE ~q.closeRequested /\ q.turnQueue # <<>>
  BY <1>3, StartHeadIs DEF PullTurn
<1>4. CASE ~q.closeRequested /\ q.turnQueue = <<>>
  BY <1>1, <1>4 DEF PullTurn
<1> QED BY <1>2, <1>3, <1>4

\* A turn that is over gives way to the next, where there is a generator in it.
LEMMA ReleaseIs ==
    ASSUME NEW q \in RecType
    PROVE  LET p == Release(q)
           IN  /\ p \in RecType /\ SameLife(p, q)
               /\ \/ q.gen # "turn" /\ p = q
                  \/ q.gen = "turn" /\ q.closeRequested /\ p.gen = "done" /\ SameTurn(p, q)
                  \/ q.gen = "turn" /\ ~q.closeRequested /\ Starts(p, q)
                  \/ /\ q.gen = "turn" /\ ~q.closeRequested /\ q.turnQueue = <<>>
                     /\ p.gen = "parked" /\ SameTurn(p, q)
<1>1. CASE q.gen = "turn"
  BY <1>1, PullTurnIs DEF Release
<1>2. CASE q.gen # "turn"
  BY <1>2 DEF Release, SameLife
<1> QED BY <1>1, <1>2

\* A run is queued, and taken at once where the generator is parked.
LEMMA QueuedIs ==
    ASSUME NEW q \in RecType, NEW x \in Runs
    PROVE  LET p == Queued(q, x)
           IN  /\ p \in RecType /\ SameLife(p, q)
               /\ \/ /\ q.gen = "parked" /\ ~q.turnActive
                     /\ \E w \in RecType : /\ w.turnQueue = Append(q.turnQueue, x)
                                          /\ w.owed = q.owed /\ Starts(p, w)
                  \/ /\ ~(q.gen = "parked" /\ ~q.turnActive) /\ p.gen = q.gen
                     /\ p.turnQueue = Append(q.turnQueue, x)
                     /\ p.currentRunId = q.currentRunId /\ p.turnActive = q.turnActive
                     /\ p.cancelRequested = q.cancelRequested
                     /\ p.terminalEmitted = q.terminalEmitted /\ p.asked = q.asked
                     /\ p.awaitingDecision = q.awaitingDecision /\ p.owed = q.owed
<1> DEFINE w == [q EXCEPT !.turnQueue = Append(q.turnQueue, x)]
<1>1. Append(q.turnQueue, x) \in Seq(Runs)
  BY DEF RecType
<1>2. /\ w \in RecType /\ SameLife(w, q) /\ w.turnQueue = Append(q.turnQueue, x)
      /\ w.gen = q.gen /\ w.turnActive = q.turnActive /\ w.owed = q.owed
      /\ w.currentRunId = q.currentRunId /\ w.cancelRequested = q.cancelRequested
      /\ w.terminalEmitted = q.terminalEmitted /\ w.asked = q.asked
      /\ w.awaitingDecision = q.awaitingDecision
  BY <1>1 DEF RecType, SameLife
<1>3. Queued(q, x) = IF q.gen = "parked" /\ ~q.turnActive THEN StartHead(w) ELSE w
  BY DEF Queued
<1> HIDE DEF w
<1>4. w.turnQueue # <<>>
  BY <1>2 DEF RecType
<1>5. CASE q.gen = "parked" /\ ~q.turnActive
  <2>1. StartHead(w) \in RecType /\ SameLife(StartHead(w), w) /\ Starts(StartHead(w), w)
    BY <1>2, <1>4, StartHeadIs
  <2> QED BY <1>2, <1>3, <1>5, <2>1 DEF SameLife
<1>6. CASE ~(q.gen = "parked" /\ ~q.turnActive)
  BY <1>2, <1>3, <1>6
<1> QED BY <1>5, <1>6

\* A teardown marks the record and ends its generator.
LEMMA TornIs ==
    ASSUME NEW q \in RecType
    PROVE  LET p == Torn(q)
           IN  /\ p \in RecType /\ SameTurn(p, q) /\ p.dead
               /\ p.thread = q.thread /\ p.policy = q.policy /\ p.loop = q.loop
               /\ p.authRetried = q.authRetried /\ p.background = q.background
               /\ p.forRun = q.forRun /\ p.oldRec = q.oldRec
               /\ p.got = q.got /\ p.kind = q.kind /\ p.caught = q.caught
               /\ \/ q.dead /\ p.closeRequested = q.closeRequested /\ p.gen = q.gen
                  \/ ~q.dead /\ p.closeRequested /\ q.gen = "none" /\ p.gen = "none"
                  \/ ~q.dead /\ p.closeRequested /\ q.gen # "none" /\ p.gen = "done"
<1>1. CASE q.dead
  BY <1>1 DEF Torn, SameTurn
<1>2. CASE ~q.dead
  <2>1. PICK g \in {"none", "done"} : g = IF q.gen = "none" THEN q.gen ELSE "done"
    OBVIOUS
  <2> DEFINE p == [q EXCEPT !.dead = TRUE, !.closeRequested = TRUE, !.gen = g]
  <2>2. Torn(q) = p
    BY <1>2, <2>1 DEF Torn, RecType
  <2>3. p \in RecType
    BY DEF RecType
  <2>4. SameTurn(p, q)
    BY DEF RecType, SameTurn
  <2>5. /\ p.dead /\ p.closeRequested
        /\ p.gen = IF q.gen = "none" THEN q.gen ELSE "done"
    BY <2>1 DEF RecType
  <2>6. /\ p.thread = q.thread /\ p.policy = q.policy /\ p.loop = q.loop
        /\ p.authRetried = q.authRetried /\ p.background = q.background
        /\ p.forRun = q.forRun /\ p.oldRec = q.oldRec
        /\ p.got = q.got /\ p.kind = q.kind /\ p.caught = q.caught
    BY DEF RecType
  <2> HIDE DEF p
  <2> QED BY <1>2, <2>2, <2>3, <2>4, <2>5, <2>6
<1> QED BY <1>1, <1>2

\* The fields that are blank in a record whose loop is over.
SameRest(p, q) ==
    /\ p.policy = q.policy /\ p.closeRequested = q.closeRequested
    /\ p.currentRunId = q.currentRunId /\ p.cancelRequested = q.cancelRequested
    /\ p.terminalEmitted = q.terminalEmitted /\ p.awaitingDecision = q.awaitingDecision
    /\ p.authRetried = q.authRetried /\ p.background = q.background
    /\ p.forRun = q.forRun /\ p.oldRec = q.oldRec /\ p.owed = q.owed
    /\ p.got = q.got /\ p.kind = q.kind /\ p.caught = q.caught /\ p.asked = q.asked

\* What is left of a record whose loop is over.
LEMMA GoneIs ==
    ASSUME NEW q \in RecType
    PROVE  LET p == Gone(q)
           IN  /\ p \in RecType /\ p.loop = "gone" /\ p.thread = q.thread
               /\ p.dead = q.dead /\ p.gen = q.gen /\ p.turnQueue = q.turnQueue
               /\ p.turnActive = q.turnActive /\ p.currentRunId = NoRun /\ p.owed = <<>>
               /\ p.policy = "persist" /\ ~p.closeRequested /\ ~p.terminalEmitted
               /\ ~p.cancelRequested /\ ~p.background /\ ~p.caught /\ p.oldRec = NoRec
<1> DEFINE p == [Blank EXCEPT !.thread = q.thread, !.loop = "gone", !.dead = q.dead,
                              !.turnQueue = q.turnQueue, !.gen = q.gen,
                              !.turnActive = q.turnActive]
<1>1. /\ Blank \in RecType /\ Blank.currentRunId = NoRun /\ Blank.owed = <<>>
      /\ Blank.policy = "persist" /\ ~Blank.closeRequested /\ ~Blank.terminalEmitted
      /\ ~Blank.cancelRequested /\ ~Blank.background /\ ~Blank.caught /\ Blank.oldRec = NoRec
  BY BlankIs DEF Blank
<1>2. /\ p.loop = "gone" /\ p.thread = q.thread
      /\ p.dead = q.dead /\ p.gen = q.gen /\ p.turnQueue = q.turnQueue
      /\ p.turnActive = q.turnActive
  <2>1. {"thread", "loop", "dead", "turnQueue", "gen", "turnActive"} \subseteq DOMAIN Blank
    BY DEF Blank
  <2> QED BY <2>1
<1>3. SameRest(p, Blank)
  BY <1>1 DEF RecType, SameRest
<1>4. p \in RecType
  <2>1. IsRecord(p)
    BY <1>1, RecordsAre DEF IsRecord
  <2>2. p.loop \in {"gone"} /\ p.thread \in Threads \cup {NoThread} /\ p.dead \in BOOLEAN
        /\ p.turnQueue \in Seq(Runs) /\ p.turnActive \in BOOLEAN
        /\ p.gen \in {"none", "parked", "turn", "done"}
    BY <1>2 DEF RecType
  <2>3. /\ p.policy \in AllPolicies /\ p.closeRequested \in BOOLEAN
        /\ p.currentRunId \in Runs \cup {NoRun}
        /\ p.cancelRequested \in BOOLEAN /\ p.terminalEmitted \in BOOLEAN
        /\ p.awaitingDecision \in Int /\ p.authRetried \in BOOLEAN /\ p.background \in BOOLEAN
        /\ p.forRun \in Runs \cup {NoRun} /\ p.oldRec \in Recs \cup {NoRec}
        /\ p.owed \in Seq(Runs) /\ p.got \in Runs \cup {NoRun}
        /\ p.kind \in {"ok", "error", "auth"} /\ p.caught \in BOOLEAN /\ p.asked \in BOOLEAN
    BY <1>1, <1>3 DEF SameRest, RecType
  <2> HIDE DEF p
  <2> QED BY <2>1, <2>2, <2>3, RecordOf
<1> HIDE DEF p
<1> QED BY <1>1, <1>2, <1>3, <1>4 DEF Gone, p, SameRest

-----------------------------------------------------------------------------
(* What the operations keep of a record *)

\* p is a proper record and may answer nothing that q may not.
Keeps(p, q) ==
    /\ p \in RecType /\ Shape(p) /\ Apart(p)
    /\ \A x \in Runs : Holds(p, x) => Holds(q, x)

\* What waits in a queue is a run.
LEMMA QueueIsOfRuns ==
    ASSUME NEW q \in RecType
    PROVE  /\ q.turnQueue \in Seq(Runs)
           /\ \A i \in DOMAIN q.turnQueue : q.turnQueue[i] \in Runs
BY DEF RecType

\* The queue stays.
LEMMA QueueStays ==
    ASSUME NEW q \in RecType, NEW p \in RecType, Shape(p), Apart(q),
           p.turnQueue = q.turnQueue,
           \A x \in Runs : Has(p, x) => Has(q, x)
    PROVE  Keeps(p, q)
<1>1. Apart(p)
  BY QueueIsOfRuns DEF Apart
<1> QED BY <1>1 DEF Keeps, Holds, Waiting

\* The head of the queue starts.
LEMMA QueueStarts ==
    ASSUME NEW q \in RecType, NEW p \in RecType, Shape(p), Apart(q),
           q.turnQueue # <<>>, p.turnQueue = Tail(q.turnQueue),
           \A x \in Runs : Has(p, x) => Has(q, x) \/ x = Head(q.turnQueue)
    PROVE  Keeps(p, q)
<1> DEFINE s == q.turnQueue
<1>1. s \in Seq(Runs) /\ s # <<>>
  BY DEF RecType
<1> HIDE DEF s
<1>2. /\ Len(s) \in Nat /\ DOMAIN s = 1 .. Len(s) /\ 1 \in DOMAIN s
      /\ DOMAIN Tail(s) = 1 .. Len(s) - 1
      /\ \A i \in 1 .. Len(s) - 1 : Tail(s)[i] = s[i + 1] /\ i + 1 \in DOMAIN s /\ i + 1 # 1
      /\ Head(s) = s[1]
      /\ \A i \in DOMAIN s : s[i] \in Runs
  BY <1>1
<1>3. \A i, j \in DOMAIN s : s[i] = s[j] => i = j
  BY DEF Apart, s
<1>4. \A i, j \in DOMAIN Tail(s) : Tail(s)[i] = Tail(s)[j] => i = j
  <2> SUFFICES ASSUME NEW i \in DOMAIN Tail(s), NEW j \in DOMAIN Tail(s), Tail(s)[i] = Tail(s)[j]
               PROVE  i = j
    OBVIOUS
  <2>1. s[i + 1] = s[j + 1] /\ i + 1 \in DOMAIN s /\ j + 1 \in DOMAIN s /\ i \in Nat /\ j \in Nat
    BY <1>2
  <2>2. i + 1 = j + 1
    BY <1>3, <2>1
  <2> QED BY <2>1, <2>2
<1>5. \A i \in DOMAIN Tail(s) : ~Has(p, Tail(s)[i])
  <2> SUFFICES ASSUME NEW i \in DOMAIN Tail(s), Has(p, Tail(s)[i])
               PROVE  FALSE
    OBVIOUS
  <2>1. Tail(s)[i] = s[i + 1] /\ i + 1 \in DOMAIN s /\ i + 1 # 1 /\ s[i + 1] \in Runs
    BY <1>2
  <2>2. ~Has(q, s[i + 1])
    BY <2>1 DEF Apart, s
  <2>3. s[i + 1] = s[1]
    BY <1>2, <2>1, <2>2 DEF s
  <2> QED BY <1>2, <1>3, <2>1, <2>3
<1>6. Apart(p)
  BY <1>4, <1>5 DEF Apart, s
<1>7. ASSUME NEW x \in Runs, Holds(p, x) PROVE Holds(q, x)
  <2>1. CASE Waiting(p, x)
    <3>1. PICK i \in DOMAIN Tail(s) : Tail(s)[i] = x
      BY <2>1 DEF Waiting, s
    <3>2. i + 1 \in DOMAIN s /\ s[i + 1] = x
      BY <1>2, <3>1
    <3> QED BY <3>2 DEF Holds, Waiting, s
  <2>2. CASE Has(p, x)
    <3>1. Has(q, x) \/ (1 \in DOMAIN s /\ s[1] = x)
      BY <1>2, <2>2 DEF s
    <3> QED BY <3>1 DEF Holds, Waiting, s
  <2> QED BY <1>7, <2>1, <2>2 DEF Holds
<1> QED BY <1>6, <1>7 DEF Keeps

\* A run that the record does not have is queued.
LEMMA QueueGrows ==
    ASSUME NEW q \in RecType, NEW x \in Runs, Apart(q), ~Holds(q, x),
           NEW w \in RecType, w.turnQueue = Append(q.turnQueue, x),
           \A y \in Runs : Has(w, y) <=> Has(q, y)
    PROVE  Apart(w) /\ \A y \in Runs : Holds(w, y) => Holds(q, y) \/ y = x
<1> DEFINE s == q.turnQueue
<1>1. s \in Seq(Runs)
  BY DEF RecType
<1> HIDE DEF s
<1>2. /\ Len(s) \in Nat /\ DOMAIN s = 1 .. Len(s)
      /\ DOMAIN Append(s, x) = 1 .. Len(s) + 1
      /\ \A i \in 1 .. Len(s) : Append(s, x)[i] = s[i] /\ s[i] \in Runs
      /\ Append(s, x)[Len(s) + 1] = x
  BY <1>1
<1>3. \A i \in DOMAIN s : s[i] # x
  BY DEF Holds, Waiting, s
<1>4. \A i, j \in DOMAIN Append(s, x) : Append(s, x)[i] = Append(s, x)[j] => i = j
  <2>1. \A i, j \in DOMAIN s : s[i] = s[j] => i = j
    BY DEF Apart, s
  <2> QED BY <1>2, <1>3, <2>1
<1>5. \A i \in DOMAIN Append(s, x) : \/ i \in DOMAIN s /\ Append(s, x)[i] = s[i]
                                     \/ Append(s, x)[i] = x
  BY <1>2
<1>6. Apart(w)
  <2>1. \A i \in DOMAIN s : ~Has(q, s[i]) /\ s[i] \in Runs
    BY <1>2 DEF Apart, s
  <2>2. ~Has(q, x)
    BY DEF Holds
  <2> QED BY <1>4, <1>5, <2>1, <2>2 DEF Apart, s
<1>7. ASSUME NEW y \in Runs, Holds(w, y) PROVE Holds(q, y) \/ y = x
  BY <1>5, <1>7 DEF Holds, Waiting, s
<1> QED BY <1>6, <1>7

\* A teardown adds no run.
LEMMA TornKeeps ==
    ASSUME NEW q \in RecType, Shape(q), Apart(q), q.loop # "free"
    PROVE  Keeps(Torn(q), q)
<1> DEFINE p == Torn(q)
<1>1. /\ p \in RecType /\ SameTurn(p, q) /\ p.dead
      /\ p.loop = q.loop /\ p.forRun = q.forRun /\ p.got = q.got /\ p.caught = q.caught
      /\ \/ q.dead /\ p.closeRequested = q.closeRequested /\ p.gen = q.gen
         \/ ~q.dead /\ p.closeRequested /\ q.gen = "none" /\ p.gen = "none"
         \/ ~q.dead /\ p.closeRequested /\ q.gen # "none" /\ p.gen = "done"
  BY TornIs
<1> HIDE DEF p
<1>2. Shape(p)
  BY <1>1 DEF Shape, SameTurn
<1>3. \A x \in Runs : Has(p, x) => Has(q, x)
  BY <1>1 DEF Has, Current, SameTurn
<1> QED BY <1>1, <1>2, <1>3, QueueStays DEF SameTurn, p

\* Where the loop stands: a record is replaced until its replacement is there, and
\* is not built twice.
Moves(p, q) ==
    /\ p.loop # "free"
    /\ q.loop = "rebuild" => p.loop = "rebuild"
    /\ p.loop = "build" => q.loop = "build" /\ p.oldRec = q.oldRec

\* The conditions on a record, kept by an operation.
OwnKept(p, q) == Own(q) => Own(p)
OnceKept(p, q) == Once(q) => Once(p)
GateKept(p, q) == \A S \in SUBSET Runs : GateFine(q, S) => GateFine(p, S)

\* A gate opens.
LEMMA AskIs ==
    ASSUME NEW q \in RecType, Shape(q), Apart(q),
           q.loop = "read", q.turnActive, ~q.cancelRequested, ~q.dead, ~q.asked
    PROVE  LET p == [q EXCEPT !.asked = TRUE, !.awaitingDecision = @ + 1]
           IN  /\ Keeps(p, q) /\ Moves(p, q) /\ OwnKept(p, q) /\ OnceKept(p, q)
               /\ \A S \in SUBSET Runs : GateFine(q, S) => GateFine(p, S \cup {q.currentRunId})
<1> DEFINE p == [q EXCEPT !.asked = TRUE, !.awaitingDecision = @ + 1]
<1>0. q.awaitingDecision + 1 \in Int
  BY DEF RecType
<1>1. p \in RecType
  BY <1>0 DEF RecType
<1>2. Shape(p)
  BY <1>0 DEF RecType, Shape
<1>3. \A x \in Runs : Has(p, x) => Has(q, x)
  BY <1>0 DEF RecType, Has, Current, Shape
<1>4. p.turnQueue = q.turnQueue
  BY <1>0 DEF RecType
<1>5. Moves(p, q)
  BY <1>0 DEF RecType, Moves, Shape
<1>6. OwnKept(p, q)
  BY <1>0 DEF RecType, OwnKept, Own, Shape
<1>7. OnceKept(p, q)
  BY <1>0 DEF RecType, OnceKept, Once, Shape
<1>8. \A S \in SUBSET Runs : GateFine(q, S) => GateFine(p, S \cup {q.currentRunId})
  BY <1>0 DEF RecType, GateFine, Shape
<1> HIDE DEF p
<1>9. Keeps(p, q)
  BY <1>1, <1>2, <1>3, <1>4, QueueStays
<1> QED BY <1>5, <1>6, <1>7, <1>8, <1>9 DEF p

\* The user answers.
LEMMA DecidedIs ==
    ASSUME NEW q \in RecType, Shape(q), Apart(q),
           q.loop # "free"
    PROVE  LET p == [q EXCEPT !.awaitingDecision = @ - 1]
           IN  /\ Keeps(p, q) /\ Moves(p, q) /\ OwnKept(p, q) /\ OnceKept(p, q)
               /\ \A S \in SUBSET Runs, x \in Runs : x \in S /\ GateFine(q, S) => GateFine(p, S \ {x})
<1> DEFINE p == [q EXCEPT !.awaitingDecision = @ - 1]
<1>0. q.awaitingDecision - 1 \in Int
  BY DEF RecType
<1>1. p \in RecType
  BY <1>0 DEF RecType
<1>2. Shape(p)
  BY <1>0 DEF RecType, Shape
<1>3. \A x \in Runs : Has(p, x) => Has(q, x)
  BY <1>0 DEF RecType, Has, Current, Shape
<1>4. p.turnQueue = q.turnQueue
  BY <1>0 DEF RecType
<1>5. Moves(p, q)
  BY <1>0 DEF RecType, Moves, Shape
<1>6. OwnKept(p, q)
  BY <1>0 DEF RecType, OwnKept, Own, Shape
<1>7. OnceKept(p, q)
  BY <1>0 DEF RecType, OnceKept, Once, Shape
<1>8. \A S \in SUBSET Runs, x \in Runs : x \in S /\ GateFine(q, S) => GateFine(p, S \ {x})
  BY <1>0 DEF RecType, GateFine, Shape
<1> HIDE DEF p
<1>9. Keeps(p, q)
  BY <1>1, <1>2, <1>3, <1>4, QueueStays
<1> QED BY <1>5, <1>6, <1>7, <1>8, <1>9 DEF p

\* The turn is cancelled, and the gate it waits for rejected.
LEMMA RejectedIs ==
    ASSUME NEW q \in RecType, Shape(q), Apart(q),
           q.turnActive, q.awaitingDecision > 0
    PROVE  LET p == [q EXCEPT !.cancelRequested = TRUE, !.awaitingDecision = @ - 1]
           IN  /\ Keeps(p, q) /\ Moves(p, q) /\ OwnKept(p, q) /\ OnceKept(p, q)
               /\ \A S \in SUBSET Runs : GateFine(q, S) => GateFine(p, S \ {q.currentRunId})
<1> DEFINE p == [q EXCEPT !.cancelRequested = TRUE, !.awaitingDecision = @ - 1]
<1>0. q.awaitingDecision - 1 \in Int
  BY DEF RecType
<1>1. p \in RecType
  BY <1>0 DEF RecType
<1>2. Shape(p)
  BY <1>0 DEF RecType, Shape
<1>3. \A x \in Runs : Has(p, x) => Has(q, x)
  BY <1>0 DEF RecType, Has, Current, Shape
<1>4. p.turnQueue = q.turnQueue
  BY <1>0 DEF RecType
<1>5. Moves(p, q)
  BY <1>0 DEF RecType, Moves, Shape
<1>6. OwnKept(p, q)
  BY <1>0 DEF RecType, OwnKept, Own, Shape
<1>7. OnceKept(p, q)
  BY <1>0 DEF RecType, OnceKept, Once, Shape
<1>8. \A S \in SUBSET Runs : GateFine(q, S) => GateFine(p, S \ {q.currentRunId})
  BY <1>0 DEF RecType, GateFine, Shape
<1> HIDE DEF p
<1>9. Keeps(p, q)
  BY <1>1, <1>2, <1>3, <1>4, QueueStays
<1> QED BY <1>5, <1>6, <1>7, <1>8, <1>9 DEF p

\* The turn is cancelled while it waits for nobody.
LEMMA CancelledIs ==
    ASSUME NEW q \in RecType, Shape(q), Apart(q),
           q.turnActive
    PROVE  LET p == [q EXCEPT !.cancelRequested = TRUE]
           IN  /\ Keeps(p, q) /\ Moves(p, q) /\ OwnKept(p, q) /\ OnceKept(p, q)
               /\ \A S \in SUBSET Runs : ~(q.awaitingDecision > 0 /\ q.currentRunId \in S) /\ GateFine(q, S)
                  => GateFine(p, S)
<1> DEFINE p == [q EXCEPT !.cancelRequested = TRUE]
<1>1. p \in RecType
  BY DEF RecType
<1>2. Shape(p)
  BY DEF RecType, Shape
<1>3. \A x \in Runs : Has(p, x) => Has(q, x)
  BY DEF RecType, Has, Current, Shape
<1>4. p.turnQueue = q.turnQueue
  BY DEF RecType
<1>5. Moves(p, q)
  BY DEF RecType, Moves, Shape
<1>6. OwnKept(p, q)
  BY DEF RecType, OwnKept, Own, Shape
<1>7. OnceKept(p, q)
  BY DEF RecType, OnceKept, Once, Shape
<1>8. \A S \in SUBSET Runs : ~(q.awaitingDecision > 0 /\ q.currentRunId \in S) /\ GateFine(q, S)
       => GateFine(p, S)
  BY DEF RecType, GateFine, Shape
<1> HIDE DEF p
<1>9. Keeps(p, q)
  BY <1>1, <1>2, <1>3, <1>4, QueueStays
<1> QED BY <1>5, <1>6, <1>7, <1>8, <1>9 DEF p

\* Background work begins or ends.
LEMMA FlippedIs ==
    ASSUME NEW q \in RecType, Shape(q), Apart(q),
           q.loop = "read", q.gen # "none"
    PROVE  LET p == [q EXCEPT !.background = ~@]
           IN  /\ Keeps(p, q) /\ Moves(p, q) /\ OnceKept(p, q)
               /\ \A S \in SUBSET Runs : GateFine(q, S) => GateFine(p, S)
<1> DEFINE p == [q EXCEPT !.background = ~@]
<1>0. PICK b \in BOOLEAN : b = ~q.background
  OBVIOUS
<1>1. p \in RecType
  <2>1. p = [q EXCEPT !.background = b]
    BY <1>0
  <2>2. [q EXCEPT !.background = b] \in RecType
    BY DEF RecType
  <2> QED BY <2>1, <2>2
<1>2. Shape(p)
  BY DEF RecType, Shape
<1>3. \A x \in Runs : Has(p, x) => Has(q, x)
  BY DEF RecType, Has, Current, Shape
<1>4. p.turnQueue = q.turnQueue
  BY DEF RecType
<1>5. Moves(p, q)
  BY DEF RecType, Moves, Shape
<1>6. OnceKept(p, q)
  BY DEF RecType, OnceKept, Once, Shape
<1>7. \A S \in SUBSET Runs : GateFine(q, S) => GateFine(p, S)
  BY DEF RecType, GateFine, Shape
<1> HIDE DEF p
<1>8. Keeps(p, q)
  BY <1>1, <1>2, <1>3, <1>4, QueueStays
<1> QED BY <1>5, <1>6, <1>7, <1>8 DEF p

\* A quota rejection.
LEMMA LimitedIs ==
    ASSUME NEW q \in RecType, Shape(q), Apart(q),
           q.loop = "read", q.turnActive, q.currentRunId \in Runs, ~q.terminalEmitted
    PROVE  LET p == [q EXCEPT !.terminalEmitted = TRUE]
           IN  /\ Keeps(p, q) /\ Moves(p, q) /\ OwnKept(p, q) /\ ~Holds(p, q.currentRunId)
<1> DEFINE p == [q EXCEPT !.terminalEmitted = TRUE]
<1>1. p \in RecType
  BY DEF RecType
<1>2. Shape(p)
  BY DEF RecType, Shape
<1>3. \A x \in Runs : Has(p, x) => Has(q, x)
  BY DEF RecType, Has, Current, Shape
<1>4. p.turnQueue = q.turnQueue
  BY DEF RecType
<1>5. Moves(p, q)
  BY DEF RecType, Moves, Shape
<1>6. OwnKept(p, q)
  BY DEF RecType, OwnKept, Own, Shape
<1>7. ~Has(p, q.currentRunId) /\ ~Waiting(q, q.currentRunId)
  BY DEF RecType, Has, Current, Apart, Waiting, Shape
<1> HIDE DEF p
<1>8. Keeps(p, q)
  BY <1>1, <1>2, <1>3, <1>4, QueueStays
<1>9. ~Holds(p, q.currentRunId)
  BY <1>4, <1>7 DEF Holds, Waiting
<1> QED BY <1>5, <1>6, <1>8, <1>9 DEF p

\* The SDK answers a message during a turn.
LEMMA ResultIs ==
    ASSUME NEW q \in RecType, Shape(q), Apart(q), NEW kind \in {"ok", "error", "auth"},
           q.loop = "read", q.turnActive, q.owed # <<>>
    PROVE  LET p == [q EXCEPT !.loop = "usage", !.kind = kind, !.got = Head(q.owed),
                    !.owed = Tail(@), !.closeRequested = @ \/ q.policy = "closeAfterResult"]
           IN  /\ Keeps(p, q) /\ Moves(p, q) /\ OwnKept(p, q) /\ OnceKept(p, q)
               /\ \A S \in SUBSET Runs :
                    /\ q.currentRunId \in S => q.terminalEmitted \/ q.cancelRequested
                    /\ GateFine(q, S)
                    => GateFine(p, S)
<1> DEFINE p == [q EXCEPT !.loop = "usage", !.kind = kind, !.got = Head(q.owed),
                    !.owed = Tail(@), !.closeRequested = @ \/ q.policy = "closeAfterResult"]
<1>0. /\ Head(q.owed) \in Runs /\ Tail(q.owed) \in Seq(Runs)
      /\ Own(q) => Head(q.owed) = q.currentRunId /\ Tail(q.owed) = <<>>
  <2>1. Head(q.owed) \in Runs /\ Tail(q.owed) \in Seq(Runs)
    BY DEF RecType
  <2>2. Own(q) => Head(q.owed) = q.currentRunId /\ Tail(q.owed) = <<>>
    <3>1. \A x : Head(<<x>>) = x /\ Tail(<<x>>) = <<>>
      OBVIOUS
    <3> QED BY <3>1 DEF Own
  <2> QED BY <2>1, <2>2
<1>1. p \in RecType
  <2>1. PICK b \in BOOLEAN : b = (q.closeRequested \/ q.policy = "closeAfterResult")
    OBVIOUS
  <2>2. p = [q EXCEPT !.loop = "usage", !.kind = kind, !.got = Head(q.owed),
                      !.owed = Tail(q.owed), !.closeRequested = b]
    BY <2>1
  <2>3. [q EXCEPT !.loop = "usage", !.kind = kind, !.got = Head(q.owed),
                  !.owed = Tail(q.owed), !.closeRequested = b] \in RecType
    BY <1>0 DEF RecType
  <2> QED BY <2>2, <2>3
<1>2. Shape(p)
  BY <1>0 DEF RecType, Shape
<1>3. \A x \in Runs : Has(p, x) => Has(q, x)
  BY <1>0 DEF RecType, Has, Current, Shape
<1>4. p.turnQueue = q.turnQueue
  BY <1>0 DEF RecType
<1>5. Moves(p, q)
  BY <1>0 DEF RecType, Moves, Shape
<1>6. OwnKept(p, q)
  BY <1>0 DEF RecType, OwnKept, Own, Shape
<1>7. OnceKept(p, q)
  BY <1>0 DEF RecType, OnceKept, Once, Shape
<1>8. \A S \in SUBSET Runs :
         /\ q.currentRunId \in S => q.terminalEmitted \/ q.cancelRequested
         /\ GateFine(q, S)
         => GateFine(p, S)
  BY <1>0 DEF RecType, GateFine, Shape
<1> HIDE DEF p
<1>9. Keeps(p, q)
  BY <1>1, <1>2, <1>3, <1>4, QueueStays
<1> QED BY <1>5, <1>6, <1>7, <1>8, <1>9 DEF p

\* The SDK answers a message between two turns.
LEMMA LateIs ==
    ASSUME NEW q \in RecType, Shape(q), Apart(q),
           q.loop = "read", ~q.turnActive, q.owed # <<>>
    PROVE  LET p == [q EXCEPT !.owed = Tail(@)]
           IN  /\ Keeps(p, q) /\ Moves(p, q) /\ OwnKept(p, q) /\ OnceKept(p, q)
               /\ \A S \in SUBSET Runs : GateFine(q, S) => GateFine(p, S)
<1> DEFINE p == [q EXCEPT !.owed = Tail(@)]
<1>0. Tail(q.owed) \in Seq(Runs)
  BY DEF RecType
<1>1. p \in RecType
  BY <1>0 DEF RecType
<1>2. Shape(p)
  BY <1>0 DEF RecType, Shape
<1>3. \A x \in Runs : Has(p, x) => Has(q, x)
  BY <1>0 DEF RecType, Has, Current, Shape
<1>4. p.turnQueue = q.turnQueue
  BY <1>0 DEF RecType
<1>5. Moves(p, q)
  BY <1>0 DEF RecType, Moves, Shape
<1>6. OwnKept(p, q)
  BY <1>0 DEF RecType, OwnKept, Own, Shape
<1>7. OnceKept(p, q)
  BY <1>0 DEF RecType, OnceKept, Once, Shape
<1>8. \A S \in SUBSET Runs : GateFine(q, S) => GateFine(p, S)
  BY <1>0 DEF RecType, GateFine, Shape
<1> HIDE DEF p
<1>9. Keeps(p, q)
  BY <1>1, <1>2, <1>3, <1>4, QueueStays
<1> QED BY <1>5, <1>6, <1>7, <1>8, <1>9 DEF p

\* A turn is to be replayed with a new token.
LEMMA ReplayIs ==
    ASSUME NEW q \in RecType, Shape(q), Apart(q),
           q.loop = "usage", ~q.terminalEmitted
    PROVE  LET p == [q EXCEPT !.loop = "token", !.got = q.currentRunId, !.turnActive = FALSE,
                     !.terminalEmitted = TRUE, !.authRetried = TRUE, !.caught = FALSE]
           IN  /\ Keeps(p, q) /\ Moves(p, q) /\ OwnKept(p, q) /\ OnceKept(p, q)
               /\ \A S \in SUBSET Runs : GateFine(q, S) => GateFine(p, S)
<1> DEFINE p == [q EXCEPT !.loop = "token", !.got = q.currentRunId, !.turnActive = FALSE,
                     !.terminalEmitted = TRUE, !.authRetried = TRUE, !.caught = FALSE]
<1>1. p \in RecType
  BY DEF RecType
<1>2. Shape(p)
  BY DEF RecType, Shape
<1>3. \A x \in Runs : Has(p, x) => Has(q, x)
  BY DEF RecType, Has, Current, Shape
<1>4. p.turnQueue = q.turnQueue
  BY DEF RecType
<1>5. Moves(p, q)
  BY DEF RecType, Moves, Shape
<1>6. OwnKept(p, q)
  BY DEF RecType, OwnKept, Own, Shape
<1>7. OnceKept(p, q)
  BY DEF RecType, OnceKept, Once, Shape
<1>8. \A S \in SUBSET Runs : GateFine(q, S) => GateFine(p, S)
  BY DEF RecType, GateFine, Shape
<1> HIDE DEF p
<1>9. Keeps(p, q)
  BY <1>1, <1>2, <1>3, <1>4, QueueStays
<1> QED BY <1>5, <1>6, <1>7, <1>8, <1>9 DEF p

\* The query throws an authentication error.
LEMMA ThrownIs ==
    ASSUME NEW q \in RecType, Shape(q), Apart(q),
           q.loop = "read", q.turnActive, ~q.terminalEmitted
    PROVE  LET p == [q EXCEPT !.loop = "token", !.got = q.currentRunId, !.authRetried = TRUE,
                     !.caught = TRUE]
           IN  /\ Keeps(p, q) /\ Moves(p, q) /\ OwnKept(p, q)
               /\ \A S \in SUBSET Runs : GateFine(q, S) => GateFine(p, S)
<1> DEFINE p == [q EXCEPT !.loop = "token", !.got = q.currentRunId, !.authRetried = TRUE,
                     !.caught = TRUE]
<1>1. p \in RecType
  BY DEF RecType
<1>2. Shape(p)
  BY DEF RecType, Shape
<1>3. \A x \in Runs : Has(p, x) => Has(q, x)
  BY DEF RecType, Has, Current, Shape
<1>4. p.turnQueue = q.turnQueue
  BY DEF RecType
<1>5. Moves(p, q)
  BY DEF RecType, Moves, Shape
<1>6. OwnKept(p, q)
  BY DEF RecType, OwnKept, Own, Shape
<1>7. \A S \in SUBSET Runs : GateFine(q, S) => GateFine(p, S)
  BY DEF RecType, GateFine, Shape
<1> HIDE DEF p
<1>8. Keeps(p, q)
  BY <1>1, <1>2, <1>3, <1>4, QueueStays
<1> QED BY <1>5, <1>6, <1>7, <1>8 DEF p

\* The options of the record could not be built.
LEMMA StuckIs ==
    ASSUME NEW q \in RecType, Shape(q), Apart(q),
           q.loop = "build"
    PROVE  LET p == [q EXCEPT !.loop = "stuck"]
           IN  /\ Keeps(p, q) /\ Moves(p, q) /\ OwnKept(p, q) /\ OnceKept(p, q) /\ ~Holds(p, q.forRun)
               /\ \A S \in SUBSET Runs : GateFine(q, S) => GateFine(p, S)
<1> DEFINE p == [q EXCEPT !.loop = "stuck"]
<1>1. p \in RecType
  BY DEF RecType
<1>2. Shape(p)
  BY DEF RecType, Shape
<1>3. \A x \in Runs : Has(p, x) => Has(q, x)
  BY DEF RecType, Has, Current, Shape
<1>4. p.turnQueue = q.turnQueue
  BY DEF RecType
<1>5. Moves(p, q)
  BY DEF RecType, Moves, Shape
<1>6. OwnKept(p, q)
  BY DEF RecType, OwnKept, Own, Shape
<1>7. OnceKept(p, q)
  BY DEF RecType, OnceKept, Once, Shape
<1>8. \A S \in SUBSET Runs : GateFine(q, S) => GateFine(p, S)
  BY DEF RecType, GateFine, Shape
<1>9. ~Has(p, q.forRun) /\ ~Waiting(q, q.forRun)
  BY DEF RecType, Has, Current, Apart, Waiting, Shape
<1> HIDE DEF p
<1>10. Keeps(p, q)
  BY <1>1, <1>2, <1>3, <1>4, QueueStays
<1>11. ~Holds(p, q.forRun)
  BY <1>4, <1>9 DEF Holds, Waiting
<1> QED BY <1>5, <1>6, <1>7, <1>8, <1>10, <1>11 DEF p

\* The turn of w, which differs from q in nothing that waits, is over: p is what
\* the generator makes of it.
LEMMA TurnIsOver ==
    ASSUME NEW q \in RecType, NEW w \in RecType, NEW p \in RecType, Apart(q), Shape(p),
           w.turnQueue = q.turnQueue, ~w.turnActive, w.loop # "build",
           w.loop = "token" => q.loop = "token" /\ w.got = q.got,
           SameLife(p, w), SameTurn(p, w) \/ Starts(p, w)
    PROVE  /\ Keeps(p, q)
           /\ w.loop # "token" => \A x \in Runs : Has(q, x) => ~Holds(p, x)
<1>1. CASE SameTurn(p, w)
  <2>1. \A x \in Runs : Has(p, x) => w.loop = "token" /\ Has(q, x)
    BY <1>1 DEF SameTurn, SameLife, Has, Current
  <2>2. p.turnQueue = q.turnQueue
    BY <1>1 DEF SameTurn
  <2>3. Keeps(p, q)
    BY <2>1, <2>2, QueueStays
  <2>4. \A x \in Runs : Has(q, x) => ~Waiting(p, x)
    BY <2>2 DEF Apart, Waiting
  <2> QED BY <2>1, <2>3, <2>4 DEF Holds
<1>2. CASE Starts(p, w)
  <2>1. \A x \in Runs : Has(p, x) => (w.loop = "token" /\ Has(q, x)) \/ x = Head(q.turnQueue)
    BY <1>2 DEF Starts, SameLife, Has, Current
  <2>2. q.turnQueue # <<>> /\ p.turnQueue = Tail(q.turnQueue)
    BY <1>2 DEF Starts
  <2>3. Keeps(p, q)
    BY <2>1, <2>2, QueueStarts
  <2>4. \A x \in Runs : Has(q, x) => ~Waiting(q, x)
    BY DEF Apart, Waiting
  <2>5. Waiting(q, Head(q.turnQueue))
    <3>1. 1 \in DOMAIN q.turnQueue /\ Head(q.turnQueue) = q.turnQueue[1]
      BY <2>2 DEF RecType
    <3> QED BY <3>1 DEF Waiting
  <2>6. \A x \in Runs : Waiting(p, x) => Waiting(q, x)
    <3>1. \A i \in DOMAIN Tail(q.turnQueue) :
             i + 1 \in DOMAIN q.turnQueue /\ Tail(q.turnQueue)[i] = q.turnQueue[i + 1]
      BY <2>2 DEF RecType
    <3> QED BY <2>2, <3>1 DEF Waiting
  <2> QED BY <2>1, <2>3, <2>4, <2>5, <2>6 DEF Holds
<1> QED BY <1>1, <1>2

\* The end of a settled turn, or of the wait for a token.
LEMMA SettledIs ==
    ASSUME NEW q \in RecType, Shape(q), Apart(q),
           q.loop = "usage" \/ (q.loop = "token" /\ ~q.caught)
    PROVE  LET p == Settled(q)
           IN  /\ Keeps(p, q) /\ Moves(p, q) /\ OwnKept(p, q) /\ OnceKept(p, q) /\ GateKept(p, q)
               /\ \A x \in Runs : Has(q, x) => ~Holds(p, x)
<1> DEFINE w == [q EXCEPT !.turnActive = FALSE, !.terminalEmitted = TRUE,
                          !.currentRunId = NoRun, !.loop = "read",
                          !.got = NoRun, !.kind = "ok"]
           p == Release(w)
<1>1. w \in RecType
  BY DEF RecType
<1>2. /\ w.loop = "read" /\ ~w.turnActive /\ w.turnQueue = q.turnQueue /\ w.gen = q.gen
      /\ w.dead = q.dead /\ w.closeRequested = q.closeRequested /\ w.owed = q.owed
      /\ w.background = q.background /\ w.cancelRequested = q.cancelRequested
      /\ w.oldRec = q.oldRec
  BY DEF RecType
<1>3. p = Settled(q)
  BY DEF Settled
<1> HIDE DEF w
<1>4. /\ p \in RecType /\ SameLife(p, w)
      /\ \/ w.gen # "turn" /\ p = w
         \/ w.gen = "turn" /\ w.closeRequested /\ p.gen = "done" /\ SameTurn(p, w)
         \/ w.gen = "turn" /\ ~w.closeRequested /\ Starts(p, w)
         \/ /\ w.gen = "turn" /\ ~w.closeRequested /\ w.turnQueue = <<>>
            /\ p.gen = "parked" /\ SameTurn(p, w)
  BY <1>1, ReleaseIs
<1> HIDE DEF p
<1>5. SameTurn(p, w) \/ Starts(p, w)
  BY <1>4 DEF SameTurn
<1>6. Shape(p)
  <2>1. CASE Starts(p, w)
    BY <1>1, <1>2, <1>4, <2>1 DEF Shape, SameLife, Starts, RecType
  <2>2. CASE ~Starts(p, w)
    <3>1. /\ q.gen # "none" /\ (q.gen = "parked" => q.turnQueue = <<>>)
          /\ q.dead => q.gen = "done"
      BY DEF Shape
    <3>2. p.loop = "read" /\ ~p.turnActive /\ p.turnQueue = q.turnQueue /\ p.dead = q.dead
      BY <1>2, <1>4, <1>5, <2>2 DEF SameLife, SameTurn
    <3>3. p.gen # "none" /\ p.gen # "turn" /\ (p.gen = "parked" => p.turnQueue = <<>>)
          /\ (p.dead => p.gen = "done")
      BY <1>2, <1>4, <2>2, <3>1, <3>2
    <3> QED BY <1>4, <3>2, <3>3 DEF Shape
  <2> QED BY <2>1, <2>2
<1>7. Keeps(p, q) /\ \A x \in Runs : Has(q, x) => ~Holds(p, x)
  BY <1>1, <1>2, <1>4, <1>5, <1>6, TurnIsOver
<1>8. Moves(p, q)
  BY <1>2, <1>4 DEF Moves, SameLife
<1>9. OwnKept(p, q)
  <2>1. CASE Starts(p, w)
    <3>1. Append(<<>>, Head(w.turnQueue)) = <<Head(w.turnQueue)>>
      OBVIOUS
    <3> QED BY <1>2, <1>4, <2>1, <3>1 DEF OwnKept, Own, SameLife, Starts
  <2>2. CASE SameTurn(p, w)
    BY <1>2, <1>4, <2>2 DEF OwnKept, Own, SameLife, SameTurn
  <2> QED BY <1>5, <2>1, <2>2
<1>10. OnceKept(p, q)
  BY <1>2, <1>4, <1>5 DEF OnceKept, Once, SameLife, SameTurn, Starts
<1>11. GateKept(p, q)
  BY <1>2, <1>4, <1>5 DEF GateKept, GateFine, SameLife, SameTurn, Starts
<1> QED BY <1>3, <1>7, <1>8, <1>9, <1>10, <1>11

\* A teardown keeps what a record says of its answers, reports and gates.
LEMMA TornFits ==
    ASSUME NEW q \in RecType, Shape(q), Apart(q), q.loop # "free"
    PROVE  LET p == Torn(q)
           IN  /\ Keeps(p, q) /\ Moves(p, q) /\ OwnKept(p, q) /\ OnceKept(p, q) /\ GateKept(p, q)
<1> DEFINE p == Torn(q)
<1>1. /\ p \in RecType /\ SameTurn(p, q) /\ p.dead
      /\ p.loop = q.loop /\ p.oldRec = q.oldRec /\ p.background = q.background
      /\ p.got = q.got /\ p.caught = q.caught
      /\ p.gen = q.gen \/ (q.gen # "none" /\ p.gen = "done")
  BY TornIs
<1>2. Keeps(p, q)
  BY TornKeeps
<1> HIDE DEF p
<1>3. Moves(p, q)
  BY <1>1 DEF Moves
<1>4. OwnKept(p, q)
  BY <1>1 DEF OwnKept, Own, SameTurn
<1>5. OnceKept(p, q)
  BY <1>1 DEF OnceKept, Once, SameTurn
<1>6. GateKept(p, q)
  BY <1>1 DEF GateKept, GateFine
<1> QED BY <1>2, <1>3, <1>4, <1>5, <1>6 DEF p

\* A turn is reported as failed, and its thread closed.
LEMMA ReportedIs ==
    ASSUME NEW q \in RecType, Shape(q), Apart(q), q.turnActive
    PROVE  LET p == Torn([q EXCEPT !.terminalEmitted = TRUE])
           IN  /\ Keeps(p, q) /\ Moves(p, q) /\ OwnKept(p, q) /\ OnceKept(p, q) /\ GateKept(p, q)
               /\ Once(q) /\ (q.dead => ~q.terminalEmitted) => ~Holds(p, q.currentRunId)
<1> DEFINE w == [q EXCEPT !.terminalEmitted = TRUE]
           p == Torn(w)
<1>1. w \in RecType
  BY DEF RecType
<1>2. /\ w.turnActive /\ w.terminalEmitted /\ w.loop = q.loop /\ w.oldRec = q.oldRec
      /\ w.turnQueue = q.turnQueue /\ w.gen = q.gen /\ w.dead = q.dead /\ w.got = q.got
      /\ w.currentRunId = q.currentRunId /\ w.owed = q.owed /\ w.background = q.background
      /\ w.caught = q.caught
  BY DEF RecType
<1>3. q.gen # "none" /\ q.loop \notin {"free", "build", "stuck"}
  BY DEF Shape
<1>4. Shape(w)
  BY DEF RecType, Shape
<1>5. \A x \in Runs : Has(w, x) => Has(q, x)
  BY DEF RecType, Has, Current
<1> HIDE DEF w
<1>6. Keeps(w, q)
  BY <1>1, <1>2, <1>4, <1>5, QueueStays
<1>7. Keeps(p, w)
  BY <1>1, <1>2, <1>3, <1>4, <1>6, TornKeeps DEF Keeps
<1>8. Keeps(p, q)
  BY <1>6, <1>7 DEF Keeps
<1>9. /\ SameTurn(p, w) /\ p.dead /\ p.loop = q.loop /\ p.oldRec = q.oldRec
      /\ p.background = q.background /\ p.got = q.got /\ p.caught = q.caught
      /\ p.gen = q.gen \/ p.gen = "done"
  BY <1>1, <1>2, TornIs
<1> HIDE DEF p
<1>10. Moves(p, q)
  BY <1>3, <1>9 DEF Moves
<1>11. OwnKept(p, q)
  BY <1>2, <1>3, <1>9 DEF OwnKept, Own, SameTurn
<1>12. OnceKept(p, q)
  BY <1>2, <1>9 DEF OnceKept, Once, SameTurn
<1>13. GateKept(p, q)
  BY <1>3, <1>9 DEF GateKept, GateFine
<1>14. ASSUME Once(q), q.dead => ~q.terminalEmitted PROVE ~Holds(p, q.currentRunId)
  <2>1. q.loop \notin {"build", "token", "rebuild"} /\ ~q.terminalEmitted
    BY <1>3, <1>14 DEF Once, Shape
  <2>2. ~Has(p, q.currentRunId)
    BY <1>2, <1>9, <2>1 DEF Has, Current, SameTurn
  <2>3. Has(q, q.currentRunId)
    BY <2>1 DEF Has, Current
  <2>4. ~Waiting(p, q.currentRunId)
    BY <1>2, <1>9, <2>3 DEF Apart, Waiting, SameTurn
  <2> QED BY <2>2, <2>4 DEF Holds
<1> QED BY <1>8, <1>10, <1>11, <1>12, <1>13, <1>14 DEF p, w

\* A turn is reported as failed, and the generator goes on while background work
\* keeps the thread alive.
LEMMA AbandonedIs ==
    ASSUME NEW q \in RecType, Shape(q), Apart(q),
           q.turnActive, q.currentRunId \in Runs, ~q.terminalEmitted, q.cancelRequested, q.background
    PROVE  LET p == Release([q EXCEPT !.terminalEmitted = TRUE, !.turnActive = FALSE,
                                      !.currentRunId = NoRun])
           IN  /\ Keeps(p, q) /\ Moves(p, q) /\ OwnKept(p, q) /\ OnceKept(p, q) /\ GateKept(p, q)
               /\ Once(q) => ~Holds(p, q.currentRunId)
<1> DEFINE w == [q EXCEPT !.terminalEmitted = TRUE, !.turnActive = FALSE,
                          !.currentRunId = NoRun]
           p == Release(w)
<1>1. w \in RecType
  BY DEF RecType
<1>2. /\ w.loop = q.loop /\ ~w.turnActive /\ w.terminalEmitted /\ w.turnQueue = q.turnQueue
      /\ w.gen = q.gen /\ w.dead = q.dead /\ w.closeRequested = q.closeRequested
      /\ w.cancelRequested = q.cancelRequested /\ w.caught = q.caught /\ w.got = q.got
      /\ w.oldRec = q.oldRec
  BY DEF RecType
<1> HIDE DEF w
<1>3. /\ p \in RecType /\ SameLife(p, w)
      /\ \/ w.gen # "turn" /\ p = w
         \/ w.gen = "turn" /\ w.closeRequested /\ p.gen = "done" /\ SameTurn(p, w)
         \/ w.gen = "turn" /\ ~w.closeRequested /\ Starts(p, w)
         \/ /\ w.gen = "turn" /\ ~w.closeRequested /\ w.turnQueue = <<>>
            /\ p.gen = "parked" /\ SameTurn(p, w)
  BY <1>1, ReleaseIs
<1> HIDE DEF p
<1>4. SameTurn(p, w) \/ Starts(p, w)
  BY <1>3 DEF SameTurn
<1>5. /\ q.gen \in {"turn", "done"} /\ q.loop \notin {"free", "build", "stuck"}
      /\ q.loop = "token" => q.got \in Runs /\ q.caught
      /\ q.loop = "rebuild" => q.dead
      /\ q.dead => q.gen = "done"
  BY DEF Shape, RecType
<1>6. Shape(p)
  <2>1. CASE Starts(p, w)
    <3>1. Head(w.turnQueue) \in Runs
      BY <1>1, <2>1 DEF Starts, RecType
    <3> QED BY <1>2, <1>3, <1>5, <2>1, <3>1 DEF Shape, SameLife, Starts
  <2>2. CASE ~Starts(p, w)
    <3>1. /\ p.loop = q.loop /\ ~p.turnActive /\ p.terminalEmitted
          /\ p.turnQueue = q.turnQueue /\ p.dead = q.dead /\ p.got = q.got /\ p.caught = q.caught
      BY <1>2, <1>3, <1>4, <2>2 DEF SameLife, SameTurn
    <3>2. p.gen \in {"done", "parked"} /\ (p.gen = "parked" => p.turnQueue = <<>>)
          /\ (p.dead => p.gen = "done")
      BY <1>2, <1>3, <1>5, <2>2, <3>1
    <3> QED BY <1>3, <1>5, <3>1, <3>2 DEF Shape
  <2> QED BY <2>1, <2>2
<1>7. Keeps(p, q) /\ (w.loop # "token" => \A x \in Runs : Has(q, x) => ~Holds(p, x))
  BY <1>1, <1>2, <1>3, <1>4, <1>5, <1>6, TurnIsOver
<1>8. Moves(p, q)
  BY <1>2, <1>3, <1>5 DEF Moves, SameLife
<1>9. OwnKept(p, q)
  BY DEF OwnKept, Own
<1>10. OnceKept(p, q)
  BY <1>2, <1>3, <1>4, <1>5 DEF OnceKept, Once, SameLife, SameTurn, Starts
<1>11. GateKept(p, q)
  BY <1>2, <1>3, <1>4, <1>5 DEF GateKept, GateFine, SameLife, SameTurn, Starts
<1>12. Once(q) => ~Holds(p, q.currentRunId)
  BY <1>2, <1>5, <1>7 DEF Once, Has, Current
<1> QED BY <1>7, <1>8, <1>9, <1>10, <1>11, <1>12 DEF p, w

\* The loop is over: what waits in the queue is left there.
LEMMA GoneFits ==
    ASSUME NEW q \in RecType, Shape(q), Apart(q),
           q.loop \in {"read", "token", "rebuild"}, q.loop = "token" => q.caught
    PROVE  LET p == Gone(q)
           IN  /\ Keeps(p, q) /\ p.loop = "gone" /\ OwnKept(p, q) /\ OnceKept(p, q) /\ GateKept(p, q)
               /\ \A x \in Runs : Has(q, x) => ~Holds(p, x)
<1> DEFINE p == Gone(q)
<1>1. /\ p \in RecType /\ p.loop = "gone" /\ p.dead = q.dead /\ p.gen = q.gen
      /\ p.turnQueue = q.turnQueue /\ p.turnActive = q.turnActive
      /\ p.currentRunId = NoRun /\ p.owed = <<>> /\ ~p.terminalEmitted /\ ~p.background
  BY GoneIs
<1> HIDE DEF p
<1>2. Shape(p)
  BY <1>1 DEF Shape
<1>3. \A x \in Runs : ~Has(p, x)
  BY <1>1, NamesAssumption DEF Has, Current
<1>4. Keeps(p, q)
  BY <1>1, <1>2, <1>3, QueueStays
<1>5. \A x \in Runs : Has(q, x) => ~Waiting(p, x)
  BY <1>1 DEF Apart, Waiting
<1>6. OwnKept(p, q)
  BY <1>1 DEF OwnKept, Own
<1>7. OnceKept(p, q)
  BY <1>1 DEF OnceKept, Once
<1>8. GateKept(p, q)
  BY <1>1 DEF GateKept, GateFine
<1> QED BY <1>1, <1>3, <1>4, <1>5, <1>6, <1>7, <1>8 DEF Holds, p

\* The loop ends in the middle of a turn.
LEMMA EndedIs ==
    ASSUME NEW q \in RecType, Shape(q), Apart(q),
           q.loop \in {"read", "token"}, q.loop = "token" => q.caught
    PROVE  LET p == Gone(Release([q EXCEPT !.terminalEmitted = TRUE, !.turnActive = FALSE]))
           IN  /\ Keeps(p, q) /\ p.loop = "gone" /\ OwnKept(p, q) /\ OnceKept(p, q) /\ GateKept(p, q)
               /\ q.loop = "read" => \A x \in Runs : Has(q, x) => ~Holds(p, x)
<1> DEFINE w == [q EXCEPT !.terminalEmitted = TRUE, !.turnActive = FALSE]
           v == Release(w)
           p == Gone(v)
<1>1. w \in RecType
  BY DEF RecType
<1>2. /\ w.loop = q.loop /\ ~w.turnActive /\ w.turnQueue = q.turnQueue
      /\ w.gen = q.gen /\ w.dead = q.dead /\ w.got = q.got /\ w.caught = q.caught
  BY DEF RecType
<1> HIDE DEF w
<1>3. /\ v \in RecType /\ SameLife(v, w)
      /\ \/ w.gen # "turn" /\ v = w
         \/ w.gen = "turn" /\ w.closeRequested /\ v.gen = "done" /\ SameTurn(v, w)
         \/ w.gen = "turn" /\ ~w.closeRequested /\ Starts(v, w)
         \/ /\ w.gen = "turn" /\ ~w.closeRequested /\ w.turnQueue = <<>>
            /\ v.gen = "parked" /\ SameTurn(v, w)
  BY <1>1, ReleaseIs
<1> HIDE DEF v
<1>4. SameTurn(v, w) \/ Starts(v, w)
  BY <1>3 DEF SameTurn
<1>5. /\ q.gen \in {"turn", "done", "parked"} /\ (q.gen = "parked" => q.turnQueue = <<>>)
      /\ q.loop = "token" => q.got \in Runs /\ q.caught
      /\ q.dead => q.gen = "done"
  BY DEF Shape, RecType
<1>6. Shape(v)
  <2>1. CASE Starts(v, w)
    <3>1. Head(w.turnQueue) \in Runs
      BY <1>1, <2>1 DEF Starts, RecType
    <3> QED BY <1>2, <1>3, <1>5, <2>1, <3>1 DEF Shape, SameLife, Starts
  <2>2. CASE ~Starts(v, w)
    <3>1. /\ v.loop = q.loop /\ ~v.turnActive /\ v.turnQueue = q.turnQueue
          /\ v.dead = q.dead /\ v.got = q.got /\ v.caught = q.caught
      BY <1>2, <1>3, <1>4, <2>2 DEF SameLife, SameTurn
    <3>2. v.gen \in {"done", "parked"} /\ (v.gen = "parked" => v.turnQueue = <<>>)
          /\ (v.dead => v.gen = "done")
      BY <1>2, <1>3, <1>5, <2>2, <3>1
    <3> QED BY <1>3, <1>5, <3>1, <3>2 DEF Shape
  <2> QED BY <2>1, <2>2
<1>7. Keeps(v, q) /\ (w.loop # "token" => \A x \in Runs : Has(q, x) => ~Holds(v, x))
  BY <1>1, <1>2, <1>3, <1>4, <1>5, <1>6, TurnIsOver
<1>8. v.loop = q.loop /\ v.caught = q.caught
  BY <1>2, <1>3 DEF SameLife
<1>9. Keeps(p, v) /\ p.loop = "gone"
  BY <1>5, <1>7, <1>8, GoneFits DEF Keeps
<1>10. Keeps(p, q) /\ (q.loop = "read" => \A x \in Runs : Has(q, x) => ~Holds(p, x))
  BY <1>2, <1>7, <1>9 DEF Keeps
<1>11. p.currentRunId = NoRun /\ p.owed = <<>> /\ ~p.terminalEmitted /\ ~p.background
  BY <1>3, GoneIs
<1> HIDE DEF p
<1>12. OwnKept(p, q) /\ OnceKept(p, q) /\ GateKept(p, q)
  BY <1>9, <1>11 DEF OwnKept, Own, OnceKept, Once, GateKept, GateFine
<1> QED BY <1>9, <1>10, <1>12 DEF p, v, w

\* The replacement of an expired record is made ready: the record itself ends.
LEMMA RebuildIs ==
    ASSUME NEW q \in RecType, Shape(q), Apart(q), q.loop = "token"
    PROVE  LET p == [Torn(q) EXCEPT !.loop = "rebuild"]
           IN  /\ Keeps(p, q) /\ Moves(p, q) /\ OwnKept(p, q) /\ OnceKept(p, q) /\ GateKept(p, q)
               /\ p.loop = "rebuild" /\ p.dead /\ ~Holds(p, q.got)
<1> DEFINE w == Torn(q)
           p == [w EXCEPT !.loop = "rebuild"]
<1>1. w \in RecType /\ w.turnQueue = q.turnQueue /\ w.background = q.background /\ w.dead
      /\ w.turnActive = q.turnActive /\ w.caught = q.caught /\ w.owed = q.owed
  BY TornIs DEF SameTurn
<1>2. Keeps(w, q)
  BY TornKeeps
<1>3. w.gen # "none" /\ w.loop = "token"
  BY <1>2, TornIs DEF Keeps, Shape
<1> HIDE DEF w
<1>4. p \in RecType
  BY <1>1 DEF RecType
<1>5. Shape(p)
  BY <1>1, <1>2, <1>3 DEF RecType, Shape, Keeps
<1>6. /\ p.turnQueue = q.turnQueue /\ p.loop = "rebuild" /\ p.dead /\ p.background = q.background
      /\ p.turnActive = q.turnActive /\ p.caught = q.caught /\ p.gen = w.gen /\ p.owed = q.owed
  BY <1>1 DEF RecType
<1> HIDE DEF p
<1>7. \A x \in Runs : ~Has(p, x)
  BY <1>6 DEF Has, Current
<1>8. Keeps(p, q)
  BY <1>4, <1>5, <1>6, <1>7, QueueStays
<1>9. ~Holds(p, q.got)
  <2>1. Has(q, q.got) /\ q.got \in Runs
    BY DEF Has, Shape
  <2>2. ~Waiting(p, q.got)
    BY <1>6, <2>1 DEF Apart, Waiting
  <2> QED BY <1>7, <2>1, <2>2 DEF Holds
<1>10. Moves(p, q)
  BY <1>6 DEF Moves
<1>11. OwnKept(p, q)
  <2>1. p.gen \in {"done"}
    BY <1>3, <1>5, <1>6 DEF Shape
  <2> QED BY <1>6, <2>1 DEF OwnKept, Own
<1>12. OnceKept(p, q)
  BY <1>6 DEF OnceKept, Once, Shape
<1>13. GateKept(p, q)
  BY <1>6 DEF GateKept, GateFine
<1> QED BY <1>6, <1>8, <1>9, <1>10, <1>11, <1>12, <1>13 DEF p, w

\* The record that was replaced goes on.
LEMMA ReplacedIs ==
    ASSUME NEW q \in RecType, Shape(q), Apart(q), q.loop = "rebuild"
    PROVE  LET p == Replaced(q)
           IN  /\ Keeps(p, q) /\ p.loop \in {"read", "gone"}
               /\ OwnKept(p, q) /\ OnceKept(p, q) /\ GateKept(p, q)
<1>0. q.dead /\ q.gen = "done"
  BY DEF Shape
<1>1. CASE q.caught
  <2> DEFINE w == [q EXCEPT !.turnActive = FALSE]
  <2>1. w \in RecType
    BY DEF RecType
  <2>2. /\ w.loop = q.loop /\ w.turnQueue = q.turnQueue /\ w.dead = q.dead /\ w.gen = q.gen
        /\ w.owed = q.owed /\ w.background = q.background
    BY DEF RecType
  <2>3. Shape(w)
    BY <1>0 DEF RecType, Shape
  <2>4. \A x \in Runs : Has(w, x) => Has(q, x)
    BY DEF RecType, Has, Current
  <2> HIDE DEF w
  <2>5. Keeps(w, q)
    BY <2>1, <2>2, <2>3, <2>4, QueueStays
  <2>6. Keeps(Gone(w), w) /\ Gone(w).loop = "gone"
    BY <2>2, <2>5, GoneFits DEF Keeps
  <2>7. Replaced(q) = Gone(w)
    BY <1>1 DEF Replaced, w
  <2>8. Gone(w).owed = <<>> /\ ~Gone(w).terminalEmitted /\ ~Gone(w).background
    BY <2>1, GoneIs
  <2>9. Keeps(Gone(w), q)
    BY <2>5, <2>6 DEF Keeps
  <2>10. OwnKept(Gone(w), q) /\ OnceKept(Gone(w), q) /\ GateKept(Gone(w), q)
    BY <2>6, <2>8 DEF OwnKept, Own, OnceKept, Once, GateKept, GateFine
  <2> QED BY <2>6, <2>7, <2>9, <2>10
<1>2. CASE ~q.caught
  <2> DEFINE p == [q EXCEPT !.turnActive = FALSE, !.loop = "read"]
  <2>1. p \in RecType
    BY DEF RecType
  <2>2. Shape(p)
    BY <1>0 DEF RecType, Shape
  <2>3. \A x \in Runs : Has(p, x) => Has(q, x)
    BY DEF RecType, Has, Current
  <2>4. p.turnQueue = q.turnQueue /\ p.loop = "read"
    BY DEF RecType
  <2>5. OwnKept(p, q)
    BY <1>0 DEF RecType, OwnKept, Own
  <2>6. OnceKept(p, q)
    BY <1>0 DEF RecType, OnceKept, Once
  <2>7. GateKept(p, q)
    BY <1>0 DEF RecType, GateKept, GateFine
  <2>8. Replaced(q) = p
    BY <1>2 DEF Replaced
  <2> HIDE DEF p
  <2>9. Keeps(p, q)
    BY <2>1, <2>2, <2>3, <2>4, QueueStays
  <2> QED BY <2>4, <2>5, <2>6, <2>7, <2>8, <2>9
<1> QED BY <1>1, <1>2

\* A new record is there for one run.
LEMMA NewIs ==
    ASSUME NEW t \in Threads \cup {NoThread}, NEW policy \in AllPolicies, NEW x \in Runs,
           NEW old \in Recs \cup {NoRec}
    PROVE  LET p == [Blank EXCEPT !.thread = t, !.policy = policy,
                                  !.loop = "build", !.forRun = x, !.oldRec = old]
           IN  /\ p \in RecType /\ Shape(p) /\ Apart(p) /\ p.loop = "build" /\ p.oldRec = old
               /\ \A y \in Runs : Holds(p, y) => y = x
               /\ Own(p) /\ Once(p) /\ GateFine(p, {})
<1> DEFINE p == [Blank EXCEPT !.thread = t, !.policy = policy,
                              !.loop = "build", !.forRun = x, !.oldRec = old]
<1>1. /\ Blank \in RecType /\ Blank.turnQueue = <<>> /\ Blank.gen = "none" /\ ~Blank.dead
      /\ ~Blank.turnActive /\ Blank.owed = <<>> /\ ~Blank.background /\ ~Blank.cancelRequested
  BY BlankIs DEF Blank
<1>2. p \in RecType
  BY <1>1 DEF RecType
<1>3. /\ p.turnQueue = <<>> /\ p.gen = "none" /\ ~p.dead /\ p.loop = "build" /\ p.oldRec = old
      /\ ~p.turnActive /\ p.owed = <<>> /\ ~p.background /\ ~p.cancelRequested /\ p.forRun = x
  BY <1>1 DEF RecType
<1> HIDE DEF p
<1>4. Shape(p)
  BY <1>3 DEF Shape
<1>5. Apart(p)
  BY <1>3 DEF Apart
<1>6. \A y \in Runs : Holds(p, y) => y = x
  BY <1>3 DEF Holds, Waiting, Has, Current
<1>7. Own(p) /\ Once(p) /\ GateFine(p, {})
  BY <1>3 DEF Own, Once, GateFine
<1> QED BY <1>2, <1>3, <1>4, <1>5, <1>6, <1>7 DEF p

\* A run is queued, and started where the generator waits for one.
LEMMA QueuedFits ==
    ASSUME NEW q \in RecType, Shape(q), Apart(q), q.loop # "free", NEW x \in Runs, ~Holds(q, x)
    PROVE  LET p == Queued(q, x)
           IN  /\ p \in RecType /\ Shape(p) /\ Apart(p)
               /\ \A y \in Runs : Holds(p, y) => Holds(q, y) \/ y = x
               /\ Moves(p, q) /\ OwnKept(p, q) /\ OnceKept(p, q) /\ GateKept(p, q)
<1> DEFINE p == Queued(q, x)
<1>1. /\ p \in RecType /\ SameLife(p, q)
      /\ \/ /\ q.gen = "parked" /\ ~q.turnActive
            /\ \E w \in RecType : /\ w.turnQueue = Append(q.turnQueue, x)
                                 /\ w.owed = q.owed /\ Starts(p, w)
         \/ /\ ~(q.gen = "parked" /\ ~q.turnActive) /\ p.gen = q.gen
            /\ p.turnQueue = Append(q.turnQueue, x)
            /\ p.currentRunId = q.currentRunId /\ p.turnActive = q.turnActive
            /\ p.cancelRequested = q.cancelRequested
            /\ p.terminalEmitted = q.terminalEmitted /\ p.asked = q.asked
            /\ p.awaitingDecision = q.awaitingDecision /\ p.owed = q.owed
  BY QueuedIs
<1> HIDE DEF p
<1>2. CASE q.gen = "parked" /\ ~q.turnActive
  <2>1. PICK w \in RecType : /\ w.turnQueue = Append(q.turnQueue, x)
                            /\ w.owed = q.owed /\ Starts(p, w)
    BY <1>1, <1>2
  <2>2. q.turnQueue = <<>>
    BY <1>2 DEF Shape
  <2>3. Head(Append(<<>>, x)) = x /\ Tail(Append(<<>>, x)) = <<>> /\ Append(<<>>, x) = <<x>>
    OBVIOUS
  <2>4. /\ p.turnQueue = <<>> /\ p.currentRunId = x /\ p.gen = "turn" /\ p.turnActive
        /\ ~p.terminalEmitted /\ ~p.cancelRequested /\ p.awaitingDecision = 0
        /\ p.owed = Append(q.owed, x)
    BY <2>1, <2>2, <2>3 DEF Starts
  <2>5. q.loop \notin {"free", "build", "stuck"} /\ ~q.dead /\ q.loop # "rebuild"
    BY <1>2 DEF Shape
  <2>6. Shape(p)
    BY <1>1, <2>4, <2>5 DEF Shape, SameLife
  <2>7. Apart(p)
    BY <2>4 DEF Apart
  <2>8. \A y \in Runs : Holds(p, y) => Holds(q, y) \/ y = x
    BY <1>1, <2>4, <2>5 DEF Holds, Waiting, Has, Current, SameLife
  <2>9. Moves(p, q)
    BY <1>1, <2>5 DEF Moves, SameLife
  <2>10. OwnKept(p, q)
    BY <1>1, <1>2, <2>3, <2>4 DEF OwnKept, Own, SameLife, Shape
  <2>11. OnceKept(p, q)
    BY <1>1, <2>4, <2>5 DEF OnceKept, Once, SameLife
  <2>12. GateKept(p, q)
    BY <1>1, <1>2, <2>4, <2>5 DEF GateKept, GateFine, SameLife
  <2> QED BY <1>1, <2>6, <2>7, <2>8, <2>9, <2>10, <2>11, <2>12 DEF p
<1>3. CASE ~(q.gen = "parked" /\ ~q.turnActive)
  <2>1. /\ p.gen = q.gen /\ p.turnQueue = Append(q.turnQueue, x)
        /\ p.currentRunId = q.currentRunId /\ p.turnActive = q.turnActive
        /\ p.cancelRequested = q.cancelRequested
        /\ p.terminalEmitted = q.terminalEmitted /\ p.asked = q.asked
        /\ p.awaitingDecision = q.awaitingDecision /\ p.owed = q.owed
    BY <1>1, <1>3
  <2>2. q.gen # "parked"
    BY <1>3 DEF Shape
  <2>3. Shape(p)
    BY <1>1, <2>1, <2>2 DEF Shape, SameLife
  <2>4. \A y \in Runs : Has(p, y) <=> Has(q, y)
    BY <1>1, <2>1 DEF Has, Current, SameLife
  <2>5. Apart(p) /\ \A y \in Runs : Holds(p, y) => Holds(q, y) \/ y = x
    BY <1>1, <2>1, <2>4, QueueGrows
  <2>6. Moves(p, q)
    BY <1>1 DEF Moves, SameLife
  <2>7. OwnKept(p, q) /\ OnceKept(p, q) /\ GateKept(p, q)
    BY <1>1, <2>1 DEF OwnKept, Own, OnceKept, Once, GateKept, GateFine, SameLife
  <2> QED BY <1>1, <2>3, <2>5, <2>6, <2>7 DEF p
<1> QED BY <1>2, <1>3

\* The generator of a record begins.
LEMMA BegunIs ==
    ASSUME NEW q \in RecType, Shape(q), q.loop = "build",
           NEW w \in RecType, Apart(w), w.loop = "read", w.gen = "none", ~w.turnActive,
           w.dead = q.dead, w.closeRequested = q.closeRequested, w.owed = q.owed,
           w.background = q.background, w.cancelRequested = q.cancelRequested
    PROVE  LET p == PullTurn(w)
           IN  /\ Keeps(p, w) /\ p.loop = "read" /\ OwnKept(p, q) /\ OnceKept(p, q) /\ GateKept(p, q)
               /\ q.dead => p.turnQueue = w.turnQueue /\ \A x \in Runs : ~Has(p, x)
<1> DEFINE p == PullTurn(w)
<1>1. /\ p \in RecType /\ SameLife(p, w)
      /\ \/ w.closeRequested /\ p.gen = "done" /\ SameTurn(p, w)
         \/ ~w.closeRequested /\ Starts(p, w)
         \/ /\ ~w.closeRequested /\ w.turnQueue = <<>>
            /\ p.gen = "parked" /\ SameTurn(p, w)
  BY PullTurnIs
<1> HIDE DEF p
<1>2. SameTurn(p, w) \/ Starts(p, w)
  BY <1>1
<1>3. q.gen = "none" /\ ~q.turnActive /\ (q.dead => q.closeRequested)
  BY DEF Shape
<1>4. Shape(p)
  <2>1. CASE Starts(p, w)
    <3>1. Head(w.turnQueue) \in Runs
      BY <2>1 DEF Starts, RecType
    <3>2. w.closeRequested => ~Starts(p, w)
      BY <1>1 DEF Starts
    <3> QED BY <1>1, <1>3, <2>1, <3>1, <3>2 DEF Shape, SameLife, Starts
  <2>2. CASE ~Starts(p, w)
    <3>1. p.loop = "read" /\ ~p.turnActive /\ p.turnQueue = w.turnQueue /\ p.dead = q.dead
      BY <1>1, <1>2, <2>2 DEF SameLife, SameTurn
    <3>2. p.gen \in {"done", "parked"} /\ (p.gen = "parked" => p.turnQueue = <<>>)
          /\ (p.dead => p.gen = "done")
      BY <1>1, <1>3, <2>2, <3>1
    <3> QED BY <1>1, <3>1, <3>2 DEF Shape
  <2> QED BY <2>1, <2>2
<1>5. Keeps(p, w)
  BY <1>1, <1>2, <1>4, TurnIsOver
<1>6. OwnKept(p, q)
  <2>1. CASE Starts(p, w)
    <3>1. Append(<<>>, Head(w.turnQueue)) = <<Head(w.turnQueue)>>
      OBVIOUS
    <3> QED BY <1>1, <1>3, <2>1, <3>1 DEF OwnKept, Own, SameLife, Starts
  <2>2. CASE SameTurn(p, w)
    BY <1>1, <2>2, <1>3 DEF OwnKept, Own, SameLife, SameTurn
  <2> QED BY <1>2, <2>1, <2>2
<1>7. OnceKept(p, q)
  BY <1>1, <1>2 DEF OnceKept, Once, SameLife, SameTurn, Starts
<1>8. GateKept(p, q)
  BY <1>1, <1>2 DEF GateKept, GateFine, SameLife, SameTurn, Starts
<1>9. ASSUME q.dead PROVE p.turnQueue = w.turnQueue /\ \A x \in Runs : ~Has(p, x)
  <2>1. SameTurn(p, w)
    BY <1>1, <1>3, <1>9
  <2> QED BY <1>1, <2>1 DEF SameTurn, SameLife, Has, Current
<1>10. p.loop = "read"
  BY <1>1 DEF SameLife
<1> QED BY <1>5, <1>6, <1>7, <1>8, <1>9, <1>10 DEF p

\* The query of a record exists; what it was made for is dispatched if it still lives.
LEMMA BuiltIs ==
    ASSUME NEW q \in RecType, Shape(q), Apart(q), q.loop = "build"
    PROVE  LET made == [q EXCEPT !.loop = "read", !.forRun = NoRun, !.oldRec = NoRec,
                                 !.authRetried = q.oldRec # NoRec]
               p == IF q.dead THEN PullTurn(made)
                    ELSE PullTurn([made EXCEPT !.turnQueue = Append(@, q.forRun)])
           IN  /\ Keeps(p, q) /\ p.loop = "read" /\ OwnKept(p, q) /\ OnceKept(p, q) /\ GateKept(p, q)
               /\ q.dead => ~Holds(p, q.forRun)
<1> DEFINE made == [q EXCEPT !.loop = "read", !.forRun = NoRun, !.oldRec = NoRec,
                             !.authRetried = q.oldRec # NoRec]
<1>1. made \in RecType
  <2>1. PICK b \in BOOLEAN : b = (q.oldRec # NoRec)
    OBVIOUS
  <2>2. made = [q EXCEPT !.loop = "read", !.forRun = NoRun, !.oldRec = NoRec, !.authRetried = b]
    BY <2>1
  <2>3. [q EXCEPT !.loop = "read", !.forRun = NoRun, !.oldRec = NoRec, !.authRetried = b] \in RecType
    BY DEF RecType
  <2> QED BY <2>2, <2>3
<1>2. /\ made.loop = "read" /\ made.gen = q.gen /\ made.turnActive = q.turnActive
      /\ made.dead = q.dead /\ made.closeRequested = q.closeRequested /\ made.owed = q.owed
      /\ made.background = q.background /\ made.cancelRequested = q.cancelRequested
      /\ made.turnQueue = q.turnQueue
  BY DEF RecType
<1> HIDE DEF made
<1>3. q.gen = "none" /\ ~q.turnActive /\ q.forRun \in Runs
  BY DEF Shape
<1>4. \A x \in Runs : ~Has(made, x)
  BY <1>2, <1>3 DEF Has, Current
<1>6. Apart(made) /\ (\A x \in Runs : Holds(made, x) => Holds(q, x)) /\ ~Holds(made, q.forRun)
  <2>1. Apart(made)
    BY <1>2, <1>4, QueueIsOfRuns DEF Apart
  <2>2. Has(q, q.forRun)
    BY DEF Has
  <2>3. ~Waiting(made, q.forRun)
    BY <1>2, <2>2 DEF Apart, Waiting
  <2>4. \A x \in Runs : Holds(made, x) => Holds(q, x)
    BY <1>2, <1>4 DEF Holds, Waiting
  <2> QED BY <1>3, <1>4, <2>1, <2>3, <2>4 DEF Holds
<1>7. CASE q.dead
  <2> DEFINE p == PullTurn(made)
  <2>1. /\ Keeps(p, made) /\ p.loop = "read" /\ OwnKept(p, q) /\ OnceKept(p, q) /\ GateKept(p, q)
        /\ p.turnQueue = made.turnQueue /\ \A x \in Runs : ~Has(p, x)
    BY <1>1, <1>2, <1>3, <1>6, <1>7, BegunIs
  <2> HIDE DEF p
  <2>2. Keeps(p, q)
    BY <1>6, <2>1 DEF Keeps
  <2>3. ~Holds(p, q.forRun)
    BY <1>3, <1>6, <2>1 DEF Keeps
  <2> QED BY <1>7, <2>1, <2>2, <2>3 DEF p, made
<1>8. CASE ~q.dead
  <2> DEFINE w == [made EXCEPT !.turnQueue = Append(made.turnQueue, q.forRun)]
             p == PullTurn(w)
  <2>1. Append(made.turnQueue, q.forRun) \in Seq(Runs)
    BY <1>1, <1>3 DEF RecType
  <2>2. w \in RecType
    BY <1>1, <2>1 DEF RecType
  <2>3. /\ w.loop = "read" /\ w.gen = q.gen /\ w.turnActive = q.turnActive
        /\ w.dead = q.dead /\ w.closeRequested = q.closeRequested /\ w.owed = q.owed
        /\ w.background = q.background /\ w.cancelRequested = q.cancelRequested
        /\ w.turnQueue = Append(made.turnQueue, q.forRun)
    BY <1>1, <1>2, <2>1 DEF RecType
  <2> HIDE DEF w
  <2>4. \A x \in Runs : Has(w, x) <=> Has(made, x)
    BY <1>2, <1>3, <2>3 DEF Has, Current
  <2>5. Apart(w) /\ \A x \in Runs : Holds(w, x) => Holds(made, x) \/ x = q.forRun
    BY <1>1, <1>3, <1>6, <2>2, <2>3, <2>4, QueueGrows
  <2>6. Keeps(p, w) /\ p.loop = "read" /\ OwnKept(p, q) /\ OnceKept(p, q) /\ GateKept(p, q)
    BY <1>3, <2>2, <2>3, <2>5, BegunIs
  <2> HIDE DEF p
  <2>7. Holds(q, q.forRun)
    BY DEF Holds, Has
  <2>8. Keeps(p, q)
    BY <1>6, <2>5, <2>6, <2>7 DEF Keeps
  <2>9. p = PullTurn([made EXCEPT !.turnQueue = Append(@, q.forRun)])
    BY <1>1 DEF p, w, RecType
  <2> QED BY <1>8, <2>6, <2>8, <2>9 DEF made
<1> QED BY <1>7, <1>8

-----------------------------------------------------------------------------
(* What a step does to the records, and to who is held *)

\* Nobody comes to be held.
Shrinks == \A x \in Runs : Held(x)' => Held(x)

\* No record is used up, and what names a record still names one that is used.
Names ==
    /\ \A s \in Recs : rec[s].loop # "free" => rec'[s].loop # "free"
    /\ \A t \in Threads : activeThreads'[t] # NoRec => rec'[activeThreads'[t]].loop # "free"
    /\ \A s \in Recs, x \in Runs : <<s, x>> \in gates' \ gates => rec'[s].loop # "free"
    /\ \A x \in Runs : sentTo[x] # NoThread => sentTo'[x] # NoThread

\* Where no record gains a run, a run that leaves its place is nowhere any more.
LEMMA RecordsShrink ==
    ASSUME HoldInv, OthersTyped', OldInv', Names, controls' \subseteq controls,
           rec' \in [Recs -> RecType],
           \A s \in Recs : rec'[s] = rec[s] \/ Keeps(rec'[s], rec[s])
    PROVE  /\ HoldInv' /\ Shrinks
           /\ \A r \in Recs, x \in Runs : Holds(rec[r], x) /\ ~Holds(rec'[r], x) => ~Held(x)'
           /\ \A r \in Recs, x \in Runs : <<r, x>> \in controls \ controls' => ~Held(x)'
<1>1. \A s \in Recs : /\ Shape(rec'[s]) /\ Apart(rec'[s])
                      /\ \A x \in Runs : Holds(rec'[s], x) => Holds(rec[s], x)
  BY DEF HoldInv, Shapes, Keeps
<1>2. Shapes'
  BY <1>1 DEF Shapes
<1>3. Unique'
  BY <1>1 DEF HoldInv, Unique
<1>4. Shrinks
  BY <1>1 DEF Shrinks, Held
<1>5. Known'
  <2>1. \A t \in Threads : activeThreads'[t] # NoRec => rec'[activeThreads'[t]].loop # "free"
    BY DEF Names
  <2>2. \A r \in Recs, x \in Runs : <<r, x>> \in controls' \/ <<r, x>> \in gates' =>
                                            rec'[r].loop # "free"
    BY DEF Names, HoldInv, Known
  <2>3. \A x \in Runs : Held(x)' => sentTo'[x] # NoThread
    BY <1>4 DEF Names, HoldInv, Known, Shrinks
  <2> QED BY <2>1, <2>2, <2>3 DEF Known
<1>6. ASSUME NEW r \in Recs, NEW x \in Runs, Holds(rec[r], x), ~Holds(rec'[r], x)
      PROVE  ~Held(x)'
  BY <1>1, <1>6 DEF HoldInv, Unique, Held
<1>7. ASSUME NEW r \in Recs, NEW x \in Runs, <<r, x>> \in controls \ controls'
      PROVE  ~Held(x)'
  BY <1>1, <1>7 DEF HoldInv, Unique, Held
<1> QED BY <1>2, <1>3, <1>4, <1>5, <1>6, <1>7 DEF HoldInv

\* The record m comes to hold y, which is nowhere else then.
LEMMA RecordsGain ==
    ASSUME HoldInv, OthersTyped', OldInv', Names, controls' \subseteq controls,
           rec' \in [Recs -> RecType], NEW y \in Runs, NEW m \in Recs,
           \A s \in Recs : /\ Shape(rec'[s]) /\ Apart(rec'[s])
                           /\ \A x \in Runs : Holds(rec'[s], x) =>
                                                Holds(rec[s], x) \/ (s = m /\ x = y),
           \A s \in Recs : s # m => ~Holds(rec'[s], y),
           \A s \in Recs : <<s, y>> \notin controls',
           sentTo'[y] # NoThread
    PROVE  HoldInv' /\ \A x \in Runs : Held(x)' => Held(x) \/ x = y
<1>1. Shapes'
  BY DEF Shapes
<1>2. \A r, s \in Recs : \A x \in Runs : Holds(rec'[r], x) /\ Holds(rec'[s], x) => r = s
  BY DEF HoldInv, Unique
<1>3. \A r \in Recs, x \in Runs : <<r, x>> \in controls' =>
          /\ \A s \in Recs : ~Holds(rec'[s], x)
          /\ \A s \in Recs : <<s, x>> \in controls' => s = r
  BY DEF HoldInv, Unique
<1>4. \A x \in Runs : Held(x)' => Held(x) \/ x = y
  BY DEF Held
<1>5. Known'
  <2>1. \A t \in Threads : activeThreads'[t] # NoRec => rec'[activeThreads'[t]].loop # "free"
    BY DEF Names
  <2>2. \A r \in Recs, x \in Runs : <<r, x>> \in controls' \/ <<r, x>> \in gates' =>
                                            rec'[r].loop # "free"
    BY DEF Names, HoldInv, Known
  <2>3. \A x \in Runs : Held(x)' => sentTo'[x] # NoThread
    BY <1>4 DEF Names, HoldInv, Known
  <2> QED BY <2>1, <2>2, <2>3 DEF Known
<1>6. Unique'
  BY <1>2, <1>3 DEF Unique
<1> QED BY <1>1, <1>4, <1>5, <1>6 DEF HoldInv

\* No record is built that was not, and none ceases to be replaced.
LEMMA OldStays ==
    ASSUME HoldInv, rec' \in [Recs -> RecType],
           \A s \in Recs : rec'[s] = rec[s] \/ Moves(rec'[s], rec[s])
    PROVE  OldInv'
<1>1. \A n \in Recs : rec'[n].loop = "build" => rec[n].loop = "build" /\ rec'[n].oldRec = rec[n].oldRec
  BY DEF Moves
<1>2. \A s \in Recs : rec[s].loop = "rebuild" => rec'[s].loop = "rebuild"
  BY DEF Moves
<1>3. \A n \in Recs : rec[n].oldRec \in Recs \cup {NoRec}
  BY DEF HoldInv, Shapes, RecType
<1> QED BY <1>1, <1>2, <1>3 DEF HoldInv, OldInv

\* One record changes.
LEMMA OneRecord ==
    ASSUME HoldInv, OthersTyped', NEW r \in Recs, NEW p, rec' = [rec EXCEPT ![r] = p],
           Keeps(p, rec[r]), Moves(p, rec[r]), controls' \subseteq controls, sentTo' = sentTo,
           rec[r].loop # "free",
           \A t \in Threads : activeThreads'[t] \in {activeThreads[t], NoRec},
           \A s \in Recs, x \in Runs : <<s, x>> \in gates' \ gates => s = r
    PROVE  /\ HoldInv' /\ Shrinks
           /\ \A x \in Runs : Holds(rec[r], x) /\ ~Holds(p, x) => Held(x) /\ ~Held(x)'
           /\ \A s \in Recs, x \in Runs : <<s, x>> \in controls \ controls' => ~Held(x)'
<1>1. /\ rec' \in [Recs -> RecType] /\ rec'[r] = p
      /\ \A s \in Recs : s # r => rec'[s] = rec[s]
  BY DEF HoldInv, Shapes, Keeps
<1>2. OldInv'
  BY <1>1, OldStays
<1>3. \A t \in Threads : activeThreads[t] \in Recs \cup {NoRec}
  BY DEF HoldInv, OthersTyped
<1>4. Names
  BY <1>1, <1>3 DEF Names, Moves, HoldInv, Known
<1>5. /\ HoldInv' /\ Shrinks
      /\ \A s \in Recs, x \in Runs : Holds(rec[s], x) /\ ~Holds(rec'[s], x) => ~Held(x)'
      /\ \A s \in Recs, x \in Runs : <<s, x>> \in controls \ controls' => ~Held(x)'
  BY <1>1, <1>2, <1>4, RecordsShrink
<1>6. \A x \in Runs : Holds(rec[r], x) => Held(x)
  BY DEF Held
<1> QED BY <1>1, <1>5, <1>6

-----------------------------------------------------------------------------
(* Every step is fine *)

\* The conditions on one record that a step keeps, one for each of the invariants.
OwnStep == \A s \in Recs : Own(rec[s]) => Own(rec'[s])
OnceStep == \A s \in Recs : Once(rec[s]) => Once(rec'[s])
GateStep == \A s \in Recs : GateFine(rec[s], GatesOf(s)) => GateFine(rec'[s], GatesOf(s)')

\* Nothing is told to the host.
Quiet == Shrinks /\ UNCHANGED wireVars /\ shuttingDown' \in {shuttingDown, TRUE}

\* The failure of a run is reported; where a turn is reported once, of one that was
\* still held, and is no longer.
Fails(y) ==
    /\ Shrinks /\ EmitError(y) /\ UNCHANGED shuttingDown
    /\ (\A s \in Recs : Once(rec[s])) => Held(y) /\ ~Held(y)'

\* The run of a turn is answered by the result that the turn has got.
Answers(r, y) ==
    /\ Shrinks /\ UNCHANGED shuttingDown /\ rec[r].loop = "usage"
    /\ rec[r].currentRunId = y /\ EmitDone(y, rec[r].got)
    /\ Held(y) /\ ~Held(y)'

\* A run is accepted, which was held by nobody.
Accepts(y) ==
    /\ sentTo[y] = NoThread /\ ~shuttingDown /\ UNCHANGED <<terminals, answers, shuttingDown>>
    /\ \E t \in Threads : sentTo' = [sentTo EXCEPT ![y] = t]
    /\ \A x \in Runs : Held(x)' => Held(x) \/ x = y

\* The four things that a step may do to the runs.
Outcome ==
    \/ Quiet
    \/ \E y \in Runs : Fails(y) \/ Accepts(y)
    \/ \E r \in Recs, y \in Runs : Answers(r, y)

\* A step keeps the places, has one of these outcomes, and keeps the conditions on records
\* unless a fault that breaks them happens.
Fine ==
    /\ HoldInv' /\ Outcome
    /\ "background" \notin Faults => OwnStep
    /\ "throwAuth" \notin Faults /\ "limit" \notin Faults => OnceStep
    /\ "limit" \notin Faults => GateStep

\* Some records change, and no gate.
LEMMA FitsStep ==
    ASSUME rec \in [Recs -> RecType], gates' = gates,
           \A s \in Recs : \/ rec'[s] = rec[s]
                           \/ /\ OwnKept(rec'[s], rec[s]) /\ OnceKept(rec'[s], rec[s])
                              /\ GateKept(rec'[s], rec[s])
    PROVE  OwnStep /\ OnceStep /\ GateStep
<1>1. OwnStep
  BY DEF OwnStep, OwnKept
<1>2. OnceStep
  BY DEF OnceStep, OnceKept
<1>3. GateStep
  <2>1. \A s \in Recs : GatesOf(s)' = GatesOf(s) /\ GatesOf(s) \in SUBSET Runs
    BY DEF GatesOf
  <2> QED BY <2>1 DEF GateStep, GateKept
<1> QED BY <1>1, <1>2, <1>3

\* One record changes, and no gate.
LEMMA OneFits ==
    ASSUME rec \in [Recs -> RecType], gates' = gates, NEW r \in Recs, NEW p,
           rec' = [rec EXCEPT ![r] = p]
    PROVE  /\ OwnKept(p, rec[r]) => OwnStep
           /\ OnceKept(p, rec[r]) => OnceStep
           /\ GateKept(p, rec[r]) => GateStep
<1>1. \A s \in Recs : GatesOf(s)' = GatesOf(s) /\ GatesOf(s) \in SUBSET Runs
  BY DEF GatesOf
<1>2. rec'[r] = p /\ \A s \in Recs : s # r => rec'[s] = rec[s]
  OBVIOUS
<1> QED BY <1>1, <1>2 DEF OwnStep, OnceStep, GateStep, OwnKept, OnceKept, GateKept

\* What the report of a failure changes.
LEMMA ErrorTyped ==
    ASSUME OthersTyped, NEW y \in Runs, EmitError(y)
    PROVE  /\ sentTo' = sentTo /\ sentTo' \in [Runs -> Threads \cup {NoThread}]
           /\ terminals' \in [Runs -> Nat] /\ answers' \in [Runs -> Seq(Runs \cup {NoRun})]
BY DEF OthersTyped, EmitError

\* What the report of an answer changes.
LEMMA DoneTyped ==
    ASSUME OthersTyped, NEW y \in Runs, NEW with \in Runs \cup {NoRun}, EmitDone(y, with)
    PROVE  /\ sentTo' = sentTo /\ sentTo' \in [Runs -> Threads \cup {NoThread}]
           /\ terminals' \in [Runs -> Nat] /\ answers' \in [Runs -> Seq(Runs \cup {NoRun})]
<1>1. answers[y] \in Seq(Runs \cup {NoRun})
  BY DEF OthersTyped
<1>2. Append(answers[y], with) \in Seq(Runs \cup {NoRun})
  BY <1>1
<1> QED BY <1>2 DEF OthersTyped, EmitDone

\* What forgetting a run changes.
LEMMA ForgetTyped ==
    ASSUME OthersTyped, NEW x, Forget(x)
    PROVE  runToThread' \in [Runs -> Threads \cup {NoThread}]
BY DEF OthersTyped, Forget

\* What HoldInv says of one record.
LEMMA RecordIs ==
    ASSUME HoldInv, NEW r \in Recs
    PROVE  rec[r] \in RecType /\ Shape(rec[r]) /\ Apart(rec[r])
BY DEF HoldInv, Shapes

\* What the end of a teardown changes.
LEMMA FinalizeTyped ==
    ASSUME OthersTyped, NEW r \in Recs, Finalize(r)
    PROVE  /\ activeThreads' \in [Threads -> Recs \cup {NoRec}]
           /\ \A t \in Threads : activeThreads'[t] \in {activeThreads[t], NoRec}
           /\ runToThread' \in [Runs -> Threads \cup {NoThread}]
BY DEF OthersTyped, Finalize, Forget

-----------------------------------------------------------------------------
(* The query and the turn *)

\* A background task starts or ends.
LEMMA TaskEventStep ==
    ASSUME HoldInv, NEW r \in Recs, TaskEvent(r)
    PROVE  Fine
<1> DEFINE q == rec[r]
           p == [q EXCEPT !.background = ~@]
<1>1. /\ q \in RecType /\ Shape(q) /\ Apart(q) /\ q.loop = "read" /\ q.gen # "none"
      /\ "background" \in Faults
  BY RecordIs DEF TaskEvent
<1>2. rec' = [rec EXCEPT ![r] = p]
  BY DEF TaskEvent, HoldInv, Shapes
<1>3. UNCHANGED <<activeThreads, runToThread, controls, gates, shuttingDown, wireVars>>
  BY DEF TaskEvent, sideVars
<1> HIDE DEF q
<1>4. Keeps(p, q) /\ Moves(p, q) /\ OnceKept(p, q) /\ GateKept(p, q)
  BY <1>1, FlippedIs DEF GateKept
<1> HIDE DEF p
<1>5. OthersTyped'
  BY <1>3 DEF HoldInv, OthersTyped, wireVars
<1>6. HoldInv' /\ Shrinks
  BY <1>1, <1>2, <1>3, <1>4, <1>5, OneRecord DEF wireVars, q
<1>7. OnceStep /\ GateStep
  BY <1>2, <1>3, <1>4, OneFits DEF HoldInv, Shapes, q
<1>8. Quiet
  BY <1>3, <1>6 DEF Quiet
<1> QED BY <1>1, <1>6, <1>7, <1>8 DEF Fine, Outcome

\* A rate limit ends the run.
LEMMA RateLimitedStep ==
    ASSUME HoldInv, NEW r \in Recs, RateLimited(r)
    PROVE  Fine
<1> DEFINE q == rec[r]
           p == [q EXCEPT !.terminalEmitted = TRUE]
<1>1. /\ q \in RecType /\ Shape(q) /\ Apart(q) /\ q.loop = "read" /\ q.turnActive
      /\ q.currentRunId \in Runs /\ ~q.terminalEmitted /\ "limit" \in Faults
  BY RecordIs DEF RateLimited, RecType
<1>2. PICK x \in Runs : x = q.currentRunId
  BY <1>1
<1>3. rec' = [rec EXCEPT ![r] = p] /\ EmitError(x)
  BY <1>2 DEF RateLimited, HoldInv, Shapes
<1>4. UNCHANGED <<activeThreads, runToThread, controls, gates, shuttingDown>>
  BY DEF RateLimited, sideVars
<1> HIDE DEF q
<1>5. Keeps(p, q) /\ Moves(p, q) /\ OwnKept(p, q) /\ ~Holds(p, x)
  BY <1>1, <1>2, LimitedIs
<1>6. Holds(q, x)
  BY <1>1, <1>2 DEF Holds, Has, Current
<1> HIDE DEF p
<1>7. OthersTyped' /\ sentTo' = sentTo
  BY <1>3, <1>4, ErrorTyped DEF HoldInv, OthersTyped
<1>8. HoldInv' /\ Shrinks /\ Held(x) /\ ~Held(x)'
  BY <1>1, <1>3, <1>4, <1>5, <1>6, <1>7, OneRecord DEF q
<1>9. OwnStep
  BY <1>3, <1>4, <1>5, OneFits DEF HoldInv, Shapes, q
<1>10. Fails(x)
  BY <1>3, <1>4, <1>8 DEF Fails
<1> QED BY <1>1, <1>8, <1>9, <1>10 DEF Fine, Outcome

\* A tool asks the user.
LEMMA GateOpensStep ==
    ASSUME HoldInv, NEW r \in Recs, GateOpens(r)
    PROVE  Fine
<1> DEFINE q == rec[r]
           p == [q EXCEPT !.asked = TRUE, !.awaitingDecision = @ + 1]
<1>1. /\ q \in RecType /\ Shape(q) /\ Apart(q) /\ q.loop = "read" /\ q.turnActive
      /\ ~q.cancelRequested /\ ~q.dead /\ ~q.asked
  BY RecordIs DEF GateOpens
<1>2. rec' = [rec EXCEPT ![r] = p] /\ gates' = gates \cup {<<r, q.currentRunId>>}
  BY DEF GateOpens, HoldInv, Shapes
<1>3. UNCHANGED <<activeThreads, runToThread, controls, shuttingDown, wireVars>>
  BY DEF GateOpens
<1>4. q.currentRunId \in Runs
  BY <1>1 DEF Shape
<1> HIDE DEF q
<1>5. /\ Keeps(p, q) /\ Moves(p, q) /\ OwnKept(p, q) /\ OnceKept(p, q)
      /\ \A S \in SUBSET Runs : GateFine(q, S) => GateFine(p, S \cup {q.currentRunId})
  BY <1>1, AskIs
<1> HIDE DEF p
<1>6. OthersTyped'
  BY <1>2, <1>3, <1>4 DEF HoldInv, OthersTyped, wireVars
<1>7. HoldInv' /\ Shrinks
  BY <1>1, <1>2, <1>3, <1>5, <1>6, OneRecord DEF wireVars, q
<1>8. rec'[r] = p /\ \A s \in Recs : s # r => rec'[s] = rec[s]
  BY <1>2 DEF HoldInv, Shapes
<1>9. OwnStep /\ OnceStep
  BY <1>5, <1>8 DEF OwnStep, OnceStep, OwnKept, OnceKept, q
<1>10. GateStep
  <2>1. \A s \in Recs : s # r => GatesOf(s)' = GatesOf(s)
    BY <1>2 DEF GatesOf
  <2>2. GatesOf(r)' = GatesOf(r) \cup {q.currentRunId} /\ GatesOf(r) \in SUBSET Runs
    BY <1>2, <1>4 DEF GatesOf
  <2> QED BY <1>5, <1>8, <2>1, <2>2 DEF GateStep, q
<1>11. Quiet
  BY <1>3, <1>7 DEF Quiet
<1> QED BY <1>7, <1>9, <1>10, <1>11 DEF Fine, Outcome

\* A gate of a record closes.
LEMMA GateCloses ==
    ASSUME rec \in [Recs -> RecType], NEW r \in Recs, NEW p, rec' = [rec EXCEPT ![r] = p],
           NEW x \in Runs, gates' = gates \ {<<r, x>>},
           GateFine(rec[r], GatesOf(r)) => GateFine(p, GatesOf(r) \ {x})
    PROVE  GateStep
<1>1. \A s \in Recs : s # r => GatesOf(s)' = GatesOf(s)
  BY DEF GatesOf
<1>2. GatesOf(r)' = GatesOf(r) \ {x}
  BY DEF GatesOf
<1>3. rec'[r] = p /\ \A s \in Recs : s # r => rec'[s] = rec[s]
  OBVIOUS
<1> QED BY <1>1, <1>2, <1>3 DEF GateStep

\* The user decides, or a gate is dropped.
LEMMA DecideStep ==
    ASSUME HoldInv, NEW r \in Recs, NEW x \in Runs, Decide(r, x)
    PROVE  Fine
<1> DEFINE q == rec[r]
           p == [q EXCEPT !.awaitingDecision = @ - 1]
<1>1. /\ q \in RecType /\ Shape(q) /\ Apart(q) /\ q.loop # "free"
  BY RecordIs DEF Decide, HoldInv, Known
<1>2. rec' = [rec EXCEPT ![r] = p] /\ gates' = gates \ {<<r, x>>} /\ x \in GatesOf(r)
  BY DEF Decide, HoldInv, Shapes, GatesOf
<1>3. UNCHANGED <<activeThreads, runToThread, controls, shuttingDown, wireVars>>
  BY DEF Decide
<1> HIDE DEF q
<1>4. /\ Keeps(p, q) /\ Moves(p, q) /\ OwnKept(p, q) /\ OnceKept(p, q)
      /\ \A S \in SUBSET Runs, y \in Runs : y \in S /\ GateFine(q, S) => GateFine(p, S \ {y})
  BY <1>1, DecidedIs
<1> HIDE DEF p
<1>5. OthersTyped'
  BY <1>2, <1>3 DEF HoldInv, OthersTyped, wireVars
<1>6. HoldInv' /\ Shrinks
  BY <1>1, <1>2, <1>3, <1>4, <1>5, OneRecord DEF wireVars, q
<1>7. rec'[r] = p /\ \A s \in Recs : s # r => rec'[s] = rec[s]
  BY <1>2 DEF HoldInv, Shapes
<1>8. OwnStep /\ OnceStep
  BY <1>4, <1>7 DEF OwnStep, OnceStep, OwnKept, OnceKept, q
<1>9. GateStep
  <2>1. GatesOf(r) \in SUBSET Runs
    BY DEF GatesOf
  <2>2. GateFine(q, GatesOf(r)) => GateFine(p, GatesOf(r) \ {x})
    BY <1>2, <1>4, <2>1
  <2> QED BY <1>2, <2>2, GateCloses DEF q, HoldInv, Shapes
<1>10. Quiet
  BY <1>3, <1>6 DEF Quiet
<1> QED BY <1>6, <1>8, <1>9, <1>10 DEF Fine, Outcome

\* A run is cancelled.
LEMMA CancelStep ==
    ASSUME HoldInv, NEW x \in Runs, Cancel(x)
    PROVE  Fine
<1> DEFINE r == activeThreads[runToThread[x]]
           q == rec[r]
<1>1. runToThread[x] \in Threads /\ r \in Recs
  BY DEF Cancel, HoldInv, OthersTyped
<1>2. /\ q \in RecType /\ Shape(q) /\ Apart(q) /\ q.loop # "free" /\ q.turnActive
      /\ q.currentRunId = x
  BY <1>1, RecordIs DEF Cancel, HoldInv, Known
<1>3. UNCHANGED <<activeThreads, runToThread, controls, shuttingDown, wireVars>>
  BY DEF Cancel
<1>4. CASE q.awaitingDecision > 0 /\ <<r, x>> \in gates
  <2> DEFINE p == [q EXCEPT !.cancelRequested = TRUE, !.awaitingDecision = @ - 1]
  <2>1. rec' = [rec EXCEPT ![r] = p] /\ gates' = gates \ {<<r, x>>}
    BY <1>4 DEF Cancel, HoldInv, Shapes
  <2> HIDE DEF q, r
  <2>2. /\ Keeps(p, q) /\ Moves(p, q) /\ OwnKept(p, q) /\ OnceKept(p, q)
        /\ \A S \in SUBSET Runs : GateFine(q, S) => GateFine(p, S \ {q.currentRunId})
    BY <1>2, <1>4, RejectedIs
  <2> HIDE DEF p
  <2>3. OthersTyped'
    BY <1>3, <2>1 DEF HoldInv, OthersTyped, wireVars
  <2>4. HoldInv' /\ Shrinks
    BY <1>1, <1>2, <1>3, <2>1, <2>2, <2>3, OneRecord DEF wireVars, q
  <2>5. rec'[r] = p /\ \A s \in Recs : s # r => rec'[s] = rec[s]
    BY <1>1, <2>1 DEF HoldInv, Shapes
  <2>6. OwnStep /\ OnceStep
    BY <2>2, <2>5 DEF OwnStep, OnceStep, OwnKept, OnceKept, q
  <2>7. GateStep
    <3>1. GatesOf(r) \in SUBSET Runs
      BY DEF GatesOf
    <3>2. GateFine(q, GatesOf(r)) => GateFine(p, GatesOf(r) \ {x})
      BY <1>2, <2>2, <3>1
    <3> QED BY <1>1, <2>1, <3>2, GateCloses DEF q, HoldInv, Shapes
  <2>8. Quiet
    BY <1>3, <2>4 DEF Quiet
  <2> QED BY <2>4, <2>6, <2>7, <2>8 DEF Fine, Outcome
<1>5. CASE ~(q.awaitingDecision > 0 /\ <<r, x>> \in gates)
  <2> DEFINE p == [q EXCEPT !.cancelRequested = TRUE]
  <2>1. rec' = [rec EXCEPT ![r] = p] /\ gates' = gates
    BY <1>5 DEF Cancel, HoldInv, Shapes
  <2> HIDE DEF q, r
  <2>2. /\ Keeps(p, q) /\ Moves(p, q) /\ OwnKept(p, q) /\ OnceKept(p, q)
        /\ \A S \in SUBSET Runs :
              ~(q.awaitingDecision > 0 /\ q.currentRunId \in S) /\ GateFine(q, S) => GateFine(p, S)
    BY <1>2, CancelledIs
  <2> HIDE DEF p
  <2>3. OthersTyped'
    BY <1>3, <2>1 DEF HoldInv, OthersTyped, wireVars
  <2>4. HoldInv' /\ Shrinks
    BY <1>1, <1>2, <1>3, <2>1, <2>2, <2>3, OneRecord DEF wireVars, q
  <2>5. rec'[r] = p /\ \A s \in Recs : s # r => rec'[s] = rec[s]
    BY <1>1, <2>1 DEF HoldInv, Shapes
  <2>6. OwnStep /\ OnceStep
    BY <2>2, <2>5 DEF OwnStep, OnceStep, OwnKept, OnceKept, q
  <2>7. GateStep
    <3>1. \A s \in Recs : GatesOf(s)' = GatesOf(s) /\ GatesOf(s) \in SUBSET Runs
      BY <2>1 DEF GatesOf
    <3>2. ~(q.awaitingDecision > 0 /\ q.currentRunId \in GatesOf(r))
      BY <1>2, <1>5 DEF GatesOf
    <3> QED BY <2>2, <2>5, <3>1, <3>2 DEF GateStep, q
  <2>8. Quiet
    BY <1>3, <2>4 DEF Quiet
  <2> QED BY <2>4, <2>6, <2>7, <2>8 DEF Fine, Outcome
<1> QED BY <1>4, <1>5

\* The result of a turn arrives, and its context usage is awaited.
LEMMA ResultStep ==
    ASSUME HoldInv, NEW r \in Recs, NEW kind \in {"ok", "error", "auth"}, Result(r, kind)
    PROVE  Fine
<1> DEFINE q == rec[r]
           p == [q EXCEPT !.loop = "usage", !.kind = kind, !.got = Head(q.owed),
                    !.owed = Tail(@), !.closeRequested = @ \/ q.policy = "closeAfterResult"]
<1>1. /\ q \in RecType /\ Shape(q) /\ Apart(q) /\ q.loop = "read" /\ q.turnActive
      /\ q.owed # <<>>
      /\ <<r, q.currentRunId>> \in gates => q.terminalEmitted \/ q.cancelRequested
  BY RecordIs DEF Result
<1>2. rec' = [rec EXCEPT ![r] = p]
  BY DEF Result
<1>3. UNCHANGED <<activeThreads, runToThread, controls, gates, shuttingDown, wireVars>>
  BY DEF Result, sideVars
<1> HIDE DEF q
<1>4. /\ Keeps(p, q) /\ Moves(p, q) /\ OwnKept(p, q) /\ OnceKept(p, q)
      /\ \A S \in SUBSET Runs :
            /\ q.currentRunId \in S => q.terminalEmitted \/ q.cancelRequested
            /\ GateFine(q, S)
            => GateFine(p, S)
  BY <1>1, ResultIs
<1> HIDE DEF p
<1>5. OthersTyped'
  BY <1>3 DEF HoldInv, OthersTyped, wireVars
<1>6. HoldInv' /\ Shrinks
  BY <1>1, <1>2, <1>3, <1>4, <1>5, OneRecord DEF wireVars, q
<1>7. OwnStep /\ OnceStep
  BY <1>2, <1>3, <1>4, OneFits DEF HoldInv, Shapes, q
<1>8. GateStep
  <2>1. \A s \in Recs : GatesOf(s)' = GatesOf(s) /\ GatesOf(s) \in SUBSET Runs
    BY <1>3 DEF GatesOf
  <2>2. q.currentRunId \in GatesOf(r) => q.terminalEmitted \/ q.cancelRequested
    BY <1>1 DEF GatesOf
  <2>3. rec'[r] = p /\ \A s \in Recs : s # r => rec'[s] = rec[s]
    BY <1>2 DEF HoldInv, Shapes
  <2> QED BY <1>4, <2>1, <2>2, <2>3 DEF GateStep, q
<1>9. Quiet
  BY <1>3, <1>6 DEF Quiet
<1> QED BY <1>6, <1>7, <1>8, <1>9 DEF Fine, Outcome

\* One record changes and keeps what it has, and nothing is told to the host.
LEMMA QuietStep ==
    ASSUME HoldInv, NEW r \in Recs, NEW p, rec' = [rec EXCEPT ![r] = p], rec[r].loop # "free",
           Keeps(p, rec[r]), Moves(p, rec[r]),
           OwnKept(p, rec[r]), OnceKept(p, rec[r]) \/ "throwAuth" \in Faults, GateKept(p, rec[r]),
           UNCHANGED <<activeThreads, controls, gates, shuttingDown, wireVars>>,
           runToThread' \in [Runs -> Threads \cup {NoThread}]
    PROVE  Fine
<1>1. OthersTyped'
  BY DEF HoldInv, OthersTyped, wireVars
<1>2. HoldInv' /\ Shrinks
  BY <1>1, OneRecord DEF wireVars
<1>3. OwnStep /\ (OnceStep \/ "throwAuth" \in Faults) /\ GateStep
  BY OneFits DEF HoldInv, Shapes
<1>4. Quiet
  BY <1>2 DEF Quiet
<1> QED BY <1>2, <1>3, <1>4 DEF Fine, Outcome

\* One record changes, and a failure is reported.
LEMMA ErrorStep ==
    ASSUME HoldInv, NEW r \in Recs, NEW p, rec' = [rec EXCEPT ![r] = p], rec[r].loop # "free",
           Keeps(p, rec[r]), Moves(p, rec[r]),
           OwnKept(p, rec[r]), OnceKept(p, rec[r]), GateKept(p, rec[r]),
           NEW x \in Runs, EmitError(x),
           (\A s \in Recs : Once(rec[s])) => Holds(rec[r], x) /\ ~Holds(p, x),
           UNCHANGED <<controls, gates, shuttingDown>>,
           activeThreads' \in [Threads -> Recs \cup {NoRec}],
           \A t \in Threads : activeThreads'[t] \in {activeThreads[t], NoRec},
           runToThread' \in [Runs -> Threads \cup {NoThread}]
    PROVE  Fine
<1>1. OthersTyped' /\ sentTo' = sentTo
  BY ErrorTyped DEF HoldInv, OthersTyped
<1>2. HoldInv' /\ Shrinks
      /\ \A y \in Runs : Holds(rec[r], y) /\ ~Holds(p, y) => Held(y) /\ ~Held(y)'
  BY <1>1, OneRecord
<1>3. OwnStep /\ OnceStep /\ GateStep
  BY OneFits DEF HoldInv, Shapes
<1>4. Fails(x)
  BY <1>2 DEF Fails
<1> QED BY <1>2, <1>3, <1>4 DEF Fine, Outcome

\* A result arrives that belongs to no turn.
LEMMA BackgroundResultStep ==
    ASSUME HoldInv, NEW r \in Recs, BackgroundResult(r)
    PROVE  Fine
<1> DEFINE q == rec[r]
           p == [q EXCEPT !.owed = Tail(@)]
<1>1. /\ q \in RecType /\ Shape(q) /\ Apart(q) /\ q.loop = "read" /\ ~q.turnActive
      /\ q.owed # <<>>
  BY RecordIs DEF BackgroundResult
<1>2. rec' = [rec EXCEPT ![r] = p]
  BY DEF BackgroundResult, HoldInv, Shapes
<1>3. UNCHANGED <<activeThreads, runToThread, controls, gates, shuttingDown, wireVars>>
  BY DEF BackgroundResult, sideVars
<1> HIDE DEF q
<1>4. Keeps(p, q) /\ Moves(p, q) /\ OwnKept(p, q) /\ OnceKept(p, q) /\ GateKept(p, q)
  BY <1>1, LateIs DEF GateKept
<1> HIDE DEF p
<1>5. runToThread' \in [Runs -> Threads \cup {NoThread}]
  BY <1>3 DEF HoldInv, OthersTyped
<1> QED BY <1>1, <1>2, <1>3, <1>4, <1>5, QuietStep DEF q

\* The stream throws an authentication error.
LEMMA StreamAuthStep ==
    ASSUME HoldInv, NEW r \in Recs, StreamAuth(r)
    PROVE  Fine
<1> DEFINE q == rec[r]
           p == [q EXCEPT !.loop = "token", !.got = q.currentRunId, !.authRetried = TRUE,
                     !.caught = TRUE]
<1>1. /\ q \in RecType /\ Shape(q) /\ Apart(q) /\ q.loop = "read" /\ q.turnActive
      /\ ~q.terminalEmitted /\ "throwAuth" \in Faults
  BY RecordIs DEF StreamAuth
<1>2. rec' = [rec EXCEPT ![r] = p]
  BY DEF StreamAuth, HoldInv, Shapes
<1>3. UNCHANGED <<activeThreads, runToThread, controls, gates, shuttingDown, wireVars>>
  BY DEF StreamAuth, sideVars
<1> HIDE DEF q
<1>4. Keeps(p, q) /\ Moves(p, q) /\ OwnKept(p, q) /\ GateKept(p, q)
  BY <1>1, ThrownIs DEF GateKept
<1> HIDE DEF p
<1>5. runToThread' \in [Runs -> Threads \cup {NoThread}]
  BY <1>3 DEF HoldInv, OthersTyped
<1> QED BY <1>1, <1>2, <1>3, <1>4, <1>5, QuietStep DEF q

\* The reaper closes a query that was kept for background tasks.
LEMMA ReaperStep ==
    ASSUME HoldInv, NEW r \in Recs, ReaperFires(r)
    PROVE  Fine
<1>1. /\ rec[r] \in RecType /\ Shape(rec[r]) /\ Apart(rec[r]) /\ rec[r].loop # "free"
  BY RecordIs DEF ReaperFires
<1>2. rec' = [rec EXCEPT ![r] = Torn(rec[r])]
  BY DEF ReaperFires
<1>3. UNCHANGED <<activeThreads, runToThread, controls, gates, shuttingDown, wireVars>>
  BY DEF ReaperFires, sideVars
<1>4. /\ Keeps(Torn(rec[r]), rec[r]) /\ Moves(Torn(rec[r]), rec[r])
      /\ OwnKept(Torn(rec[r]), rec[r]) /\ OnceKept(Torn(rec[r]), rec[r])
      /\ GateKept(Torn(rec[r]), rec[r])
  BY <1>1, TornFits
<1>5. runToThread' \in [Runs -> Threads \cup {NoThread}]
  BY <1>3 DEF HoldInv, OthersTyped
<1> QED BY <1>1, <1>2, <1>3, <1>4, <1>5, QuietStep

\* The host closes a thread.
LEMMA CloseThreadStep ==
    ASSUME HoldInv, NEW t \in Threads, CloseThread(t)
    PROVE  Fine
<1> DEFINE r == activeThreads[t]
<1>0. r \in Recs
  BY DEF CloseThread, HoldInv, OthersTyped
<1>1. /\ rec[r] \in RecType /\ Shape(rec[r]) /\ Apart(rec[r]) /\ rec[r].loop # "free"
  BY <1>0, RecordIs DEF CloseThread, HoldInv, Known
<1>2. rec' = [rec EXCEPT ![r] = Torn(rec[r])]
  BY DEF CloseThread
<1>3. UNCHANGED <<activeThreads, runToThread, controls, gates, shuttingDown, wireVars>>
  BY DEF CloseThread
<1> HIDE DEF r
<1>4. /\ Keeps(Torn(rec[r]), rec[r]) /\ Moves(Torn(rec[r]), rec[r])
      /\ OwnKept(Torn(rec[r]), rec[r]) /\ OnceKept(Torn(rec[r]), rec[r])
      /\ GateKept(Torn(rec[r]), rec[r])
  BY <1>0, <1>1, TornFits
<1>5. runToThread' \in [Runs -> Threads \cup {NoThread}]
  BY <1>3 DEF HoldInv, OthersTyped
<1> QED BY <1>0, <1>1, <1>2, <1>3, <1>4, <1>5, QuietStep

\* The watchdog finds a turn idle.
LEMMA IdleTimeoutStep ==
    ASSUME HoldInv, NEW r \in Recs, IdleTimeout(r)
    PROVE  Fine
<1> DEFINE q == rec[r]
           p == Torn([q EXCEPT !.terminalEmitted = TRUE])
<1>1. /\ q \in RecType /\ Shape(q) /\ Apart(q) /\ q.loop \in {"read", "usage", "token", "rebuild"}
      /\ ~q.dead /\ q.turnActive
  BY RecordIs DEF IdleTimeout
<1>2. PICK x \in Runs : x = q.currentRunId
  BY <1>1 DEF Shape
<1>3. rec' = [rec EXCEPT ![r] = p] /\ EmitError(x)
  BY <1>2 DEF IdleTimeout
<1>4. UNCHANGED <<activeThreads, runToThread, controls, gates, shuttingDown>>
  BY DEF IdleTimeout, sideVars
<1> HIDE DEF q
<1>5. /\ Keeps(p, q) /\ Moves(p, q) /\ OwnKept(p, q) /\ OnceKept(p, q) /\ GateKept(p, q)
      /\ Once(q) => ~Holds(p, x)
  BY <1>1, <1>2, ReportedIs
<1>6. Once(q) => Holds(q, x)
  BY <1>1, <1>2 DEF Holds, Has, Current, Once, Shape
<1> HIDE DEF p
<1>7. runToThread' \in [Runs -> Threads \cup {NoThread}]
      /\ activeThreads' \in [Threads -> Recs \cup {NoRec}]
      /\ \A t \in Threads : activeThreads'[t] \in {activeThreads[t], NoRec}
  BY <1>4 DEF HoldInv, OthersTyped
<1>8. (\A s \in Recs : Once(rec[s])) => Holds(q, x) /\ ~Holds(p, x)
  BY <1>5, <1>6 DEF q
<1> QED BY <1>1, <1>3, <1>4, <1>5, <1>7, <1>8, ErrorStep DEF q

\* The grace period of a cancelled turn is over.
LEMMA BackstopStep ==
    ASSUME HoldInv, NEW r \in Recs, Backstop(r)
    PROVE  Fine
<1> DEFINE q == rec[r]
<1>1. /\ q \in RecType /\ Shape(q) /\ Apart(q) /\ q.cancelRequested
      /\ ~q.terminalEmitted /\ q.turnActive
  BY RecordIs DEF Backstop
<1>2. PICK x \in Runs : x = q.currentRunId
  BY <1>1 DEF Backstop, RecType
<1>3. EmitError(x) /\ UNCHANGED <<activeThreads, controls, gates, shuttingDown>>
  BY <1>2 DEF Backstop, sideVars
<1>4. Once(q) => Holds(q, x)
  BY <1>1, <1>2 DEF Holds, Has, Current, Once, Shape
<1>5. /\ activeThreads' \in [Threads -> Recs \cup {NoRec}]
      /\ \A t \in Threads : activeThreads'[t] \in {activeThreads[t], NoRec}
  BY <1>3 DEF HoldInv, OthersTyped
<1>6. q.loop # "free"
  BY <1>1 DEF Shape
<1>7. CASE q.background
  <2> DEFINE p == Release([q EXCEPT !.terminalEmitted = TRUE, !.turnActive = FALSE,
                                    !.currentRunId = NoRun])
  <2>1. rec' = [rec EXCEPT ![r] = p] /\ Forget(x)
    BY <1>2, <1>7 DEF Backstop
  <2> HIDE DEF q
  <2>2. /\ Keeps(p, q) /\ Moves(p, q) /\ OwnKept(p, q) /\ OnceKept(p, q) /\ GateKept(p, q)
        /\ Once(q) => ~Holds(p, x)
    BY <1>1, <1>2, <1>7, AbandonedIs
  <2> HIDE DEF p
  <2>3. runToThread' \in [Runs -> Threads \cup {NoThread}]
    BY <2>1, ForgetTyped DEF HoldInv
  <2>4. (\A s \in Recs : Once(rec[s])) => Holds(q, x) /\ ~Holds(p, x)
    BY <1>4, <2>2 DEF q
  <2> QED BY <1>3, <1>5, <1>6, <2>1, <2>2, <2>3, <2>4, ErrorStep DEF q
<1>8. CASE ~q.background
  <2> DEFINE p == Torn([q EXCEPT !.terminalEmitted = TRUE])
  <2>1. rec' = [rec EXCEPT ![r] = p] /\ UNCHANGED runToThread
    BY <1>8 DEF Backstop
  <2> HIDE DEF q
  <2>2. /\ Keeps(p, q) /\ Moves(p, q) /\ OwnKept(p, q) /\ OnceKept(p, q) /\ GateKept(p, q)
        /\ Once(q) => ~Holds(p, x)
    BY <1>1, <1>2, ReportedIs
  <2> HIDE DEF p
  <2>3. runToThread' \in [Runs -> Threads \cup {NoThread}]
    BY <2>1 DEF HoldInv, OthersTyped
  <2>4. (\A s \in Recs : Once(rec[s])) => Holds(q, x) /\ ~Holds(p, x)
    BY <1>4, <2>2 DEF q
  <2> QED BY <1>3, <1>5, <1>6, <2>1, <2>2, <2>3, <2>4, ErrorStep DEF q
<1> QED BY <1>7, <1>8

\* The context usage is there, and the turn settles.
LEMMA SettleStep ==
    ASSUME HoldInv, NEW r \in Recs, Settle(r)
    PROVE  Fine
<1> DEFINE q == rec[r]
           replay == q.kind = "auth" /\ ~q.authRetried /\ ~q.cancelRequested
<1>1. q \in RecType /\ Shape(q) /\ Apart(q) /\ q.loop = "usage"
  BY RecordIs DEF Settle
<1>2. UNCHANGED <<activeThreads, controls, gates, shuttingDown>>
  BY DEF Settle, sideVars
<1>3. /\ activeThreads' \in [Threads -> Recs \cup {NoRec}]
      /\ \A t \in Threads : activeThreads'[t] \in {activeThreads[t], NoRec}
  BY <1>2 DEF HoldInv, OthersTyped
<1>4. /\ Keeps(Settled(q), q) /\ Moves(Settled(q), q) /\ OwnKept(Settled(q), q)
      /\ OnceKept(Settled(q), q) /\ GateKept(Settled(q), q)
      /\ \A x \in Runs : Has(q, x) => ~Holds(Settled(q), x)
  BY <1>1, SettledIs
<1>5. CASE q.terminalEmitted
  <2>1. rec' = [rec EXCEPT ![r] = Settled(q)] /\ Forget(q.currentRunId) /\ UNCHANGED wireVars
    BY <1>5 DEF Settle
  <2>2. runToThread' \in [Runs -> Threads \cup {NoThread}]
    BY <2>1, ForgetTyped DEF HoldInv
  <2> QED BY <1>1, <1>2, <1>4, <2>1, <2>2, QuietStep
<1>6. CASE ~q.terminalEmitted /\ replay
  <2> DEFINE p == [q EXCEPT !.loop = "token", !.got = q.currentRunId, !.turnActive = FALSE,
                     !.terminalEmitted = TRUE, !.authRetried = TRUE, !.caught = FALSE]
  <2>1. rec' = [rec EXCEPT ![r] = p] /\ UNCHANGED <<runToThread, wireVars>>
    BY <1>6 DEF Settle
  <2> HIDE DEF q
  <2>2. Keeps(p, q) /\ Moves(p, q) /\ OwnKept(p, q) /\ OnceKept(p, q) /\ GateKept(p, q)
    BY <1>1, <1>6, ReplayIs DEF GateKept
  <2> HIDE DEF p
  <2>3. runToThread' \in [Runs -> Threads \cup {NoThread}]
    BY <2>1 DEF HoldInv, OthersTyped
  <2> QED BY <1>1, <1>2, <2>1, <2>2, <2>3, QuietStep DEF q
<1>7. CASE ~q.terminalEmitted /\ ~replay
  <2> DEFINE p == Settled(q)
  <2>1. PICK x \in Runs : x = q.currentRunId
    BY <1>1, <1>7 DEF Shape
  <2>2. rec' = [rec EXCEPT ![r] = p] /\ Forget(x)
        /\ (EmitDone(x, q.got) \/ EmitError(x))
    BY <1>7, <2>1 DEF Settle
  <2>3. Has(q, x) /\ Holds(q, x)
    BY <1>1, <1>7, <2>1 DEF Shape, Has, Holds, Current
  <2>4. ~Holds(p, x)
    BY <1>4, <2>3
  <2>5. runToThread' \in [Runs -> Threads \cup {NoThread}]
    BY <2>2, ForgetTyped DEF HoldInv
  <2>6. CASE EmitError(x)
    <3> HIDE DEF p
    <3> QED BY <1>1, <1>2, <1>3, <1>4, <2>2, <2>3, <2>4, <2>5, <2>6, ErrorStep DEF p
  <2>7. CASE EmitDone(x, q.got)
    <3> HIDE DEF p, q
    <3>1. q.got \in Runs \cup {NoRun}
      BY <1>1 DEF RecType
    <3>2. OthersTyped' /\ sentTo' = sentTo
      BY <1>2, <1>3, <2>5, <2>7, <3>1, DoneTyped DEF HoldInv, OthersTyped
    <3>3. HoldInv' /\ Shrinks
          /\ \A y \in Runs : Holds(q, y) /\ ~Holds(p, y) => Held(y) /\ ~Held(y)'
      BY <1>1, <1>2, <1>3, <1>4, <2>2, <3>2, OneRecord DEF q, p
    <3>4. OwnStep /\ OnceStep /\ GateStep
      BY <1>2, <1>4, <2>2, OneFits DEF HoldInv, Shapes, q, p
    <3>5. Answers(r, x)
      BY <1>1, <1>2, <2>1, <2>3, <2>4, <2>7, <3>3 DEF Answers, q
    <3> QED BY <3>3, <3>4, <3>5 DEF Fine, Outcome
  <2> QED BY <2>2, <2>6, <2>7
<1> QED BY <1>5, <1>6, <1>7

\* The fresh token does not come.
LEMMA TokenTimeoutStep ==
    ASSUME HoldInv, NEW r \in Recs, TokenTimeout(r)
    PROVE  Fine
<1> DEFINE q == rec[r]
<1>1. q \in RecType /\ Shape(q) /\ Apart(q) /\ q.loop = "token"
  BY RecordIs DEF TokenTimeout
<1>2. UNCHANGED <<controls, gates, shuttingDown>>
  BY DEF TokenTimeout, sideVars
<1>3. CASE ~q.caught
  <2>1. PICK x \in Runs : x = q.got
    BY <1>1 DEF Shape
  <2>2. rec' = [rec EXCEPT ![r] = Settled(q)] /\ Forget(x) /\ EmitError(x)
        /\ UNCHANGED activeThreads
    BY <1>3, <2>1 DEF TokenTimeout
  <2>3. /\ Keeps(Settled(q), q) /\ Moves(Settled(q), q) /\ OwnKept(Settled(q), q)
        /\ OnceKept(Settled(q), q) /\ GateKept(Settled(q), q)
        /\ \A y \in Runs : Has(q, y) => ~Holds(Settled(q), y)
    BY <1>1, <1>3, SettledIs
  <2>4. Has(q, x) /\ Holds(q, x)
    BY <1>1, <2>1 DEF Has, Holds
  <2>5. runToThread' \in [Runs -> Threads \cup {NoThread}]
        /\ activeThreads' \in [Threads -> Recs \cup {NoRec}]
        /\ \A t \in Threads : activeThreads'[t] \in {activeThreads[t], NoRec}
    BY <2>2, ForgetTyped DEF HoldInv, OthersTyped
  <2>6. ~Holds(Settled(q), x)
    BY <2>3, <2>4
  <2> QED BY <1>1, <1>2, <2>2, <2>3, <2>4, <2>5, <2>6, ErrorStep
<1>4. CASE q.caught
  <2> DEFINE p == Gone(Release([q EXCEPT !.terminalEmitted = TRUE, !.turnActive = FALSE]))
  <2>1. rec' = [rec EXCEPT ![r] = p] /\ EmitError(q.currentRunId) /\ Finalize(r)
    BY <1>4 DEF TokenTimeout
  <2>2. /\ Keeps(p, q) /\ p.loop = "gone" /\ OwnKept(p, q) /\ OnceKept(p, q) /\ GateKept(p, q)
    BY <1>1, <1>4, EndedIs
  <2>3. ~Once(q)
    BY <1>1, <1>4 DEF Once
  <2> HIDE DEF p
  <2>4. Moves(p, q)
    BY <1>1, <2>2 DEF Moves
  <2>5. /\ activeThreads' \in [Threads -> Recs \cup {NoRec}]
        /\ \A t \in Threads : activeThreads'[t] \in {activeThreads[t], NoRec}
        /\ runToThread' \in [Runs -> Threads \cup {NoThread}]
    BY <2>1, FinalizeTyped DEF HoldInv
  <2>6. CASE q.currentRunId \in Runs
    <3>1. PICK x \in Runs : x = q.currentRunId
      BY <2>6
    <3> HIDE DEF q
    <3> QED BY <1>1, <1>2, <2>1, <2>2, <2>3, <2>4, <2>5, <3>1, ErrorStep DEF q
  <2>7. CASE q.currentRunId \notin Runs
    <3>1. UNCHANGED wireVars
      BY <2>1, <2>7 DEF EmitError, wireVars, HoldInv, OthersTyped
    <3>2. OthersTyped'
      BY <1>2, <2>5, <3>1 DEF HoldInv, OthersTyped, wireVars
    <3> HIDE DEF q
    <3>3. HoldInv' /\ Shrinks
      BY <1>1, <1>2, <2>1, <2>2, <2>4, <2>5, <3>1, <3>2, OneRecord DEF wireVars, q
    <3>4. OwnStep /\ OnceStep /\ GateStep
      BY <1>2, <2>1, <2>2, OneFits DEF HoldInv, Shapes, q
    <3>5. Quiet
      BY <1>2, <3>1, <3>3 DEF Quiet
    <3> QED BY <3>3, <3>4, <3>5 DEF Fine, Outcome
  <2> QED BY <2>6, <2>7
<1> QED BY <1>3, <1>4

\* The loop of a record ends, and its finally reports what is left.
LEMMA LoopEndsStep ==
    ASSUME HoldInv, NEW r \in Recs, LoopEnds(r)
    PROVE  Fine
<1> DEFINE q == rec[r]
           owing == q.turnActive /\ q.currentRunId # NoRun /\ ~q.terminalEmitted
<1>1. q \in RecType /\ Shape(q) /\ Apart(q) /\ q.loop = "read"
  BY RecordIs DEF LoopEnds
<1>2. UNCHANGED <<controls, gates, shuttingDown>> /\ Finalize(r)
  BY DEF LoopEnds, sideVars
<1>3. /\ activeThreads' \in [Threads -> Recs \cup {NoRec}]
      /\ \A t \in Threads : activeThreads'[t] \in {activeThreads[t], NoRec}
      /\ runToThread' \in [Runs -> Threads \cup {NoThread}]
  BY <1>2, FinalizeTyped DEF HoldInv
<1>4. CASE owing
  <2> DEFINE p == Gone(Release([q EXCEPT !.terminalEmitted = TRUE, !.turnActive = FALSE]))
  <2>1. PICK x \in Runs : x = q.currentRunId
    BY <1>1, <1>4 DEF Shape
  <2>2. rec' = [rec EXCEPT ![r] = p] /\ EmitError(x)
    BY <1>4, <2>1 DEF LoopEnds
  <2>3. Has(q, x) /\ Holds(q, x)
    BY <1>1, <1>4, <2>1 DEF Has, Holds, Current
  <2> HIDE DEF q
  <2>4. /\ Keeps(p, q) /\ p.loop = "gone" /\ OwnKept(p, q) /\ OnceKept(p, q) /\ GateKept(p, q)
        /\ \A y \in Runs : Has(q, y) => ~Holds(p, y)
    BY <1>1, <1>4, EndedIs
  <2> HIDE DEF p
  <2>5. ~Holds(p, x) /\ Moves(p, q)
    BY <1>1, <2>3, <2>4 DEF Moves
  <2> QED BY <1>1, <1>2, <1>3, <2>2, <2>3, <2>4, <2>5, ErrorStep DEF q
<1>5. CASE ~owing
  <2>1. rec' = [rec EXCEPT ![r] = Gone(q)] /\ UNCHANGED wireVars
    BY <1>5 DEF LoopEnds
  <2>2. /\ Keeps(Gone(q), q) /\ Gone(q).loop = "gone" /\ OwnKept(Gone(q), q)
        /\ OnceKept(Gone(q), q) /\ GateKept(Gone(q), q)
    BY <1>1, GoneFits
  <2>3. Moves(Gone(q), q)
    BY <1>1, <2>2 DEF Moves
  <2>4. OthersTyped'
    BY <1>2, <1>3, <2>1 DEF HoldInv, OthersTyped, wireVars
  <2>5. HoldInv' /\ Shrinks
    BY <1>1, <1>2, <1>3, <2>1, <2>2, <2>3, <2>4, OneRecord DEF wireVars
  <2>6. OwnStep /\ OnceStep /\ GateStep
    BY <1>2, <2>1, <2>2, OneFits DEF HoldInv, Shapes
  <2>7. Quiet
    BY <1>2, <2>1, <2>5 DEF Quiet
  <2> QED BY <2>5, <2>6, <2>7 DEF Fine, Outcome
<1> QED BY <1>4, <1>5

-----------------------------------------------------------------------------
(* The requests, and the records they begin *)

\* All that an operation keeps of a record that it takes no run to.
Kept(p, q) ==
    /\ Keeps(p, q) /\ Moves(p, q)
    /\ OwnKept(p, q) /\ OnceKept(p, q) /\ GateKept(p, q)

\* Two operations one after the other.
LEMMA KeptTwice ==
    ASSUME NEW p, NEW w, NEW q, Kept(p, w), Kept(w, q)
    PROVE  Kept(p, q)
BY DEF Kept, Keeps, Moves, OwnKept, OnceKept, GateKept

\* The sidecar shuts down.
LEMMA ShutdownStep ==
    ASSUME HoldInv, Shutdown
    PROVE  Fine
<1>1. rec' = [r \in Recs |-> IF r \in Registered THEN Torn(rec[r]) ELSE rec[r]]
  BY DEF Shutdown
<1>2. UNCHANGED <<activeThreads, runToThread, controls, gates, wireVars>> /\ shuttingDown' = TRUE
  BY DEF Shutdown
<1>3. \A s \in Recs : s \in Registered => rec[s].loop # "free"
  BY DEF Registered, HoldInv, Known
<1>4. \A s \in Recs : rec'[s] = rec[s] \/ Kept(rec'[s], rec[s])
  <2> SUFFICES ASSUME NEW s \in Recs, s \in Registered
               PROVE  Kept(rec'[s], rec[s])
    BY <1>1
  <2>1. rec[s] \in RecType /\ Shape(rec[s]) /\ Apart(rec[s]) /\ rec[s].loop # "free"
    BY <1>3, RecordIs
  <2>2. rec'[s] = Torn(rec[s])
    BY <1>1
  <2> QED BY <2>1, <2>2, TornFits DEF Kept
<1>5. rec' \in [Recs -> RecType]
  <2>1. \A s \in Recs : rec'[s] \in RecType
    BY <1>4 DEF Kept, Keeps, HoldInv, Shapes
  <2> QED BY <1>1, <2>1
<1>6. OthersTyped'
  BY <1>2 DEF HoldInv, OthersTyped, wireVars
<1>7. OldInv'
  BY <1>4, <1>5, OldStays DEF Kept
<1>8. Names
  <2>1. \A s \in Recs : rec[s].loop # "free" => rec'[s].loop # "free"
    BY <1>4 DEF Kept, Moves
  <2>2. \A t \in Threads : activeThreads[t] # NoRec => activeThreads[t] \in Recs
    BY DEF HoldInv, OthersTyped
  <2> QED BY <1>2, <2>1, <2>2 DEF Names, HoldInv, Known, wireVars
<1>9. HoldInv' /\ Shrinks
  BY <1>2, <1>4, <1>5, <1>6, <1>7, <1>8, RecordsShrink DEF Kept
<1>10. OwnStep /\ OnceStep /\ GateStep
  BY <1>2, <1>4, FitsStep DEF HoldInv, Shapes, Kept
<1>11. Quiet
  BY <1>2, <1>9 DEF Quiet
<1> QED BY <1>9, <1>10, <1>11 DEF Fine, Outcome

\* A run is queued on a record.
LEMMA QueuedStep ==
    ASSUME HoldInv, OthersTyped', NEW r \in Recs, NEW x \in Runs, rec[r].loop # "free",
           rec' = [rec EXCEPT ![r] = Queued(rec[r], x)],
           \A s \in Recs : ~Holds(rec[s], x) /\ <<s, x>> \notin controls',
           controls' \subseteq controls, UNCHANGED <<activeThreads, gates>>,
           sentTo'[x] # NoThread,
           \A y \in Runs : sentTo[y] # NoThread => sentTo'[y] # NoThread
    PROVE  /\ HoldInv' /\ \A y \in Runs : Held(y)' => Held(y) \/ y = x
           /\ OwnStep /\ OnceStep /\ GateStep
<1> DEFINE q == rec[r]
           p == Queued(q, x)
<1>1. q \in RecType /\ Shape(q) /\ Apart(q)
  BY RecordIs
<1>2. /\ p \in RecType /\ Shape(p) /\ Apart(p)
      /\ \A y \in Runs : Holds(p, y) => Holds(q, y) \/ y = x
      /\ Moves(p, q) /\ OwnKept(p, q) /\ OnceKept(p, q) /\ GateKept(p, q)
  BY <1>1, QueuedFits
<1>3. rec' = [rec EXCEPT ![r] = p]
  OBVIOUS
<1> HIDE DEF p
<1>4. /\ rec' \in [Recs -> RecType] /\ rec'[r] = p
      /\ \A s \in Recs : s # r => rec'[s] = rec[s]
  BY <1>2, <1>3 DEF HoldInv, Shapes
<1>5. OldInv'
  BY <1>2, <1>4, OldStays
<1>6. Names
  <2>1. \A s \in Recs : rec[s].loop # "free" => rec'[s].loop # "free"
    BY <1>2, <1>4 DEF Moves
  <2>2. \A t \in Threads : activeThreads[t] # NoRec => activeThreads[t] \in Recs
    BY DEF HoldInv, OthersTyped
  <2> QED BY <2>1, <2>2 DEF Names, HoldInv, Known
<1>7. /\ \A s \in Recs : /\ Shape(rec'[s]) /\ Apart(rec'[s])
                         /\ \A y \in Runs : Holds(rec'[s], y) => Holds(rec[s], y) \/ (s = r /\ y = x)
      /\ \A s \in Recs : s # r => ~Holds(rec'[s], x)
  BY <1>2, <1>4 DEF HoldInv, Shapes
<1>8. HoldInv' /\ \A y \in Runs : Held(y)' => Held(y) \/ y = x
  BY <1>4, <1>5, <1>6, <1>7, RecordsGain
<1>9. OwnStep /\ OnceStep /\ GateStep
  BY <1>2, <1>3, OneFits DEF HoldInv, Shapes
<1> QED BY <1>8, <1>9

\* A run that was never sent is held nowhere.
LEMMA NewRun ==
    ASSUME HoldInv, NEW x \in Runs, NEW t \in Threads, Accept(x, t)
    PROVE  /\ ~Held(x) /\ sentTo[x] = NoThread /\ ~shuttingDown
           /\ \A s \in Recs : ~Holds(rec[s], x) /\ <<s, x>> \notin controls
           /\ sentTo' = [sentTo EXCEPT ![x] = t]
           /\ sentTo' \in [Runs -> Threads \cup {NoThread}] /\ sentTo'[x] # NoThread
           /\ \A y \in Runs : sentTo[y] # NoThread => sentTo'[y] # NoThread
           /\ runToThread' \in [Runs -> Threads \cup {NoThread}]
           /\ UNCHANGED <<terminals, answers, gates, shuttingDown>>
<1>1. /\ sentTo[x] = NoThread /\ ~shuttingDown /\ sentTo' = [sentTo EXCEPT ![x] = t]
      /\ runToThread' = [runToThread EXCEPT ![x] = t]
      /\ UNCHANGED <<terminals, answers, gates, shuttingDown>>
  BY DEF Accept, MayAccept
<1>2. sentTo \in [Runs -> Threads \cup {NoThread}] /\ runToThread \in [Runs -> Threads \cup {NoThread}]
  BY DEF HoldInv, OthersTyped
<1>3. ~Held(x)
  BY <1>1 DEF HoldInv, Known
<1>4. \A s \in Recs : ~Holds(rec[s], x) /\ <<s, x>> \notin controls
  BY <1>3 DEF Held
<1> QED BY <1>1, <1>2, <1>3, <1>4, NamesAssumption

\* A chat goes to the record of its thread.
LEMMA ChatReusingStep ==
    ASSUME HoldInv, NEW x \in Runs, NEW t \in Threads, ChatReusing(x, t)
    PROVE  Fine
<1> DEFINE r == activeThreads[t]
<1>1. /\ ~Held(x) /\ sentTo[x] = NoThread /\ ~shuttingDown
      /\ \A s \in Recs : ~Holds(rec[s], x) /\ <<s, x>> \notin controls
      /\ sentTo' = [sentTo EXCEPT ![x] = t]
      /\ sentTo' \in [Runs -> Threads \cup {NoThread}] /\ sentTo'[x] # NoThread
      /\ \A y \in Runs : sentTo[y] # NoThread => sentTo'[y] # NoThread
      /\ runToThread' \in [Runs -> Threads \cup {NoThread}]
      /\ UNCHANGED <<terminals, answers, gates, shuttingDown>>
  BY NewRun DEF ChatReusing
<1>2. r \in Recs /\ rec[r].loop # "free"
  BY DEF ChatReusing, Reusable, HoldInv, OthersTyped, Known
<1>3. rec' = [rec EXCEPT ![r] = Queued(rec[r], x)] /\ UNCHANGED <<activeThreads, controls>>
  BY DEF ChatReusing
<1> HIDE DEF r
<1>4. OthersTyped'
  BY <1>1, <1>3 DEF HoldInv, OthersTyped
<1>5. /\ HoldInv' /\ \A y \in Runs : Held(y)' => Held(y) \/ y = x
      /\ OwnStep /\ OnceStep /\ GateStep
  BY <1>1, <1>2, <1>3, <1>4, QueuedStep
<1>6. Accepts(x)
  BY <1>1, <1>5 DEF Accepts
<1> QED BY <1>5, <1>6 DEF Fine, Outcome

\* A chat waits for control requests first.
LEMMA ChatChangingControlsStep ==
    ASSUME HoldInv, NEW x \in Runs, NEW t \in Threads, ChatChangingControls(x, t)
    PROVE  Fine
<1> DEFINE r == activeThreads[t]
<1>1. /\ ~Held(x) /\ sentTo[x] = NoThread /\ ~shuttingDown
      /\ \A s \in Recs : ~Holds(rec[s], x) /\ <<s, x>> \notin controls
      /\ sentTo' = [sentTo EXCEPT ![x] = t]
      /\ sentTo' \in [Runs -> Threads \cup {NoThread}] /\ sentTo'[x] # NoThread
      /\ \A y \in Runs : sentTo[y] # NoThread => sentTo'[y] # NoThread
      /\ runToThread' \in [Runs -> Threads \cup {NoThread}]
      /\ UNCHANGED <<terminals, answers, gates, shuttingDown>>
  BY NewRun DEF ChatChangingControls
<1>2. r \in Recs /\ rec[r].loop # "free"
  BY DEF ChatChangingControls, Reusable, HoldInv, OthersTyped, Known
<1>3. controls' = controls \cup {<<r, x>>} /\ UNCHANGED <<activeThreads, rec>>
  BY DEF ChatChangingControls
<1> HIDE DEF r
<1>4. OthersTyped'
  BY <1>1, <1>2, <1>3 DEF HoldInv, OthersTyped
<1>5. \A y \in Runs : Held(y)' => Held(y) \/ y = x
  BY <1>3 DEF Held
<1>6. Unique'
  <2>1. \A s, u \in Recs : \A y \in Runs : Holds(rec'[s], y) /\ Holds(rec'[u], y) => s = u
    BY <1>3 DEF HoldInv, Unique
  <2>2. \A s \in Recs, y \in Runs : <<s, y>> \in controls' =>
          /\ \A u \in Recs : ~Holds(rec'[u], y)
          /\ \A u \in Recs : <<u, y>> \in controls' => u = s
    <3> SUFFICES ASSUME NEW s \in Recs, NEW y \in Runs, <<s, y>> \in controls'
                 PROVE  /\ \A u \in Recs : ~Holds(rec'[u], y)
                        /\ \A u \in Recs : <<u, y>> \in controls' => u = s
      OBVIOUS
    <3>1. \A u \in Recs : <<u, y>> \in controls' <=> <<u, y>> \in controls \/ (u = r /\ y = x)
      BY <1>3
    <3>2. CASE y = x
      BY <1>1, <1>3, <3>1, <3>2
    <3>3. CASE y # x
      BY <1>3, <3>1, <3>3 DEF HoldInv, Unique
    <3> QED BY <3>2, <3>3
  <2> QED BY <2>1, <2>2 DEF Unique
<1>7. Known'
  BY <1>1, <1>2, <1>3, <1>5 DEF HoldInv, Known
<1>8. HoldInv'
  BY <1>3, <1>4, <1>6, <1>7 DEF HoldInv, Shapes, OldInv
<1>9. OwnStep /\ OnceStep /\ GateStep
  BY <1>1, <1>3, FitsStep DEF HoldInv, Shapes
<1>10. Accepts(x)
  BY <1>1, <1>5 DEF Accepts
<1> QED BY <1>8, <1>9, <1>10 DEF Fine, Outcome

\* The control requests are answered, and the run is queued or a record is begun.
LEMMA ControlsAppliedStep ==
    ASSUME HoldInv, NEW r \in Recs, NEW x \in Runs, ControlsApplied(r, x)
    PROVE  Fine
<1>1. /\ <<r, x>> \in controls /\ controls' = controls \ {<<r, x>>}
      /\ UNCHANGED <<activeThreads, gates, shuttingDown>>
  BY DEF ControlsApplied, regVars
<1>2. /\ rec[r].loop # "free" /\ Held(x) /\ sentTo[x] # NoThread
      /\ \A s \in Recs : ~Holds(rec[s], x) /\ <<s, x>> \notin controls'
  <2>1. Held(x)
    BY <1>1 DEF Held
  <2> QED BY <1>1, <2>1 DEF HoldInv, Known, Unique
<1>3. CASE rec[r].dead
  <2>1. Forget(x) /\ EmitError(x) /\ rec' = rec
    BY <1>3 DEF ControlsApplied
  <2>2. OthersTyped' /\ sentTo' = sentTo
    BY <1>1, <2>1, ErrorTyped, ForgetTyped DEF HoldInv, OthersTyped
  <2>3. OldInv'
    BY <2>1 DEF HoldInv, OldInv
  <2>4. Names
    BY <1>1, <2>1, <2>2 DEF Names, HoldInv, Known
  <2>5. HoldInv' /\ Shrinks /\ ~Held(x)'
    BY <1>1, <2>1, <2>2, <2>3, <2>4, RecordsShrink DEF HoldInv, Shapes
  <2>6. OwnStep /\ OnceStep /\ GateStep
    BY <1>1, <2>1, FitsStep DEF HoldInv, Shapes
  <2>7. Fails(x)
    BY <1>1, <1>2, <2>1, <2>5 DEF Fails
  <2> QED BY <2>5, <2>6, <2>7 DEF Fine, Outcome
<1>4. CASE ~rec[r].dead
  <2>1. rec' = [rec EXCEPT ![r] = Queued(rec[r], x)] /\ UNCHANGED <<runToThread, wireVars>>
    BY <1>4 DEF ControlsApplied
  <2>2. OthersTyped'
    BY <1>1, <2>1 DEF HoldInv, OthersTyped, wireVars
  <2>3. /\ HoldInv' /\ \A y \in Runs : Held(y)' => Held(y) \/ y = x
        /\ OwnStep /\ OnceStep /\ GateStep
    BY <1>1, <1>2, <2>1, <2>2, QueuedStep DEF wireVars
  <2>4. Quiet
    BY <1>1, <1>2, <2>1, <2>3 DEF Quiet, Shrinks
  <2> QED BY <2>3, <2>4 DEF Fine, Outcome
<1> QED BY <1>3, <1>4

\* A build is over, one way or the other: the record it was to replace goes on.
LEMMA BuildOver ==
    ASSUME HoldInv, OthersTyped', NEW n \in Recs, rec[n].loop = "build", NEW p,
           Keeps(p, rec[n]), p.loop \notin {"free", "build"},
           OwnKept(p, rec[n]), OnceKept(p, rec[n]), GateKept(p, rec[n]),
           rec' = [r \in Recs |-> IF r = n THEN p
                                  ELSE IF r = rec[n].oldRec THEN Replaced(rec[r]) ELSE rec[r]],
           UNCHANGED <<controls, gates>>, sentTo' = sentTo,
           \A t \in Threads : activeThreads'[t] \in {activeThreads[t], NoRec}
    PROVE  /\ HoldInv' /\ Shrinks /\ OwnStep /\ OnceStep /\ GateStep
           /\ \A x \in Runs : Holds(rec[n], x) /\ ~Holds(p, x) => Held(x) /\ ~Held(x)'
<1> DEFINE o == rec[n].oldRec
<1>1. o \in Recs => o # n /\ rec[o].loop = "rebuild"
  BY DEF HoldInv, OldInv, Recs, NoRec
<1>2. o \in Recs => /\ Keeps(Replaced(rec[o]), rec[o]) /\ Replaced(rec[o]).loop \in {"read", "gone"}
                    /\ OwnKept(Replaced(rec[o]), rec[o]) /\ OnceKept(Replaced(rec[o]), rec[o])
                    /\ GateKept(Replaced(rec[o]), rec[o])
  BY <1>1, RecordIs, ReplacedIs
<1>3. rec'[n] = p
  OBVIOUS
<1>4. \A s \in Recs : s # n => rec'[s] = IF s = o THEN Replaced(rec[s]) ELSE rec[s]
  OBVIOUS
<1>5. \A s \in Recs : \/ rec'[s] = rec[s]
                      \/ /\ Keeps(rec'[s], rec[s]) /\ OwnKept(rec'[s], rec[s])
                         /\ OnceKept(rec'[s], rec[s]) /\ GateKept(rec'[s], rec[s])
                         /\ rec'[s].loop \notin {"free", "build"} /\ (s = n \/ s = o)
  BY <1>2, <1>3, <1>4
<1>6. rec' \in [Recs -> RecType]
  <2>1. \A s \in Recs : rec'[s] \in RecType
    BY <1>5 DEF HoldInv, Shapes, Keeps
  <2> QED BY <2>1
<1>7. OldInv'
  <2> SUFFICES ASSUME NEW m \in Recs, rec'[m].loop = "build", rec'[m].oldRec # NoRec
               PROVE  /\ rec'[rec'[m].oldRec].loop = "rebuild"
                      /\ \A k \in Recs : rec'[k].loop = "build" /\ rec'[k].oldRec = rec'[m].oldRec
                                          => k = m
    BY DEF OldInv
  <2>1. \A k \in Recs : rec'[k].loop = "build" => rec'[k] = rec[k] /\ k # n
    BY <1>3, <1>5
  <2>2. rec[m].oldRec \in Recs
    BY <2>1 DEF HoldInv, Shapes, RecType
  <2>3. rec[rec[m].oldRec].loop = "rebuild" /\ rec[m].oldRec # n /\ rec[m].oldRec # o
    BY <2>1, <2>2 DEF HoldInv, OldInv
  <2>4. rec'[rec[m].oldRec] = rec[rec[m].oldRec]
    BY <1>4, <2>2, <2>3
  <2> QED BY <2>1, <2>3, <2>4 DEF HoldInv, OldInv
<1>8. Names
  <2>1. \A s \in Recs : rec[s].loop # "free" => rec'[s].loop # "free"
    BY <1>5
  <2>2. \A t \in Threads : activeThreads[t] # NoRec => activeThreads[t] \in Recs
    BY DEF HoldInv, OthersTyped
  <2> QED BY <2>1, <2>2 DEF Names, HoldInv, Known
<1>9. /\ HoldInv' /\ Shrinks
      /\ \A r \in Recs, x \in Runs : Holds(rec[r], x) /\ ~Holds(rec'[r], x) => ~Held(x)'
  BY <1>5, <1>6, <1>7, <1>8, RecordsShrink
<1>10. OwnStep /\ OnceStep /\ GateStep
  BY <1>5, FitsStep DEF HoldInv, Shapes
<1>11. \A x \in Runs : Holds(rec[n], x) /\ ~Holds(p, x) => Held(x) /\ ~Held(x)'
  BY <1>3, <1>9 DEF Held
<1> QED BY <1>9, <1>10, <1>11

\* A record is built, and takes over from the one it replaces.
LEMMA BuiltStep ==
    ASSUME HoldInv, NEW n \in Recs, Built(n)
    PROVE  Fine
<1> DEFINE q == rec[n]
           made == [q EXCEPT !.loop = "read", !.forRun = NoRun, !.oldRec = NoRec,
                             !.authRetried = q.oldRec # NoRec]
           p == IF q.dead THEN PullTurn(made)
                ELSE PullTurn([made EXCEPT !.turnQueue = Append(@, q.forRun)])
<1>1. q \in RecType /\ Shape(q) /\ Apart(q) /\ q.loop = "build"
  BY RecordIs DEF Built
<1>2. rec' = [r \in Recs |-> IF r = n THEN p
                             ELSE IF r = q.oldRec THEN Replaced(rec[r]) ELSE rec[r]]
  BY DEF Built
<1>3. UNCHANGED <<activeThreads, controls, gates, shuttingDown>>
  BY DEF Built, regVars
<1>4. PICK x \in Runs : x = q.forRun
  BY <1>1 DEF Shape
<1>5. \/ q.dead /\ Forget(x) /\ EmitError(x)
      \/ ~q.dead /\ runToThread' = [runToThread EXCEPT ![x] = q.thread] /\ UNCHANGED wireVars
  BY <1>4 DEF Built
<1> HIDE DEF q
<1>6. /\ Keeps(p, q) /\ p.loop = "read" /\ OwnKept(p, q) /\ OnceKept(p, q) /\ GateKept(p, q)
      /\ q.dead => ~Holds(p, x)
  BY <1>1, <1>4, BuiltIs
<1> HIDE DEF p
<1>7. OthersTyped' /\ sentTo' = sentTo
  <2>1. q.thread \in Threads \cup {NoThread}
    BY <1>1 DEF RecType
  <2>2. CASE q.dead
    BY <1>3, <1>5, <2>2, ErrorTyped, ForgetTyped DEF HoldInv, OthersTyped
  <2>3. CASE ~q.dead
    BY <1>3, <1>5, <2>1, <2>3 DEF HoldInv, OthersTyped, wireVars
  <2> QED BY <2>2, <2>3
<1>8. /\ HoldInv' /\ Shrinks /\ OwnStep /\ OnceStep /\ GateStep
      /\ \A y \in Runs : Holds(q, y) /\ ~Holds(p, y) => Held(y) /\ ~Held(y)'
  BY <1>1, <1>2, <1>3, <1>6, <1>7, BuildOver DEF q
<1>9. CASE q.dead
  <2>1. Holds(q, x)
    BY <1>1, <1>4 DEF Holds, Has
  <2>2. Fails(x)
    BY <1>3, <1>5, <1>6, <1>8, <1>9, <2>1 DEF Fails
  <2> QED BY <1>8, <2>2 DEF Fine, Outcome
<1>10. CASE ~q.dead
  <2>1. Quiet
    BY <1>3, <1>5, <1>8, <1>10 DEF Quiet
  <2> QED BY <1>8, <2>1 DEF Fine, Outcome
<1> QED BY <1>9, <1>10

\* A record cannot be built.
LEMMA BuildFailsStep ==
    ASSUME HoldInv, NEW n \in Recs, BuildFails(n)
    PROVE  Fine
<1> DEFINE q == rec[n]
           p == [q EXCEPT !.loop = "stuck"]
<1>1. q \in RecType /\ Shape(q) /\ Apart(q) /\ q.loop = "build"
  BY RecordIs DEF BuildFails
<1>2. rec' = [r \in Recs |-> IF r = n THEN p
                             ELSE IF r = q.oldRec THEN Replaced(rec[r]) ELSE rec[r]]
  BY DEF BuildFails
<1>3. UNCHANGED <<controls, gates, shuttingDown>>
  BY DEF BuildFails, sideVars
<1>4. PICK x \in Runs : x = q.forRun
  BY <1>1 DEF Shape
<1>5. Forget(x) /\ EmitError(x)
  BY <1>4 DEF BuildFails
<1>6. /\ activeThreads' \in [Threads -> Recs \cup {NoRec}]
      /\ \A t \in Threads : activeThreads'[t] \in {activeThreads[t], NoRec}
  BY DEF BuildFails, HoldInv, OthersTyped
<1> HIDE DEF q
<1>7. /\ Keeps(p, q) /\ OwnKept(p, q) /\ OnceKept(p, q) /\ GateKept(p, q) /\ ~Holds(p, x)
  BY <1>1, <1>4, StuckIs DEF GateKept
<1>8. p.loop = "stuck"
  BY <1>1 DEF RecType
<1> HIDE DEF p
<1>9. OthersTyped' /\ sentTo' = sentTo
  BY <1>3, <1>5, <1>6, ErrorTyped, ForgetTyped DEF HoldInv, OthersTyped
<1>10. /\ HoldInv' /\ Shrinks /\ OwnStep /\ OnceStep /\ GateStep
       /\ \A y \in Runs : Holds(q, y) /\ ~Holds(p, y) => Held(y) /\ ~Held(y)'
  BY <1>1, <1>2, <1>3, <1>6, <1>7, <1>8, <1>9, BuildOver DEF q
<1>11. Holds(q, x)
  BY <1>1, <1>4 DEF Holds, Has
<1>12. Fails(x)
  BY <1>3, <1>5, <1>7, <1>10, <1>11 DEF Fails
<1> QED BY <1>10, <1>12 DEF Fine, Outcome

\* A new record begins, for a run that no other record holds any more.
LEMMA EnsureStep ==
    ASSUME HoldInv, OthersTyped', NEW recs \in [Recs -> RecType],
           \A s \in Recs : recs[s] = rec[s] \/ Kept(recs[s], rec[s]),
           NEW t \in Threads \cup {NoThread}, NEW policy \in AllPolicies, NEW x \in Runs,
           NEW old \in Recs \cup {NoRec},
           EnsureThread(recs, t, policy, x, old),
           \A s \in Recs : ~Holds(recs[s], x) /\ <<s, x>> \notin controls,
           UNCHANGED <<controls, gates>>, sentTo'[x] # NoThread,
           \A y \in Runs : sentTo[y] # NoThread => sentTo'[y] # NoThread,
           old # NoRec => recs[old].loop = "rebuild" /\ rec[old].loop = "token"
    PROVE  /\ HoldInv' /\ \A y \in Runs : Held(y)' => Held(y) \/ y = x
           /\ OwnStep /\ OnceStep /\ GateStep
<1> DEFINE p == [Blank EXCEPT !.thread = t, !.policy = policy,
                              !.loop = "build", !.forRun = x, !.oldRec = old]
<1>1. PICK n \in Recs, kept \in Evictions(recs) :
        /\ rec[n].loop = "free" /\ rec' = [kept EXCEPT ![n] = p]
        /\ activeThreads' = [activeThreads EXCEPT ![t] = n]
  BY DEF EnsureThread, IsNext
<1>2. /\ p \in RecType /\ Shape(p) /\ Apart(p) /\ p.loop = "build" /\ p.oldRec = old
      /\ \A y \in Runs : Holds(p, y) => y = x
      /\ Own(p) /\ Once(p) /\ GateFine(p, {})
  BY NewIs
<1> HIDE DEF p
<1>3. \A s \in Recs : recs[s] \in RecType /\ Shape(recs[s]) /\ Apart(recs[s])
  BY DEF Kept, Keeps, HoldInv, Shapes
<1>4. \A s \in Recs : \/ kept[s] = recs[s]
                      \/ Kept(kept[s], recs[s]) /\ rec[s].loop # "free"
  <2>1. CASE kept = recs
    BY <2>1
  <2>2. CASE kept # recs
    <3>1. PICK e \in Registered : kept = [recs EXCEPT ![e] = Torn(recs[e])]
      BY <1>1, <2>2 DEF Evictions
    <3>2. e \in Recs /\ rec[e].loop # "free"
      BY DEF Registered, HoldInv, OthersTyped, Known
    <3>3. recs[e].loop # "free"
      BY <3>2 DEF Kept, Moves
    <3>4. Kept(Torn(recs[e]), recs[e])
      BY <1>3, <3>2, <3>3, TornFits DEF Kept
    <3>5. kept[e] = Torn(recs[e]) /\ \A s \in Recs : s # e => kept[s] = recs[s]
      BY <3>1, <3>2
    <3> QED BY <3>2, <3>4, <3>5
  <2> QED BY <2>1, <2>2
<1>5. kept \in [Recs -> RecType]
  <2>1. \A s \in Recs : kept[s] \in RecType
    BY <1>3, <1>4 DEF Kept, Keeps
  <2>2. kept = [s \in Recs |-> kept[s]]
    BY <1>1 DEF Evictions
  <2> QED BY <2>1, <2>2
<1>6. \A s \in Recs : kept[s] = rec[s] \/ Kept(kept[s], rec[s])
  BY <1>4, KeptTwice
<1>7. /\ rec' \in [Recs -> RecType] /\ rec'[n] = p
      /\ \A s \in Recs : s # n => rec'[s] = rec[s] \/ Kept(rec'[s], rec[s])
      /\ \A s \in Recs : s # n => rec'[s] = kept[s]
  BY <1>1, <1>2, <1>5, <1>6
<1>8. \A s \in Recs : s # n => ~Holds(rec'[s], x)
  BY <1>4, <1>7 DEF Kept, Keeps
<1>9. \A s \in Recs : /\ Shape(rec'[s]) /\ Apart(rec'[s])
                      /\ \A y \in Runs : Holds(rec'[s], y) => Holds(rec[s], y) \/ (s = n /\ y = x)
  BY <1>2, <1>7 DEF Kept, Keeps, HoldInv, Shapes
<1>10. OldInv'
  <2> SUFFICES ASSUME NEW m \in Recs, rec'[m].loop = "build", rec'[m].oldRec # NoRec
               PROVE  /\ rec'[rec'[m].oldRec].loop = "rebuild"
                      /\ \A k \in Recs : rec'[k].loop = "build" /\ rec'[k].oldRec = rec'[m].oldRec
                                          => k = m
    BY DEF OldInv
  <2>1. \A k \in Recs : rec'[k].loop = "build" /\ k # n =>
                           rec[k].loop = "build" /\ rec'[k].oldRec = rec[k].oldRec
    BY <1>7 DEF Kept, Moves
  <2>2. \A k \in Recs : rec[k].oldRec \in Recs \cup {NoRec}
    BY DEF HoldInv, Shapes, RecType
  <2>3. \A k \in Recs : rec[k].loop = "rebuild" => k # n /\ rec'[k].loop = "rebuild"
    BY <1>1, <1>7 DEF Kept, Moves
  <2>4. \A k \in Recs : k # n /\ rec'[k].loop = "build" /\ rec'[k].oldRec # NoRec => rec'[k].oldRec # old
    BY <2>1, <2>2 DEF HoldInv, OldInv
  <2>5. CASE m = n
    <3>1. old \in Recs /\ old # n /\ recs[old].loop = "rebuild"
      BY <1>1, <1>2, <1>7, <2>5
    <3>2. kept[old].loop = "rebuild"
      BY <1>4, <3>1 DEF Kept, Moves
    <3> QED BY <1>2, <1>7, <2>4, <2>5, <3>1, <3>2
  <2>6. CASE m # n
    <3>1. rec'[m].oldRec = rec[m].oldRec /\ rec[m].loop = "build" /\ rec[m].oldRec \in Recs
      BY <2>1, <2>2, <2>6
    <3>2. rec'[rec[m].oldRec].loop = "rebuild"
      BY <2>3, <3>1 DEF HoldInv, OldInv
    <3>3. \A k \in Recs : rec'[k].loop = "build" /\ rec'[k].oldRec = rec'[m].oldRec => k # n
      BY <1>2, <1>7, <2>4, <2>6
    <3> QED BY <2>1, <3>1, <3>2, <3>3 DEF HoldInv, OldInv
  <2> QED BY <2>5, <2>6
<1>11. Names
  <2>1. \A s \in Recs : rec[s].loop # "free" => rec'[s].loop # "free"
    BY <1>1, <1>7 DEF Kept, Moves
  <2>2. \A u \in Threads : activeThreads'[u] = n \/ activeThreads'[u] = activeThreads[u]
    BY <1>1 DEF HoldInv, OthersTyped
  <2>3. \A u \in Threads : activeThreads[u] # NoRec => activeThreads[u] \in Recs
    BY DEF HoldInv, OthersTyped
  <2>4. rec'[n].loop # "free"
    BY <1>2, <1>7
  <2> QED BY <2>1, <2>2, <2>3, <2>4 DEF Names, HoldInv, Known
<1>12. HoldInv' /\ \A y \in Runs : Held(y)' => Held(y) \/ y = x
  BY <1>7, <1>8, <1>9, <1>10, <1>11, RecordsGain
<1>13. OwnStep /\ OnceStep
  BY <1>2, <1>7 DEF OwnStep, OnceStep, Kept, OwnKept, OnceKept
<1>14. GateStep
  <2>1. \A s \in Recs : GatesOf(s)' = GatesOf(s) /\ GatesOf(s) \in SUBSET Runs
    BY DEF GatesOf
  <2>2. GateFine(rec[n], GatesOf(n)) => GatesOf(n) = {}
    BY <1>1 DEF GateFine
  <2> QED BY <1>2, <1>7, <2>1, <2>2 DEF GateStep, Kept, GateKept
<1> QED BY <1>12, <1>13, <1>14

\* A chat begins a record.
LEMMA ChatStartingStep ==
    ASSUME HoldInv, NEW x \in Runs, NEW t \in Threads, ChatStarting(x, t)
    PROVE  Fine
<1>1. /\ ~Held(x) /\ sentTo[x] = NoThread /\ ~shuttingDown
      /\ \A s \in Recs : ~Holds(rec[s], x) /\ <<s, x>> \notin controls
      /\ sentTo' = [sentTo EXCEPT ![x] = t]
      /\ sentTo' \in [Runs -> Threads \cup {NoThread}] /\ sentTo'[x] # NoThread
      /\ \A y \in Runs : sentTo[y] # NoThread => sentTo'[y] # NoThread
      /\ runToThread' \in [Runs -> Threads \cup {NoThread}]
      /\ UNCHANGED <<terminals, answers, gates, shuttingDown>>
  BY NewRun DEF ChatStarting
<1>2. PICK policy \in Policies : EnsureThread(rec, t, policy, x, NoRec)
  BY DEF ChatStarting
<1>3. policy \in AllPolicies
  BY EngineAssumption
<1>4. UNCHANGED controls
  BY DEF ChatStarting
<1>5. activeThreads' \in [Threads -> Recs \cup {NoRec}]
  BY <1>2 DEF EnsureThread, HoldInv, OthersTyped
<1>6. OthersTyped'
  BY <1>1, <1>4, <1>5 DEF HoldInv, OthersTyped
<1>7. rec \in [Recs -> RecType]
  BY DEF HoldInv, Shapes
<1>8. /\ HoldInv' /\ \A y \in Runs : Held(y)' => Held(y) \/ y = x
      /\ OwnStep /\ OnceStep /\ GateStep
  BY <1>1, <1>2, <1>3, <1>4, <1>6, <1>7, EnsureStep
<1>9. Accepts(x)
  BY <1>1, <1>8 DEF Accepts
<1> QED BY <1>8, <1>9 DEF Fine, Outcome

\* The fresh token is there, and the record is replaced.
LEMMA TokenArrivesStep ==
    ASSUME HoldInv, NEW r \in Recs, TokenArrives(r)
    PROVE  Fine
<1> DEFINE q == rec[r]
           p == [Torn(q) EXCEPT !.loop = "rebuild"]
           recs == [rec EXCEPT ![r] = p]
<1>1. q \in RecType /\ Shape(q) /\ Apart(q) /\ q.loop = "token"
  BY RecordIs DEF TokenArrives
<1>2. PICK x \in Runs : x = q.got
  BY <1>1 DEF Shape
<1>3. EnsureThread(recs, q.thread, q.policy, x, r)
  BY <1>2 DEF TokenArrives
<1>4. UNCHANGED <<runToThread, controls, gates, shuttingDown, wireVars>>
  BY DEF TokenArrives, sideVars
<1> HIDE DEF q
<1>5. /\ Keeps(p, q) /\ Moves(p, q) /\ OwnKept(p, q) /\ OnceKept(p, q) /\ GateKept(p, q)
      /\ p.loop = "rebuild" /\ ~Holds(p, x)
  BY <1>1, <1>2, RebuildIs
<1> HIDE DEF p
<1>6. /\ recs \in [Recs -> RecType] /\ recs[r] = p
      /\ \A s \in Recs : s # r => recs[s] = rec[s]
  BY <1>5 DEF HoldInv, Shapes, Keeps
<1>7. Holds(q, x) /\ Held(x)
  BY <1>1, <1>2 DEF Holds, Has, Held, q
<1>8. sentTo[x] # NoThread /\ \A s \in Recs : ~Holds(recs[s], x) /\ <<s, x>> \notin controls
  BY <1>5, <1>6, <1>7 DEF HoldInv, Known, Unique, q
<1>9. q.thread \in Threads \cup {NoThread} /\ q.policy \in AllPolicies
  BY <1>1 DEF RecType
<1>10. activeThreads' \in [Threads -> Recs \cup {NoRec}]
  BY <1>3 DEF EnsureThread, HoldInv, OthersTyped
<1>11. OthersTyped'
  BY <1>4, <1>10 DEF HoldInv, OthersTyped, wireVars
<1>12. \A s \in Recs : recs[s] = rec[s] \/ Kept(recs[s], rec[s])
  BY <1>5, <1>6 DEF Kept, q
<1>13. recs[r].loop = "rebuild" /\ rec[r].loop = "token"
  BY <1>1, <1>5, <1>6 DEF q
<1> HIDE DEF recs
<1>14. /\ HoldInv' /\ \A y \in Runs : Held(y)' => Held(y) \/ y = x
       /\ OwnStep /\ OnceStep /\ GateStep
  BY <1>3, <1>4, <1>6, <1>8, <1>9, <1>11, <1>12, <1>13, EnsureStep DEF wireVars
<1>15. Quiet
  BY <1>4, <1>7, <1>14 DEF Quiet, Shrinks
<1> QED BY <1>14, <1>15 DEF Fine, Outcome

-----------------------------------------------------------------------------
(* The invariants, and the theorems *)

\* Every step is fine.
LEMMA NextStep ==
    ASSUME HoldInv, Next
    PROVE  Fine
<1>1. CASE UserStep
  <2>1. \A x \in Runs, t \in Threads :
          ChatChangingControls(x, t) \/ ChatReusing(x, t) \/ ChatStarting(x, t) => Fine
    BY ChatChangingControlsStep, ChatReusingStep, ChatStartingStep
  <2>2. \A x \in Runs : Cancel(x) => Fine
    BY CancelStep
  <2>3. \A t \in Threads : CloseThread(t) => Fine
    BY CloseThreadStep
  <2>4. Shutdown => Fine
    BY ShutdownStep
  <2> QED BY <1>1, <2>1, <2>2, <2>3, <2>4 DEF UserStep
<1>2. ASSUME NEW r \in Recs, RecStep(r) PROVE Fine
  <2>1. Continues(r) => Fine
    <3>1. Built(r) \/ Settle(r) => Fine
      BY BuiltStep, SettleStep
    <3>2. TokenArrives(r) \/ TokenTimeout(r) \/ LoopEnds(r) \/ IdleTimeout(r) => Fine
      BY TokenArrivesStep, TokenTimeoutStep, LoopEndsStep, IdleTimeoutStep
    <3>3. \A x \in Runs : Decide(r, x) => Fine
      BY DecideStep
    <3> QED BY <3>1, <3>2, <3>3 DEF Continues
  <2>2. Backstop(r) \/ ReaperFires(r) \/ TaskEvent(r) \/ RateLimited(r) \/ GateOpens(r) => Fine
    BY BackstopStep, ReaperStep, TaskEventStep, RateLimitedStep, GateOpensStep
  <2>3. \A kind \in {"ok", "error", "auth"} : Result(r, kind) => Fine
    BY ResultStep
  <2>4. BackgroundResult(r) \/ StreamAuth(r) => Fine
    BY BackgroundResultStep, StreamAuthStep
  <2>5. BuildFails(r) \/ LoopEnds(r) => Fine
    BY BuildFailsStep, LoopEndsStep
  <2>6. \A x \in Runs : ControlsApplied(r, x) => Fine
    BY ControlsAppliedStep
  <2> QED BY <1>2, <2>1, <2>2, <2>3, <2>4, <2>5, <2>6 DEF RecStep
<1> QED BY <1>1, <1>2 DEF Next

\* At the start nobody is held.
LEMMA HoldInit == Init => HoldInv
<1> SUFFICES ASSUME Init PROVE HoldInv
  OBVIOUS
<1>1. /\ Blank \in RecType /\ Blank.turnQueue = <<>> /\ Blank.gen = "none" /\ ~Blank.dead
      /\ ~Blank.turnActive /\ Blank.loop = "free" /\ Blank.oldRec = NoRec
  BY BlankIs DEF Blank
<1>2. \A r \in Recs : rec[r] = Blank
  BY DEF Init
<1>3. Shape(Blank) /\ Apart(Blank) /\ \A x \in Runs : ~Holds(Blank, x)
  BY <1>1 DEF Shape, Apart, Holds, Waiting, Has, Current
<1>4. Shapes
  BY <1>1, <1>3 DEF Init, Shapes
<1>5. OthersTyped
  <2>1. <<>> \in Seq(Runs \cup {NoRun})
    OBVIOUS
  <2> QED BY <2>1 DEF Init, OthersTyped, NoRec
<1>6. \A x \in Runs : ~Held(x)
  BY <1>2, <1>3 DEF Held, Init
<1>7. Known
  BY <1>6 DEF Known, Init
<1>8. OldInv /\ Unique
  BY <1>1, <1>2, <1>3 DEF OldInv, Unique, Init
<1> QED BY <1>4, <1>5, <1>7, <1>8 DEF HoldInv

\* A step that changes nothing.
LEMMA HoldStutter ==
    ASSUME HoldInv, UNCHANGED vars
    PROVE  HoldInv' /\ \A x \in Runs : Held(x)' <=> Held(x)
<1>1. /\ rec' = rec /\ controls' = controls /\ gates' = gates /\ activeThreads' = activeThreads
      /\ runToThread' = runToThread /\ shuttingDown' = shuttingDown
      /\ sentTo' = sentTo /\ terminals' = terminals /\ answers' = answers
  BY DEF vars, wireVars
<1>2. \A x \in Runs : Held(x)' <=> Held(x)
  BY <1>1 DEF Held
<1>3. Known'
  BY <1>1, <1>2 DEF HoldInv, Known
<1>4. OthersTyped' /\ Shapes' /\ OldInv' /\ Unique'
  BY <1>1 DEF HoldInv, OthersTyped, Shapes, OldInv, Unique
<1> QED BY <1>2, <1>3, <1>4 DEF HoldInv

\* A run that has not been reported is in one place: in the queue of one record, at work
\* in it, with a record being built or replaced, or waiting for control requests, through
\* handovers between records, cancels, timeouts, crashes and restarts for a token.
THEOREM RunsHaveOnePlace == Spec => []HoldInv
<1>1. Init => HoldInv
  BY HoldInit
<1>2. HoldInv /\ [Next]_vars => HoldInv'
  BY NextStep, HoldStutter DEF Fine
<1> QED BY <1>1, <1>2, PTL DEF Spec

\* Every step keeps AnswerInv, without background results.
LEMMA AnswerStep ==
    ASSUME "background" \notin Faults, HoldInv, AnswerInv, Fine
    PROVE  AnswerInv'
<1>1. \A r \in Recs : Own(rec'[r])
  BY DEF Fine, OwnStep, AnswerInv
<1>2. /\ \A x \in Runs : sentTo[x] = NoThread \/ Held(x) => answers[x] = <<>>
      /\ \A x \in Runs : answers[x] \in {<<>>, <<x>>}
  BY DEF AnswerInv, OwnAnswers
<1>3. answers \in [Runs -> Seq(Runs \cup {NoRun})] /\ sentTo \in [Runs -> Threads \cup {NoThread}]
  BY DEF HoldInv, OthersTyped
<1>4. /\ \A x \in Runs : sentTo'[x] = NoThread \/ Held(x)' => answers'[x] = <<>>
      /\ \A x \in Runs : answers'[x] \in {<<>>, <<x>>}
  <2>1. CASE Quiet
    BY <1>2, <2>1 DEF Quiet, Shrinks, wireVars
  <2>2. ASSUME NEW y \in Runs, Fails(y) PROVE <1>4!:
    BY <1>2, <2>2 DEF Fails, Shrinks, EmitError
  <2>3. ASSUME NEW y \in Runs, Accepts(y) PROVE <1>4!:
    <3>1. answers' = answers /\ answers[y] = <<>>
      BY <1>2, <2>3 DEF Accepts
    <3>2. \A x \in Runs : x # y => sentTo'[x] = sentTo[x] /\ (Held(x)' => Held(x))
      BY <1>3, <2>3 DEF Accepts
    <3> QED BY <1>2, <3>1, <3>2
  <2>4. ASSUME NEW r \in Recs, NEW y \in Runs, Answers(r, y) PROVE <1>4!:
    <3>1. rec[r].got = y
      BY <2>4 DEF Answers, AnswerInv, Own
    <3>2. answers[y] = <<>> /\ Append(<<>>, y) = <<y>>
      BY <1>2, <2>4 DEF Answers
    <3>3. sentTo' = sentTo /\ answers' = [answers EXCEPT ![y] = <<y>>]
      BY <2>4, <3>1, <3>2 DEF Answers, EmitDone
    <3>4. sentTo[y] # NoThread /\ ~Held(y)' /\ \A x \in Runs : Held(x)' => Held(x)
      BY <2>4 DEF Answers, Shrinks, HoldInv, Known
    <3> QED BY <1>2, <1>3, <3>3, <3>4
  <2> QED BY <2>1, <2>2, <2>3, <2>4 DEF Fine, Outcome
<1> QED BY <1>1, <1>4 DEF AnswerInv, OwnAnswers

\* The SDK answers the messages of a query in their order, and the engine hands it
\* the next one only when the turn of the last is over.  Where no work goes on in
\* the background between two turns, a result is that of the turn it settles: the
\* chat/done of a run answers its own message.
THEOREM AnswersAreOwn ==
    ASSUME "background" \notin Faults
    PROVE  Spec => []OwnAnswers
<1>1. Init => HoldInv /\ AnswerInv
  <2> SUFFICES ASSUME Init PROVE HoldInv /\ AnswerInv
    OBVIOUS
  <2>1. \A r \in Recs : Own(rec[r])
    <3>1. Own(Blank)
      BY DEF Own, Blank
    <3> QED BY <3>1 DEF Init
  <2>2. \A x \in Runs : answers[x] = <<>>
    BY DEF Init
  <2> QED BY <2>1, <2>2, HoldInit DEF AnswerInv, OwnAnswers
<1>2. HoldInv /\ AnswerInv /\ [Next]_vars => (HoldInv /\ AnswerInv)'
  <2> SUFFICES ASSUME HoldInv, AnswerInv, [Next]_vars
               PROVE  (HoldInv /\ AnswerInv)'
    OBVIOUS
  <2>1. CASE Next
    BY <2>1, NextStep, AnswerStep DEF Fine
  <2>2. CASE UNCHANGED vars
    <3>1. HoldInv' /\ \A x \in Runs : Held(x)' <=> Held(x)
      BY <2>2, HoldStutter
    <3>2. rec' = rec /\ sentTo' = sentTo /\ answers' = answers
      BY <2>2 DEF vars, wireVars
    <3> QED BY <3>1, <3>2 DEF AnswerInv, OwnAnswers
  <2> QED BY <2>1, <2>2
<1>3. AnswerInv => OwnAnswers
  BY DEF AnswerInv
<1> QED BY <1>1, <1>2, <1>3, PTL DEF Spec

\* What a step says of the runs: nothing, the end of an open one, or that a new one is
\* accepted.
Says ==
    \/ /\ sentTo' = sentTo /\ runStatus' = runStatus
       /\ shuttingDown' \in {shuttingDown, TRUE}
    \/ /\ sentTo' = sentTo /\ UNCHANGED shuttingDown
       /\ \E y \in Runs : /\ runStatus[y] = "open"
                          /\ runStatus' = [runStatus EXCEPT ![y] = "ended"]
    \/ /\ ~shuttingDown /\ UNCHANGED shuttingDown
       /\ \E y \in Runs : /\ runStatus[y] = "new"
                          /\ runStatus' = [runStatus EXCEPT ![y] = "open"]
                          /\ \A x \in Runs : x # y => sentTo'[x] = sentTo[x]

\* Every step keeps OnceInv and says what the ledger may say, without the two faults.
LEMMA OnceNext ==
    ASSUME "throwAuth" \notin Faults, "limit" \notin Faults, HoldInv, OnceInv, Fine
    PROVE  OnceInv' /\ Says
<1>1. \A r \in Recs : Once(rec[r]) /\ Once(rec'[r])
  BY DEF Fine, OnceStep, OnceInv
<1>2. \A x \in Runs : /\ sentTo[x] = NoThread \/ Held(x) => terminals[x] = 0
                      /\ terminals[x] \in {0, 1}
  BY DEF OnceInv
<1>3. terminals \in [Runs -> Nat] /\ sentTo \in [Runs -> Threads \cup {NoThread}]
  BY DEF HoldInv, OthersTyped
<1>4. CASE Quiet
  <2>1. OnceInv'
    BY <1>1, <1>2, <1>4 DEF Quiet, Shrinks, wireVars, OnceInv
  <2>2. runStatus' = runStatus /\ shuttingDown' \in {shuttingDown, TRUE}
    BY <1>4 DEF Quiet, wireVars, runStatus
  <2> QED BY <2>1, <2>2, <1>4 DEF Says, Quiet, wireVars
<1>5. ASSUME NEW y \in Runs, EmitError(y) \/ (\E w : EmitDone(y, w)), Shrinks,
             UNCHANGED shuttingDown, Held(y), ~Held(y)'
      PROVE  OnceInv' /\ Says
  <2>1. sentTo' = sentTo /\ terminals' = [terminals EXCEPT ![y] = terminals[y] + 1]
    BY <1>5 DEF EmitError, EmitDone
  <2>2. terminals[y] = 0 /\ sentTo[y] # NoThread
    BY <1>2, <1>5 DEF HoldInv, Known
  <2>3. terminals'[y] = 1 /\ \A x \in Runs : x # y => terminals'[x] = terminals[x]
    BY <1>3, <2>1, <2>2
  <2>4. OnceInv'
    BY <1>1, <1>2, <1>5, <2>1, <2>2, <2>3 DEF Shrinks, OnceInv
  <2>5. runStatus[y] = "open" /\ runStatus' = [runStatus EXCEPT ![y] = "ended"]
    <3>1. runStatus[y] = "open" /\ runStatus'[y] = "ended"
      BY <2>1, <2>2, <2>3 DEF runStatus
    <3>2. \A x \in Runs : x # y => runStatus'[x] = runStatus[x]
      BY <2>1, <2>3 DEF runStatus
    <3>3. /\ DOMAIN runStatus = Runs /\ runStatus = [x \in Runs |-> runStatus[x]]
          /\ DOMAIN runStatus' = Runs /\ runStatus' = [x \in Runs |-> runStatus'[x]]
      BY DEF runStatus
    <3> QED BY <3>1, <3>2, <3>3
  <2> QED BY <1>5, <2>1, <2>4, <2>5 DEF Says
<1>6. ASSUME NEW y \in Runs, Accepts(y)
      PROVE  OnceInv' /\ Says
  <2>1. PICK t \in Threads : sentTo' = [sentTo EXCEPT ![y] = t]
    BY <1>6 DEF Accepts
  <2>2. /\ sentTo[y] = NoThread /\ ~shuttingDown /\ terminals' = terminals
        /\ UNCHANGED shuttingDown /\ \A x \in Runs : Held(x)' => Held(x) \/ x = y
    BY <1>6 DEF Accepts
  <2>3. /\ sentTo'[y] # NoThread /\ terminals[y] = 0
        /\ \A x \in Runs : x # y => sentTo'[x] = sentTo[x]
    BY <1>2, <1>3, <2>1, <2>2, NamesAssumption
  <2>4. OnceInv'
    BY <1>1, <1>2, <2>2, <2>3 DEF OnceInv
  <2>5. runStatus[y] = "new" /\ runStatus' = [runStatus EXCEPT ![y] = "open"]
    BY <2>2, <2>3 DEF runStatus
  <2> QED BY <2>2, <2>3, <2>4, <2>5 DEF Says
<1>7. ASSUME NEW y \in Runs, Fails(y)
      PROVE  OnceInv' /\ Says
  BY <1>1, <1>5, <1>7 DEF Fails
<1>8. ASSUME NEW r \in Recs, NEW y \in Runs, Answers(r, y)
      PROVE  OnceInv' /\ Says
  BY <1>5, <1>8 DEF Answers
<1> QED BY <1>4, <1>6, <1>7, <1>8 DEF Fine, Outcome

\* The watchdog spares exactly the turns that wait for the user, unless a quota
\* rejection has been reported in the middle of a turn.
THEOREM GatesAreCounted ==
    ASSUME "limit" \notin Faults
    PROVE  Spec => []GatesCounted
<1>1. Init => HoldInv /\ GateInv
  <2> SUFFICES ASSUME Init PROVE HoldInv /\ GateInv
    OBVIOUS
  <2>1. GateFine(Blank, {})
    BY DEF GateFine, Blank
  <2>2. \A r \in Recs : GatesOf(r) = {} /\ rec[r] = Blank
    BY DEF Init, GatesOf
  <2> QED BY <2>1, <2>2, HoldInit DEF GateInv
<1>2. HoldInv /\ GateInv /\ [Next]_vars => (HoldInv /\ GateInv)'
  <2> SUFFICES ASSUME HoldInv, GateInv, [Next]_vars
               PROVE  (HoldInv /\ GateInv)'
    OBVIOUS
  <2>1. CASE Next
    BY <2>1, NextStep DEF Fine, GateStep, GateInv
  <2>2. CASE UNCHANGED vars
    BY <2>2, HoldStutter DEF vars, GateInv, GatesOf
  <2> QED BY <2>1, <2>2
<1>3. HoldInv /\ GateInv => GatesCounted
  <2> SUFFICES ASSUME HoldInv, GateInv, NEW r \in Recs,
                      rec[r].loop = "read", rec[r].turnActive, ~rec[r].dead
               PROVE  rec[r].awaitingDecision =
                         Cardinality({g \in gates : g = <<r, rec[r].currentRunId>>})
    BY DEF GatesCounted
  <2> DEFINE G == {g \in gates : g = <<r, rec[r].currentRunId>>}
  <2>1. rec[r].awaitingDecision = IF rec[r].currentRunId \in GatesOf(r) THEN 1 ELSE 0
    BY DEF GateInv, GateFine
  <2>2. rec[r].currentRunId \in Runs
    BY DEF HoldInv, Shapes, Shape
  <2>3. CASE rec[r].currentRunId \in GatesOf(r)
    <3>1. G = {<<r, rec[r].currentRunId>>}
      BY <2>3 DEF GatesOf
    <3>2. Cardinality(G) = 1
      BY <3>1, FS_Singleton
    <3> QED BY <2>1, <2>3, <3>2
  <2>4. CASE rec[r].currentRunId \notin GatesOf(r)
    <3>1. G = {}
      BY <2>2, <2>4 DEF GatesOf
    <3>2. Cardinality(G) = 0
      BY <3>1, FS_EmptySet
    <3> QED BY <2>1, <2>4, <3>2
  <2> QED BY <2>3, <2>4
<1> QED BY <1>1, <1>2, <1>3, PTL DEF Spec

-----------------------------------------------------------------------------
(* The registries: what a run, a record and a slot have to do with one another *)

\* A record that will still take, or report, a run.
Live(q) ==
    /\ q.loop \in {"build", "read", "usage", "token"}
    /\ ~q.dead \/ \E x \in Runs : Holds(q, x)

\* x is the run of a turn that q is done with, and has not forgotten.
Left(q, x) == q.loop \in {"read", "usage"} /\ q.currentRunId = x /\ ~Current(q, x)

\* Who may report a run is a record of the thread it was sent to.
InThread ==
    \A r \in Recs, x \in Runs :
        Holds(rec[r], x) \/ <<r, x>> \in controls => sentTo[x] = rec[r].thread

\* A thread has one run at a time.
OneOpen == \A x, y \in Runs : Held(x) /\ Held(y) /\ sentTo[x] = sentTo[y] => x = y

\* A slot holds a record of its thread whose loop is not over.
Slots ==
    \A t \in Threads : activeThreads[t] # NoRec =>
        /\ rec[activeThreads[t]].thread = t
        /\ rec[activeThreads[t]].loop # "gone"

\* A live record holds the slot of its thread.
AllRegistered == \A r \in Recs : Live(rec[r]) => activeThreads[rec[r].thread] = r

\* A record that waits for its replacement has no run and no slot left.
Rebuilds ==
    \A r \in Recs : rec[r].loop = "rebuild" =>
        rec[r].turnQueue = <<>> /\ activeThreads[rec[r].thread] # r

\* What a record names is there: its thread, and a run that was sent.
Sent ==
    \A r \in Recs :
        /\ rec[r].loop # "free" => rec[r].thread \in Threads
        /\ rec[r].currentRunId \in Runs => sentTo[rec[r].currentRunId] # NoThread
        /\ rec[r].gen = "none" => rec[r].currentRunId = NoRun

\* Where a record has done with a run that somebody else may still report, it is one
\* that was replaced.
Lefts ==
    \A r \in Recs, x \in Runs : Left(rec[r], x) /\ Held(x) =>
        rec[r].loop = "read" /\ ~rec[r].turnActive /\ activeThreads[rec[r].thread] # r

\* Who may be reported can be cancelled.
Routed == \A x \in Runs : Held(x) => runToThread[x] = sentTo[x]

\* The invariant of the registries.
RegInv ==
    /\ InThread /\ OneOpen /\ Slots /\ AllRegistered
    /\ Rebuilds /\ Sent /\ Lefts /\ Routed

\* A record of a thread that is kept open has nothing in its queue, and takes input
\* until it is torn down.
Plain(q) ==
    /\ q.policy = "persist"
    /\ q.loop # "stuck" => q.turnQueue = <<>>
    /\ ~q.dead => ~q.closeRequested /\ q.gen # "done"
    /\ q.loop = "gone" /\ q.gen = "turn" => q.currentRunId \in Runs

-----------------------------------------------------------------------------
(* What the operations keep of the registries *)

\* A record goes from q to p, with nothing to register or to unregister.
Goes(p, q) ==
    /\ \A x \in Runs : Holds(p, x) => Holds(q, x)
    /\ p.thread = q.thread /\ p.loop # "free" /\ q.loop # "free"
    /\ Live(p) => Live(q)
    /\ p.loop = "rebuild" => q.loop = "rebuild" /\ p.turnQueue = q.turnQueue
    /\ p.currentRunId \in {q.currentRunId, NoRun} \/ Holds(q, p.currentRunId)
    /\ p.gen = "none" => p.currentRunId = NoRun
                         \/ (q.gen = "none" /\ p.currentRunId = q.currentRunId)
    /\ \A x \in Runs : Left(p, x) =>
          \/ Holds(q, x) /\ ~Holds(p, x)
          \/ Left(q, x) /\ p.loop = q.loop /\ p.turnActive = q.turnActive
          \/ Left(q, x) /\ (q.loop = "usage" \/ q.turnActive)
          \/ q.loop = "rebuild" /\ p.loop = "read" /\ ~p.turnActive

\* It also keeps what NeverStranded needs.
Fits(p, q) == Goes(p, q) /\ (Plain(q) => Plain(p))

\* Operations that leave the turn and the loop alone, or end the record.
LEMMA QuietFits ==
    ASSUME NEW q \in RecType, NEW p \in RecType, Keeps(p, q), q.loop # "free",
           p.thread = q.thread, p.policy = q.policy, p.loop = q.loop,
           p.turnQueue = q.turnQueue, p.currentRunId = q.currentRunId,
           p.turnActive = q.turnActive, p.terminalEmitted = q.terminalEmitted,
           q.dead => p.dead,
           ~p.dead => p.closeRequested = q.closeRequested /\ p.gen = q.gen,
           p.gen \in {q.gen, "done"}
    PROVE  Fits(p, q)
<1>1. \A x \in Runs : Holds(p, x) => Holds(q, x)
  BY DEF Keeps
<1>2. Live(p) => Live(q)
  BY <1>1 DEF Live
<1>3. \A x \in Runs : Left(p, x) => Left(q, x)
  BY DEF Left, Current
<1>4. Goes(p, q)
  BY <1>1, <1>2, <1>3 DEF Goes
<1>5. Plain(q) => Plain(p)
  BY DEF Plain
<1> QED BY <1>4, <1>5 DEF Fits

\* A teardown.
LEMMA TornGoes ==
    ASSUME NEW q \in RecType, Shape(q), Apart(q), q.loop # "free"
    PROVE  Fits(Torn(q), q)
<1>1. Keeps(Torn(q), q)
  BY TornKeeps
<1> QED BY <1>1, TornIs, QuietFits DEF SameTurn

\* A result during a turn.
LEMMA ResultGoes ==
    ASSUME NEW q \in RecType, Shape(q), Apart(q), NEW kind \in {"ok", "error", "auth"},
           q.loop = "read", q.turnActive, q.owed # <<>>
    PROVE  Fits([q EXCEPT !.loop = "usage", !.kind = kind, !.got = Head(q.owed),
                    !.owed = Tail(@), !.closeRequested = @ \/ q.policy = "closeAfterResult"], q)
<1> DEFINE p == [q EXCEPT !.loop = "usage", !.kind = kind, !.got = Head(q.owed),
                    !.owed = Tail(@), !.closeRequested = @ \/ q.policy = "closeAfterResult"]
<1>1. \A x \in Runs : Holds(p, x) => Holds(q, x)
  BY ResultIs DEF Keeps
<1>2. /\ p.loop = "usage" /\ p.thread = q.thread /\ p.policy = q.policy /\ p.dead = q.dead
      /\ p.turnQueue = q.turnQueue /\ p.currentRunId = q.currentRunId /\ p.gen = q.gen
      /\ p.turnActive = q.turnActive /\ p.terminalEmitted = q.terminalEmitted
  BY DEF RecType
<1>3. q.policy = "persist" /\ ~q.closeRequested => ~p.closeRequested
  <2>1. PICK b \in BOOLEAN : b = (q.closeRequested \/ q.policy = "closeAfterResult")
    OBVIOUS
  <2>2. p.closeRequested = b
    BY <2>1 DEF RecType
  <2> QED BY <2>1, <2>2 DEF RecType
<1> HIDE DEF p
<1>4. Goes(p, q)
  BY <1>1, <1>2 DEF Goes, Live, Left, Current
<1>5. Plain(q) => Plain(p)
  BY <1>2, <1>3 DEF Plain
<1> QED BY <1>4, <1>5 DEF Fits, p

\* A turn that is to be replayed.
LEMMA ReplayGoes ==
    ASSUME NEW q \in RecType, Shape(q), Apart(q), q.loop = "usage", ~q.terminalEmitted
    PROVE  Fits([q EXCEPT !.loop = "token", !.got = q.currentRunId, !.turnActive = FALSE,
                     !.terminalEmitted = TRUE, !.authRetried = TRUE, !.caught = FALSE], q)
<1> DEFINE p == [q EXCEPT !.loop = "token", !.got = q.currentRunId, !.turnActive = FALSE,
                     !.terminalEmitted = TRUE, !.authRetried = TRUE, !.caught = FALSE]
<1>1. \A x \in Runs : Holds(p, x) => Holds(q, x)
  BY ReplayIs DEF Keeps
<1>2. /\ p.loop = "token" /\ p.thread = q.thread /\ p.policy = q.policy /\ p.dead = q.dead
      /\ p.turnQueue = q.turnQueue /\ p.currentRunId = q.currentRunId /\ p.gen = q.gen
      /\ p.closeRequested = q.closeRequested
  BY DEF RecType
<1> HIDE DEF p
<1>3. Goes(p, q)
  BY <1>1, <1>2 DEF Goes, Live, Left
<1>4. Plain(q) => Plain(p)
  BY <1>2 DEF Plain
<1> QED BY <1>3, <1>4 DEF Fits, p

\* The end of a settled turn, or of the wait for a token.
LEMMA SettledGoes ==
    ASSUME NEW q \in RecType, Shape(q), Apart(q),
           q.loop = "usage" \/ (q.loop = "token" /\ ~q.caught)
    PROVE  Fits(Settled(q), q)
<1> DEFINE w == [q EXCEPT !.turnActive = FALSE, !.terminalEmitted = TRUE,
                          !.currentRunId = NoRun, !.loop = "read",
                          !.got = NoRun, !.kind = "ok"]
           p == Release(w)
<1>1. /\ w \in RecType
      /\ w.loop = "read" /\ ~w.turnActive /\ w.turnQueue = q.turnQueue /\ w.gen = q.gen
      /\ w.dead = q.dead /\ w.closeRequested = q.closeRequested
      /\ w.thread = q.thread /\ w.policy = q.policy /\ w.currentRunId = NoRun
  BY ZenonT(30) DEF RecType
<1>2. p = Settled(q)
  BY DEF Settled
<1> HIDE DEF w
<1>3. /\ p \in RecType /\ SameLife(p, w)
      /\ \/ w.gen # "turn" /\ p = w
         \/ w.gen = "turn" /\ w.closeRequested /\ p.gen = "done" /\ SameTurn(p, w)
         \/ w.gen = "turn" /\ ~w.closeRequested /\ Starts(p, w)
         \/ /\ w.gen = "turn" /\ ~w.closeRequested /\ w.turnQueue = <<>>
            /\ p.gen = "parked" /\ SameTurn(p, w)
  BY <1>1, ReleaseIs
<1>4. Keeps(p, q)
  BY <1>2, SettledIs
<1> HIDE DEF p
<1>5. /\ p.loop = "read" /\ p.thread = q.thread /\ p.policy = q.policy /\ p.dead = q.dead
      /\ p.closeRequested = q.closeRequested
  BY <1>1, <1>3 DEF SameLife
<1>6. \A x \in Runs : Holds(p, x) => Holds(q, x)
  BY <1>4 DEF Keeps
<1>7. p.currentRunId = NoRun
      \/ (p.currentRunId \in Runs /\ Current(p, p.currentRunId) /\ p.gen = "turn")
  <2>1. CASE Starts(p, w)
    <3>1. Head(w.turnQueue) \in Runs
      BY <1>1, <2>1 DEF Starts, RecType
    <3> QED BY <1>5, <2>1, <3>1 DEF Starts, Current
  <2>2. CASE ~Starts(p, w)
    BY <1>1, <1>3, <2>2 DEF SameTurn
  <2> QED BY <2>1, <2>2
<1>8. \A x \in Runs : ~Left(p, x)
  BY <1>7, NamesAssumption DEF Left
<1>9. p.currentRunId = NoRun \/ Holds(q, p.currentRunId)
  BY <1>6, <1>7 DEF Holds, Has
<1>10. q.gen # "none"
  BY DEF Shape
<1>11. p.gen # "none"
  BY <1>1, <1>3, <1>10 DEF Starts
<1>12. Goes(p, q)
  BY <1>5, <1>6, <1>8, <1>9, <1>11 DEF Goes, Live
<1>13. Plain(q) => Plain(p)
  <2> SUFFICES ASSUME Plain(q) PROVE Plain(p)
    OBVIOUS
  <2>1. q.policy = "persist" /\ q.turnQueue = <<>> /\ (~q.dead => ~q.closeRequested /\ q.gen # "done")
    BY DEF Plain
  <2>2. p.turnQueue = <<>> /\ (~p.dead => p.gen # "done")
    BY <1>1, <1>3, <1>5, <2>1 DEF SameTurn, Starts
  <2> QED BY <1>5, <2>1, <2>2 DEF Plain
<1> QED BY <1>2, <1>12, <1>13 DEF Fits

\* A turn that is reported as failed, and its thread closed.
LEMMA ReportedGoes ==
    ASSUME NEW q \in RecType, Shape(q), Apart(q), q.turnActive, Once(q),
           q.dead => ~q.terminalEmitted
    PROVE  Fits(Torn([q EXCEPT !.terminalEmitted = TRUE]), q)
<1> DEFINE w == [q EXCEPT !.terminalEmitted = TRUE]
           p == Torn(w)
<1>1. /\ w \in RecType /\ w.loop = q.loop /\ w.thread = q.thread /\ w.policy = q.policy
      /\ w.turnQueue = q.turnQueue /\ w.gen = q.gen /\ w.dead = q.dead
      /\ w.currentRunId = q.currentRunId
  BY DEF RecType
<1>2. /\ \A x \in Runs : Holds(p, x) => Holds(q, x)
      /\ ~Holds(p, q.currentRunId)
  BY ReportedIs DEF Keeps
<1> HIDE DEF w
<1>3. /\ p.loop = q.loop /\ p.thread = q.thread /\ p.policy = q.policy /\ p.dead
      /\ p.turnQueue = q.turnQueue /\ p.currentRunId = q.currentRunId
      /\ p.gen \in {q.gen, "done"}
  BY <1>1, TornIs DEF SameTurn
<1> HIDE DEF p
<1>4. q.loop # "free" /\ q.gen # "none"
  BY DEF Shape
<1>5. ~q.terminalEmitted
  BY DEF Once
<1>6. \A x \in Runs : Left(p, x) => Holds(q, x) /\ ~Holds(p, x)
  BY <1>2, <1>3, <1>5 DEF Left, Holds, Has, Current
<1>7. Goes(p, q)
  BY <1>2, <1>3, <1>4, <1>6 DEF Goes, Live
<1>8. Plain(q) => Plain(p)
  BY <1>3 DEF Plain
<1> QED BY <1>7, <1>8 DEF Fits, p, w

\* A turn that is reported as failed while background work keeps the thread alive.
LEMMA AbandonedGoes ==
    ASSUME NEW q \in RecType, Shape(q), Apart(q), q.turnActive, q.currentRunId \in Runs,
           ~q.terminalEmitted, q.cancelRequested, q.background, Once(q)
    PROVE  Fits(Release([q EXCEPT !.terminalEmitted = TRUE, !.turnActive = FALSE,
                                  !.currentRunId = NoRun]), q)
<1> DEFINE w == [q EXCEPT !.terminalEmitted = TRUE, !.turnActive = FALSE,
                          !.currentRunId = NoRun]
           p == Release(w)
<1>1. /\ w \in RecType /\ w.loop = q.loop /\ w.thread = q.thread /\ w.policy = q.policy
      /\ w.turnQueue = q.turnQueue /\ w.gen = q.gen /\ w.dead = q.dead
      /\ w.currentRunId = NoRun /\ w.closeRequested = q.closeRequested
  BY ZenonT(30) DEF RecType
<1>2. \A x \in Runs : Holds(p, x) => Holds(q, x)
  BY AbandonedIs DEF Keeps
<1> HIDE DEF w
<1>3. /\ p \in RecType /\ SameLife(p, w)
      /\ \/ w.gen # "turn" /\ p = w
         \/ w.gen = "turn" /\ w.closeRequested /\ p.gen = "done" /\ SameTurn(p, w)
         \/ w.gen = "turn" /\ ~w.closeRequested /\ Starts(p, w)
         \/ /\ w.gen = "turn" /\ ~w.closeRequested /\ w.turnQueue = <<>>
            /\ p.gen = "parked" /\ SameTurn(p, w)
  BY <1>1, ReleaseIs
<1> HIDE DEF p
<1>4. /\ p.loop = q.loop /\ p.thread = q.thread /\ p.policy = q.policy /\ p.dead = q.dead
      /\ p.closeRequested = q.closeRequested
  BY <1>1, <1>3 DEF SameLife
<1>5. q.loop \notin {"free", "token", "rebuild"} /\ q.gen # "none"
  BY DEF Shape, Once
<1>6. p.currentRunId = NoRun
      \/ (p.currentRunId \in Runs /\ Current(p, p.currentRunId) /\ p.gen = "turn")
  <2>1. CASE Starts(p, w)
    <3>1. Head(w.turnQueue) \in Runs
      BY <1>1, <2>1 DEF Starts, RecType
    <3> QED BY <1>4, <1>5, <2>1, <3>1 DEF Starts, Current
  <2>2. CASE ~Starts(p, w)
    BY <1>1, <1>3, <2>2 DEF SameTurn
  <2> QED BY <2>1, <2>2
<1>7. \A x \in Runs : ~Left(p, x)
  BY <1>6, NamesAssumption DEF Left
<1>8. p.currentRunId = NoRun \/ Holds(q, p.currentRunId)
  BY <1>2, <1>6 DEF Holds, Has
<1>9. p.gen # "none"
  BY <1>1, <1>3, <1>5 DEF Starts
<1>10. Goes(p, q)
  BY <1>2, <1>4, <1>5, <1>7, <1>8, <1>9 DEF Goes, Live
<1>11. Plain(q) => Plain(p)
  <2> SUFFICES ASSUME Plain(q) PROVE Plain(p)
    OBVIOUS
  <2>1. /\ q.policy = "persist" /\ q.turnQueue = <<>>
        /\ ~q.dead => ~q.closeRequested /\ q.gen # "done"
    BY <1>5 DEF Plain, Shape
  <2>2. p.turnQueue = <<>> /\ (~p.dead => p.gen # "done") /\ p.gen # "turn"
    BY <1>1, <1>3, <1>4, <2>1 DEF SameTurn, Starts
  <2> QED BY <1>4, <2>1, <2>2 DEF Plain
<1> QED BY <1>10, <1>11 DEF Fits, p, w

\* The loop is over, and there is no turn to report.
LEMMA GoneGoes ==
    ASSUME NEW q \in RecType, Shape(q), Apart(q), q.loop = "read", Once(q),
           ~(q.turnActive /\ q.currentRunId # NoRun /\ ~q.terminalEmitted)
    PROVE  Fits(Gone(q), q)
<1> DEFINE p == Gone(q)
<1>1. /\ p \in RecType /\ p.loop = "gone" /\ p.thread = q.thread
      /\ p.dead = q.dead /\ p.gen = q.gen /\ p.turnQueue = q.turnQueue
      /\ p.currentRunId = NoRun /\ p.policy = "persist" /\ ~p.closeRequested
  BY GoneIs
<1>2. \A x \in Runs : Holds(p, x) => Holds(q, x)
  BY GoneFits DEF Keeps
<1> HIDE DEF p
<1>3. Goes(p, q)
  BY <1>1, <1>2 DEF Goes, Live, Left
<1>4. q.gen # "turn"
  BY NamesAssumption DEF Shape, Once
<1>5. Plain(q) => Plain(p)
  BY <1>1, <1>4 DEF Plain
<1> QED BY <1>3, <1>5 DEF Fits, p

\* The loop ends in the middle of a turn, which is reported.
LEMMA EndedGoes ==
    ASSUME NEW q \in RecType, Shape(q), Apart(q), q.loop = "read"
    PROVE  Fits(Gone(Release([q EXCEPT !.terminalEmitted = TRUE, !.turnActive = FALSE])), q)
<1> DEFINE w == [q EXCEPT !.terminalEmitted = TRUE, !.turnActive = FALSE]
           v == Release(w)
           p == Gone(v)
<1>1. /\ w \in RecType /\ w.loop = q.loop /\ w.thread = q.thread /\ w.policy = q.policy
      /\ w.turnQueue = q.turnQueue /\ w.gen = q.gen /\ w.dead = q.dead
      /\ w.closeRequested = q.closeRequested
  BY ZenonT(30) DEF RecType
<1>2. \A x \in Runs : Holds(p, x) => Holds(q, x)
  BY EndedIs DEF Keeps
<1> HIDE DEF w
<1>3. /\ v \in RecType /\ SameLife(v, w)
      /\ \/ w.gen # "turn" /\ v = w
         \/ w.gen = "turn" /\ w.closeRequested /\ v.gen = "done" /\ SameTurn(v, w)
         \/ w.gen = "turn" /\ ~w.closeRequested /\ Starts(v, w)
         \/ /\ w.gen = "turn" /\ ~w.closeRequested /\ w.turnQueue = <<>>
            /\ v.gen = "parked" /\ SameTurn(v, w)
  BY <1>1, ReleaseIs
<1> HIDE DEF v
<1>4. /\ p \in RecType /\ p.loop = "gone" /\ p.thread = v.thread
      /\ p.dead = v.dead /\ p.gen = v.gen /\ p.turnQueue = v.turnQueue
      /\ p.currentRunId = NoRun /\ p.policy = "persist" /\ ~p.closeRequested
  BY <1>3, GoneIs
<1> HIDE DEF p
<1>5. v.thread = q.thread /\ v.dead = q.dead
  BY <1>1, <1>3 DEF SameLife
<1>6. q.gen # "none"
  BY DEF Shape
<1>7. v.gen # "none"
  BY <1>1, <1>3, <1>6 DEF Starts
<1>8. Goes(p, q)
  BY <1>2, <1>4, <1>5, <1>7 DEF Goes, Live, Left
<1>9. Plain(q) => Plain(p)
  <2> SUFFICES ASSUME Plain(q) PROVE Plain(p)
    OBVIOUS
  <2>1. q.turnQueue = <<>> /\ (~q.dead => ~q.closeRequested /\ q.gen # "done")
    BY DEF Plain
  <2>2. v.turnQueue = <<>> /\ (~v.dead => v.gen # "done") /\ v.gen # "turn"
    BY <1>1, <1>3, <1>5, <2>1 DEF SameTurn, Starts
  <2> QED BY <1>4, <2>2 DEF Plain
<1> QED BY <1>8, <1>9 DEF Fits, p, v, w

\* The options of the record could not be built.
LEMMA StuckGoes ==
    ASSUME NEW q \in RecType, Shape(q), Apart(q), q.loop = "build"
    PROVE  Fits([q EXCEPT !.loop = "stuck"], q)
<1> DEFINE p == [q EXCEPT !.loop = "stuck"]
<1>1. \A x \in Runs : Holds(p, x) => Holds(q, x)
  BY StuckIs DEF Keeps
<1>2. /\ p.loop = "stuck" /\ p.thread = q.thread /\ p.policy = q.policy /\ p.dead = q.dead
      /\ p.turnQueue = q.turnQueue /\ p.currentRunId = q.currentRunId /\ p.gen = q.gen
      /\ p.closeRequested = q.closeRequested
  BY DEF RecType
<1> HIDE DEF p
<1>3. Goes(p, q)
  BY <1>1, <1>2 DEF Goes, Live, Left
<1>4. Plain(q) => Plain(p)
  BY <1>2 DEF Plain
<1> QED BY <1>3, <1>4 DEF Fits, p

\* The record that was replaced goes on.
LEMMA ReplacedGoes ==
    ASSUME NEW q \in RecType, Shape(q), Apart(q), q.loop = "rebuild", Once(q),
           q.turnQueue = <<>>
    PROVE  Fits(Replaced(q), q)
<1> DEFINE p == [q EXCEPT !.turnActive = FALSE, !.loop = "read"]
<1>1. Replaced(q) = p
  BY DEF Replaced, Once
<1>2. \A x \in Runs : Holds(p, x) => Holds(q, x)
  BY <1>1, ReplacedIs DEF Keeps
<1>3. /\ p.loop = "read" /\ p.thread = q.thread /\ p.policy = q.policy /\ p.dead = q.dead
      /\ p.turnQueue = q.turnQueue /\ p.currentRunId = q.currentRunId /\ p.gen = q.gen
      /\ p.closeRequested = q.closeRequested /\ ~p.turnActive
  BY DEF RecType
<1> HIDE DEF p
<1>4. q.dead
  BY DEF Shape
<1>5. ~Live(p)
  BY <1>3, <1>4 DEF Live, Holds, Waiting, Has, Current
<1>6. Goes(p, q)
  BY <1>2, <1>3, <1>5 DEF Goes
<1>7. Plain(q) => Plain(p)
  BY <1>3 DEF Plain
<1> QED BY <1>1, <1>6, <1>7 DEF Fits

\* The record that is made when its query exists.
LEMMA MadeTyped ==
    ASSUME NEW q \in RecType
    PROVE  [q EXCEPT !.loop = "read", !.forRun = NoRun, !.oldRec = NoRec,
                     !.authRetried = q.oldRec # NoRec] \in RecType
<1>1. PICK b \in BOOLEAN : b = (q.oldRec # NoRec)
  OBVIOUS
<1>2. [q EXCEPT !.loop = "read", !.forRun = NoRun, !.oldRec = NoRec, !.authRetried = b] \in RecType
  BY DEF RecType
<1> QED BY <1>1, <1>2

\* The query of a record exists.
LEMMA BuiltGoes ==
    ASSUME NEW q \in RecType, Shape(q), Apart(q), q.loop = "build", q.currentRunId = NoRun
    PROVE  LET made == [q EXCEPT !.loop = "read", !.forRun = NoRun, !.oldRec = NoRec,
                                 !.authRetried = q.oldRec # NoRec]
           IN  Fits(IF q.dead THEN PullTurn(made)
                    ELSE PullTurn([made EXCEPT !.turnQueue = Append(@, q.forRun)]), q)
<1> DEFINE made == [q EXCEPT !.loop = "read", !.forRun = NoRun, !.oldRec = NoRec,
                             !.authRetried = q.oldRec # NoRec]
           w == IF q.dead THEN made ELSE [made EXCEPT !.turnQueue = Append(@, q.forRun)]
           p == PullTurn(w)
<1>1. made \in RecType
  BY MadeTyped
<1>2. /\ made.loop = "read" /\ made.gen = q.gen /\ made.dead = q.dead
      /\ made.closeRequested = q.closeRequested /\ made.turnQueue = q.turnQueue
      /\ made.thread = q.thread /\ made.policy = q.policy /\ made.currentRunId = NoRun
  BY DEF RecType
<1>3. \A x \in Runs : Holds(p, x) => Holds(q, x)
  <2> DEFINE b == IF q.dead THEN PullTurn(made)
                  ELSE PullTurn([made EXCEPT !.turnQueue = Append(@, q.forRun)])
  <2>1. \A x \in Runs : Holds(b, x) => Holds(q, x)
    BY BuiltIs DEF Keeps
  <2>2. p = b
    OBVIOUS
  <2> HIDE DEF b, p
  <2> QED BY <2>1, <2>2
<1> HIDE DEF made
<1>4. q.forRun \in Runs /\ q.gen = "none" /\ (q.dead => q.closeRequested)
  BY DEF Shape
<1>5. Append(made.turnQueue, q.forRun) \in Seq(Runs)
  BY <1>1, <1>4 DEF RecType
<1>6. /\ w \in RecType /\ w.loop = "read" /\ w.dead = q.dead
      /\ w.closeRequested = q.closeRequested
      /\ w.thread = q.thread /\ w.policy = q.policy /\ w.currentRunId = NoRun
      /\ w.turnQueue = IF q.dead THEN q.turnQueue ELSE Append(q.turnQueue, q.forRun)
  <2>1. CASE q.dead
    BY <1>1, <1>2, <2>1
  <2>2. CASE ~q.dead
    <3> DEFINE u == [made EXCEPT !.turnQueue = Append(made.turnQueue, q.forRun)]
    <3>1. /\ u \in RecType /\ u.loop = "read" /\ u.dead = made.dead
          /\ u.closeRequested = made.closeRequested
          /\ u.thread = made.thread /\ u.policy = made.policy /\ u.currentRunId = NoRun
          /\ u.turnQueue = Append(made.turnQueue, q.forRun)
      BY <1>1, <1>2, <1>5 DEF RecType
    <3>2. w = u
      BY <2>2
    <3> HIDE DEF u, w
    <3> QED BY <1>2, <2>2, <3>1, <3>2
  <2> QED BY <2>1, <2>2
<1>7. p = IF q.dead THEN PullTurn(made)
          ELSE PullTurn([made EXCEPT !.turnQueue = Append(@, q.forRun)])
  OBVIOUS
<1> HIDE DEF w
<1>8. /\ p \in RecType /\ SameLife(p, w)
      /\ \/ w.closeRequested /\ p.gen = "done" /\ SameTurn(p, w)
         \/ ~w.closeRequested /\ Starts(p, w)
         \/ /\ ~w.closeRequested /\ w.turnQueue = <<>>
            /\ p.gen = "parked" /\ SameTurn(p, w)
  BY <1>6, PullTurnIs
<1> HIDE DEF p
<1>9. /\ p.loop = "read" /\ p.thread = q.thread /\ p.policy = q.policy /\ p.dead = q.dead
      /\ p.closeRequested = q.closeRequested
  BY <1>6, <1>8 DEF SameLife
<1>10. p.currentRunId = NoRun
       \/ (p.currentRunId \in Runs /\ Current(p, p.currentRunId) /\ p.gen = "turn")
  <2>1. CASE Starts(p, w)
    <3>1. Head(w.turnQueue) \in Runs
      BY <1>6, <2>1 DEF Starts, RecType
    <3> QED BY <1>9, <2>1, <3>1 DEF Starts, Current
  <2>2. CASE ~Starts(p, w)
    BY <1>6, <1>8, <2>2 DEF SameTurn
  <2> QED BY <2>1, <2>2
<1>11. \A x \in Runs : ~Left(p, x)
  BY <1>10, NamesAssumption DEF Left
<1>12. p.currentRunId = NoRun \/ Holds(q, p.currentRunId)
  BY <1>3, <1>10 DEF Holds, Has
<1>13. p.gen # "none"
  BY <1>8 DEF Starts
<1>14. Live(q)
  BY <1>4 DEF Live, Holds, Has
<1>15. Goes(p, q)
  BY <1>3, <1>9, <1>11, <1>12, <1>13, <1>14 DEF Goes
<1>16. Plain(q) => Plain(p)
  <2> SUFFICES ASSUME Plain(q) PROVE Plain(p)
    OBVIOUS
  <2>1. /\ q.policy = "persist" /\ q.turnQueue = <<>>
        /\ ~q.dead => ~q.closeRequested
    BY DEF Plain
  <2>2. Tail(Append(<<>>, q.forRun)) = <<>>
    OBVIOUS
  <2>3. p.turnQueue = <<>> /\ (~p.dead => p.gen # "done")
    <3>1. CASE q.dead
      BY <1>4, <1>6, <1>8, <2>1, <3>1, <1>9 DEF SameTurn
    <3>2. CASE ~q.dead
      BY <1>6, <1>8, <2>1, <2>2, <3>2 DEF SameTurn, Starts
    <3> QED BY <3>1, <3>2
  <2> QED BY <1>9, <2>1, <2>3 DEF Plain
<1> QED BY <1>7, <1>15, <1>16 DEF Fits, made

\* A run is queued on a record that is not torn down.
LEMMA QueuedGoes ==
    ASSUME NEW q \in RecType, Shape(q), Apart(q), q.loop # "free", ~q.dead,
           NEW x \in Runs, ~Holds(q, x)
    PROVE  LET p == Queued(q, x)
           IN  /\ \A y \in Runs : Holds(p, y) => Holds(q, y) \/ y = x
               /\ p.thread = q.thread /\ p.loop = q.loop /\ p.dead = q.dead
               /\ p.currentRunId \in {q.currentRunId, x}
               /\ p.gen = "none" => q.gen = "none" /\ p.currentRunId = q.currentRunId
               /\ \A y \in Runs : Left(p, y) => Left(q, y) /\ p.turnActive = q.turnActive
               /\ Plain(q) /\ Once(q) /\ (\A y \in Runs : ~Holds(q, y)) => Plain(p)
<1> DEFINE p == Queued(q, x)
<1>1. /\ p \in RecType /\ SameLife(p, q)
      /\ \/ /\ q.gen = "parked" /\ ~q.turnActive
            /\ \E w \in RecType : /\ w.turnQueue = Append(q.turnQueue, x)
                                 /\ w.owed = q.owed /\ Starts(p, w)
         \/ /\ ~(q.gen = "parked" /\ ~q.turnActive) /\ p.gen = q.gen
            /\ p.turnQueue = Append(q.turnQueue, x)
            /\ p.currentRunId = q.currentRunId /\ p.turnActive = q.turnActive
            /\ p.cancelRequested = q.cancelRequested
            /\ p.terminalEmitted = q.terminalEmitted /\ p.asked = q.asked
            /\ p.awaitingDecision = q.awaitingDecision /\ p.owed = q.owed
  BY QueuedIs
<1>2. \A y \in Runs : Holds(p, y) => Holds(q, y) \/ y = x
  BY QueuedFits
<1> HIDE DEF p
<1>3. /\ p.thread = q.thread /\ p.loop = q.loop /\ p.dead = q.dead /\ p.policy = q.policy
      /\ p.closeRequested = q.closeRequested
  BY <1>1 DEF SameLife
<1>4. CASE q.gen = "parked" /\ ~q.turnActive
  <2>1. PICK w \in RecType : /\ w.turnQueue = Append(q.turnQueue, x)
                            /\ w.owed = q.owed /\ Starts(p, w)
    BY <1>1, <1>4
  <2>2. q.turnQueue = <<>>
    BY <1>4 DEF Shape
  <2>3. Head(Append(<<>>, x)) = x /\ Tail(Append(<<>>, x)) = <<>>
    OBVIOUS
  <2>4. /\ p.turnQueue = <<>> /\ p.currentRunId = x /\ p.gen = "turn" /\ p.turnActive
        /\ ~p.terminalEmitted
    BY <2>1, <2>2, <2>3 DEF Starts
  <2>5. \A y \in Runs : ~Left(p, y)
    BY <2>4 DEF Left, Current
  <2>6. Plain(q) => Plain(p)
    BY <1>3, <2>4 DEF Plain
  <2> QED BY <1>2, <1>3, <2>4, <2>5, <2>6 DEF p
<1>5. CASE ~(q.gen = "parked" /\ ~q.turnActive)
  <2>1. /\ p.gen = q.gen /\ p.turnQueue = Append(q.turnQueue, x)
        /\ p.currentRunId = q.currentRunId /\ p.turnActive = q.turnActive
        /\ p.terminalEmitted = q.terminalEmitted
    BY <1>1, <1>5
  <2>2. \A y \in Runs : Left(p, y) => Left(q, y)
    BY <1>3, <2>1 DEF Left, Current
  <2>3. ASSUME Plain(q), Once(q), \A y \in Runs : ~Holds(q, y) PROVE Plain(p)
    <3>1. q.gen \notin {"parked", "done"}
      BY <1>5, <2>3 DEF Plain, Shape
    <3>2. q.gen = "turn" => FALSE
      <4> SUFFICES ASSUME q.gen = "turn" PROVE FALSE
        OBVIOUS
      <4>1. q.loop # "token"
        BY <2>3 DEF Shape, Holds, Has
      <4>2. q.turnActive /\ ~q.terminalEmitted /\ q.loop # "rebuild"
        BY <2>3, <4>1 DEF Shape, Once
      <4>3. q.currentRunId \in Runs
        BY <2>3, <4>2 DEF Shape, Plain
      <4>4. Current(q, q.currentRunId)
        BY <4>1, <4>2 DEF Current
      <4> QED BY <2>3, <4>3, <4>4 DEF Holds, Has
    <3>3. q.gen = "none"
      BY <3>1, <3>2 DEF RecType
    <3>4. q.loop = "stuck"
      BY <2>3, <3>3 DEF Shape, Holds, Has
    <3> QED BY <1>3, <2>1, <2>3, <3>3, <3>4 DEF Plain
  <2> QED BY <1>2, <1>3, <2>1, <2>2, <2>3 DEF p
<1> QED BY <1>4, <1>5

-----------------------------------------------------------------------------
(* What a step does to the registries *)

\* Every record keeps to what NeverStranded needs.
Plains == \A r \in Recs : Plain(rec[r])

\* A step keeps the registries, and where threads are kept open, the empty queues.
RegFine == RegInv' /\ (Policies = {"persist"} /\ Plains => Plains')

\* No record gains a run, or a slot.
RecordsGo == \A s \in Recs : rec'[s] = rec[s] \/ Fits(rec'[s], rec[s])

\* Then a run that leaves its place is nowhere any more.
LEMMA LetGo ==
    ASSUME HoldInv, RecordsGo, controls' \subseteq controls
    PROVE  /\ \A x \in Runs : Held(x)' => Held(x)
           /\ \A r \in Recs, x \in Runs : Holds(rec[r], x) /\ ~Holds(rec'[r], x) => ~Held(x)'
           /\ \A r \in Recs, x \in Runs : <<r, x>> \in controls \ controls' => ~Held(x)'
<1>1. \A s \in Recs, x \in Runs : Holds(rec'[s], x) => Holds(rec[s], x)
  BY DEF RecordsGo, Fits, Goes
<1>2. \A x \in Runs : Held(x)' => Held(x)
  BY <1>1 DEF Held
<1>3. ASSUME NEW r \in Recs, NEW x \in Runs, Holds(rec[r], x), ~Holds(rec'[r], x)
      PROVE  ~Held(x)'
  BY <1>1, <1>3 DEF HoldInv, Unique, Held
<1>4. ASSUME NEW r \in Recs, NEW x \in Runs, <<r, x>> \in controls \ controls'
      PROVE  ~Held(x)'
  BY <1>1, <1>4 DEF HoldInv, Unique, Held
<1> QED BY <1>2, <1>3, <1>4

\* A step that gives no record a run keeps the registries, if it takes a slot only from
\* a record that is no longer live, and the route only from a run that nobody holds.
LEMMA RegShrink ==
    ASSUME HoldInv, RegInv, RecordsGo, controls' \subseteq controls, sentTo' = sentTo,
           \A t \in Threads : \/ activeThreads'[t] = activeThreads[t]
                              \/ /\ activeThreads'[t] = NoRec
                                 /\ \A s \in Recs : activeThreads[t] = s => ~Live(rec'[s]),
           \A s \in Recs : rec'[s].loop = "gone" /\ rec[s].loop # "gone" =>
                              activeThreads'[rec[s].thread] # s,
           \A x \in Runs : \/ runToThread'[x] = runToThread[x]
                           \/ ~Held(x)'
                           \/ runToThread'[x] = sentTo[x]
    PROVE  RegFine
<1>1. /\ \A x \in Runs : Held(x)' => Held(x)
      /\ \A r \in Recs, x \in Runs : Holds(rec[r], x) /\ ~Holds(rec'[r], x) => ~Held(x)'
  BY LetGo
<1>2. \A s \in Recs : rec'[s] = rec[s] \/ Goes(rec'[s], rec[s])
  BY DEF RecordsGo, Fits
<1>3. /\ \A s \in Recs, x \in Runs : Holds(rec'[s], x) => Holds(rec[s], x)
      /\ \A s \in Recs : rec'[s].thread = rec[s].thread
      /\ \A s \in Recs : Live(rec'[s]) => Live(rec[s])
      /\ \A s \in Recs : rec'[s].loop = "rebuild" =>
            rec[s].loop = "rebuild" /\ rec'[s].turnQueue = rec[s].turnQueue
  BY <1>2 DEF Goes
<1>4. /\ \A s \in Recs : s # NoRec
      /\ \A t \in Threads : activeThreads[t] \in Recs \cup {NoRec}
      /\ \A s \in Recs : rec[s].loop # "free" => rec[s].thread \in Threads
  BY DEF HoldInv, OthersTyped, RegInv, Sent, Recs, NoRec
<1>5. InThread' /\ OneOpen'
  <2>1. InThread'
    BY <1>3 DEF RegInv, InThread
  <2>2. OneOpen'
    BY <1>1 DEF RegInv, OneOpen
  <2> QED BY <2>1, <2>2
<1>6. Slots'
  <2> SUFFICES ASSUME NEW t \in Threads, activeThreads'[t] # NoRec
               PROVE  /\ rec'[activeThreads'[t]].thread = t
                      /\ rec'[activeThreads'[t]].loop # "gone"
    BY DEF Slots
  <2>1. activeThreads'[t] = activeThreads[t] /\ activeThreads[t] \in Recs
    BY <1>4
  <2>2. PICK a \in Recs : a = activeThreads[t]
    BY <2>1
  <2>3. rec[a].thread = t /\ rec[a].loop # "gone"
    BY <2>1, <2>2 DEF RegInv, Slots
  <2>4. rec'[a].thread = t /\ rec'[a].loop # "gone"
    BY <1>3, <2>1, <2>2, <2>3
  <2> QED BY <2>1, <2>2, <2>4
<1>7. AllRegistered'
  <2> SUFFICES ASSUME NEW s \in Recs, Live(rec'[s])
               PROVE  activeThreads'[rec'[s].thread] = s
    BY DEF AllRegistered
  <2>1. Live(rec[s]) /\ rec'[s].thread = rec[s].thread
    BY <1>3
  <2>2. activeThreads[rec[s].thread] = s
    BY <2>1 DEF RegInv, AllRegistered
  <2>3. rec[s].thread \in Threads
    BY <1>4, <2>1 DEF Live
  <2> QED BY <2>1, <2>2, <2>3
<1>8. Rebuilds'
  <2> SUFFICES ASSUME NEW s \in Recs, rec'[s].loop = "rebuild"
               PROVE  rec'[s].turnQueue = <<>> /\ activeThreads'[rec'[s].thread] # s
    BY DEF Rebuilds
  <2>1. rec[s].loop = "rebuild" /\ rec'[s].turnQueue = rec[s].turnQueue
        /\ rec'[s].thread = rec[s].thread
    BY <1>3
  <2>2. rec[s].turnQueue = <<>> /\ activeThreads[rec[s].thread] # s
    BY <2>1 DEF RegInv, Rebuilds
  <2>3. rec[s].thread \in Threads
    BY <1>4, <2>1
  <2> QED BY <1>4, <2>1, <2>2, <2>3
<1>9. Sent'
  <2> SUFFICES ASSUME NEW s \in Recs
               PROVE  /\ rec'[s].loop # "free" => rec'[s].thread \in Threads
                      /\ rec'[s].currentRunId \in Runs => sentTo[rec'[s].currentRunId] # NoThread
                      /\ rec'[s].gen = "none" => rec'[s].currentRunId = NoRun
    BY DEF Sent
  <2>1. /\ rec[s].currentRunId \in Runs => sentTo[rec[s].currentRunId] # NoThread
        /\ rec[s].gen = "none" => rec[s].currentRunId = NoRun
        /\ rec[s].loop # "free" => rec[s].thread \in Threads
    BY DEF RegInv, Sent
  <2>2. CASE rec'[s] = rec[s]
    BY <2>1, <2>2
  <2>3. CASE Goes(rec'[s], rec[s])
    <3>1. ASSUME rec'[s].currentRunId \in Runs PROVE sentTo[rec'[s].currentRunId] # NoThread
      <4>1. PICK y \in Runs : y = rec'[s].currentRunId
        BY <3>1
      <4>2. CASE Holds(rec[s], y)
        BY <4>1, <4>2 DEF Held, HoldInv, Known
      <4>3. CASE y \in {rec[s].currentRunId, NoRun}
        BY <2>1, <4>1, <4>3, NamesAssumption
      <4> QED BY <2>3, <4>1, <4>2, <4>3 DEF Goes
    <3> QED BY <2>1, <2>3, <3>1 DEF Goes
  <2> QED BY <1>2, <2>2, <2>3
<1>10. Lefts'
  <2> SUFFICES ASSUME NEW s \in Recs, NEW x \in Runs, Left(rec'[s], x), Held(x)'
               PROVE  /\ rec'[s].loop = "read" /\ ~rec'[s].turnActive
                      /\ activeThreads'[rec'[s].thread] # s
    BY DEF Lefts
  <2>1. Held(x)
    BY <1>1
  <2>2. Left(rec[s], x) => rec[s].loop = "read" /\ ~rec[s].turnActive
                           /\ activeThreads[rec[s].thread] # s
    BY <2>1 DEF RegInv, Lefts
  <2>3. /\ rec'[s].loop = "read" /\ ~rec'[s].turnActive
        /\ activeThreads[rec[s].thread] # s /\ rec[s].loop # "free"
    <3>1. CASE rec'[s] = rec[s]
      BY <2>2, <3>1 DEF Left
    <3>2. CASE Goes(rec'[s], rec[s])
      <4>1. ~(Holds(rec[s], x) /\ ~Holds(rec'[s], x))
        BY <1>1
      <4>2. rec[s].loop = "rebuild" => activeThreads[rec[s].thread] # s
        BY DEF RegInv, Rebuilds
      <4>3. \/ Left(rec[s], x) /\ rec'[s].loop = rec[s].loop
                /\ rec'[s].turnActive = rec[s].turnActive
            \/ Left(rec[s], x) /\ (rec[s].loop = "usage" \/ rec[s].turnActive)
            \/ rec[s].loop = "rebuild" /\ rec'[s].loop = "read" /\ ~rec'[s].turnActive
        BY <3>2, <4>1 DEF Goes
      <4> QED BY <2>2, <3>2, <4>2, <4>3 DEF Goes
    <3> QED BY <1>2, <3>1, <3>2
  <2>4. rec[s].thread \in Threads /\ rec'[s].thread = rec[s].thread
    BY <1>3, <1>4, <2>3
  <2> QED BY <1>4, <2>3, <2>4
<1>11. Routed'
  BY <1>1 DEF RegInv, Routed
<1>12. Plains => Plains'
  BY DEF RecordsGo, Fits, Plains
<1> QED BY <1>5, <1>6, <1>7, <1>8, <1>9, <1>10, <1>11, <1>12 DEF RegFine, RegInv

\* A run is queued on a record of its thread, which has no other run.
LEMMA RegQueued ==
    ASSUME HoldInv, RegInv, OnceInv, NEW r \in Recs, NEW x \in Runs,
           rec[r].loop # "free", ~rec[r].dead,
           rec' = [rec EXCEPT ![r] = Queued(rec[r], x)],
           \A s \in Recs : ~Holds(rec[s], x),
           controls' \subseteq controls, \A s \in Recs : <<s, x>> \notin controls',
           activeThreads' = activeThreads,
           sentTo'[x] = rec[r].thread, \A y \in Runs : y # x => sentTo'[y] = sentTo[y],
           \A y \in Runs : y # x /\ Held(y) => sentTo[y] # rec[r].thread,
           Held(x) \/ sentTo[x] = NoThread,
           runToThread'[x] = sentTo'[x],
           \A y \in Runs : y # x => runToThread'[y] = runToThread[y]
    PROVE  RegFine
<1> DEFINE q == rec[r]
           p == Queued(q, x)
<1>1. q \in RecType /\ Shape(q) /\ Apart(q) /\ q.thread \in Threads
  BY RecordIs DEF RegInv, Sent
<1>2. rec'[r] = p /\ \A s \in Recs : s # r => rec'[s] = rec[s]
  BY DEF HoldInv, Shapes
<1>3. /\ \A y \in Runs : Holds(p, y) => Holds(q, y) \/ y = x
      /\ p.thread = q.thread /\ p.loop = q.loop /\ p.dead = q.dead
      /\ p.currentRunId \in {q.currentRunId, x}
      /\ p.gen = "none" => q.gen = "none" /\ p.currentRunId = q.currentRunId
      /\ \A y \in Runs : Left(p, y) => Left(q, y) /\ p.turnActive = q.turnActive
      /\ Plain(q) /\ Once(q) /\ (\A y \in Runs : ~Holds(q, y)) => Plain(p)
  BY <1>1, QueuedGoes
<1>4. \A y \in Runs : ~Holds(q, y)
  <2> SUFFICES ASSUME NEW y \in Runs, Holds(q, y), y # x PROVE FALSE
    OBVIOUS
  <2>1. Held(y) /\ sentTo[y] = q.thread
    BY DEF Held, RegInv, InThread
  <2> QED BY <2>1
<1> HIDE DEF p, q
<1>5. \A y \in Runs : Held(y)' => Held(y) \/ y = x
  BY <1>2, <1>3 DEF Held, q
<1>6. /\ \A s \in Recs : rec'[s].thread = rec[s].thread /\ rec'[s].loop = rec[s].loop
      /\ \A s \in Recs : Live(rec'[s]) => Live(rec[s])
  BY <1>2, <1>3 DEF Live, q
<1>7. InThread'
  <2> SUFFICES ASSUME NEW s \in Recs, NEW y \in Runs,
                      Holds(rec'[s], y) \/ <<s, y>> \in controls'
               PROVE  sentTo'[y] = rec'[s].thread
    BY DEF InThread
  <2>1. CASE y = x
    <3>1. s = r
      BY <1>2, <2>1
    <3> QED BY <1>6, <2>1, <3>1
  <2>2. CASE y # x
    <3>1. Holds(rec[s], y) \/ <<s, y>> \in controls
      BY <1>2, <1>3, <2>2 DEF q
    <3> QED BY <1>6, <2>2, <3>1 DEF RegInv, InThread
  <2> QED BY <2>1, <2>2
<1>8. OneOpen'
  <2>1. \A y \in Runs : y # x /\ Held(y)' => sentTo'[y] = sentTo[y] /\ Held(y) /\ sentTo[y] # sentTo'[x]
    BY <1>5
  <2> QED BY <2>1 DEF RegInv, OneOpen
<1>9. Slots' /\ AllRegistered'
  <2>1. \A t \in Threads : activeThreads[t] # NoRec => activeThreads[t] \in Recs
    BY DEF HoldInv, OthersTyped
  <2> QED BY <1>6, <2>1 DEF RegInv, Slots, AllRegistered
<1>10. Rebuilds'
  <2>1. q.loop # "rebuild"
    BY <1>1 DEF Shape, q
  <2> QED BY <1>2, <1>6, <2>1 DEF RegInv, Rebuilds, q
<1>11. sentTo'[x] # NoThread
  BY <1>1, NamesAssumption DEF q
<1>12. Sent'
  <2> SUFFICES ASSUME NEW s \in Recs
               PROVE  /\ rec'[s].loop # "free" => rec'[s].thread \in Threads
                      /\ rec'[s].currentRunId \in Runs => sentTo'[rec'[s].currentRunId] # NoThread
                      /\ rec'[s].gen = "none" => rec'[s].currentRunId = NoRun
    BY DEF Sent
  <2>1. /\ rec[s].currentRunId \in Runs => sentTo[rec[s].currentRunId] # NoThread
        /\ rec[s].gen = "none" => rec[s].currentRunId = NoRun
        /\ rec[s].loop # "free" => rec[s].thread \in Threads
    BY DEF RegInv, Sent
  <2>2. \A y \in Runs : sentTo[y] # NoThread => sentTo'[y] # NoThread
    BY <1>11
  <2>3. /\ rec'[s].currentRunId \in {rec[s].currentRunId, x}
        /\ rec'[s].gen = "none" => rec[s].gen = "none" /\ rec'[s].currentRunId = rec[s].currentRunId
    BY <1>2, <1>3 DEF q
  <2> QED BY <1>6, <1>11, <2>1, <2>2, <2>3
<1>13. Lefts'
  <2> SUFFICES ASSUME NEW s \in Recs, NEW y \in Runs, Left(rec'[s], y), Held(y)'
               PROVE  /\ rec'[s].loop = "read" /\ ~rec'[s].turnActive
                      /\ activeThreads'[rec'[s].thread] # s
    BY DEF Lefts
  <2>1. Left(rec[s], y) /\ rec'[s].turnActive = rec[s].turnActive
    BY <1>2, <1>3 DEF q
  <2>2. Held(y)
    <3>1. sentTo[y] # NoThread
      BY <2>1 DEF RegInv, Sent, Left
    <3> QED BY <1>5, <3>1
  <2> QED BY <1>6, <2>1, <2>2 DEF RegInv, Lefts
<1>14. Routed'
  BY <1>5 DEF RegInv, Routed
<1>15. Plains => Plains'
  <2>1. Plain(q) => Plain(p)
    BY <1>3, <1>4 DEF OnceInv, q
  <2> QED BY <1>2, <2>1 DEF Plains, q
<1> QED BY <1>7, <1>8, <1>9, <1>10, <1>12, <1>13, <1>14, <1>15 DEF RegFine, RegInv

\* A record goes from q to p, to wait for its replacement.
Rebuilt(p, q) ==
    /\ \A x \in Runs : Holds(p, x) => Holds(q, x)
    /\ p.thread = q.thread /\ p.loop = "rebuild" /\ p.dead /\ q.loop # "free"
    /\ p.turnQueue = <<>> /\ p.gen # "none" /\ p.currentRunId = q.currentRunId
    /\ Plain(q) => Plain(p)

\* What a teardown leaves of a record.
LEMMA TornLeaves ==
    ASSUME NEW q \in RecType, Shape(q), Apart(q), q.loop # "free"
    PROVE  LET p == Torn(q)
           IN  /\ \A x \in Runs : Holds(p, x) => Holds(q, x)
               /\ p.thread = q.thread /\ p.loop = q.loop
               /\ p.currentRunId = q.currentRunId /\ p.turnActive = q.turnActive
               /\ p.turnQueue = q.turnQueue /\ (p.gen = "none" => q.gen = "none")
               /\ \A x \in Runs : Left(p, x) => Left(q, x)
               /\ Live(p) => Live(q)
               /\ Plain(q) => Plain(p)
<1> DEFINE p == Torn(q)
<1>1. Keeps(p, q) /\ Fits(p, q)
  BY TornKeeps, TornGoes
<1>2. /\ p.thread = q.thread /\ p.loop = q.loop
      /\ p.currentRunId = q.currentRunId /\ p.turnActive = q.turnActive
      /\ p.turnQueue = q.turnQueue /\ p.terminalEmitted = q.terminalEmitted
      /\ p.gen = "none" => q.gen = "none"
  BY TornIs DEF SameTurn
<1> HIDE DEF p
<1>3. \A x \in Runs : Left(p, x) => Left(q, x)
  BY <1>2 DEF Left, Current
<1> QED BY <1>1, <1>2, <1>3 DEF Keeps, Fits, Goes, p

\* A new record takes the slot of a thread that has no live record any more.
LEMMA RegEnsure ==
    ASSUME HoldInv, RegInv, NEW recs \in [Recs -> RecType],
           \A s \in Recs : recs[s] = rec[s] \/ Rebuilt(recs[s], rec[s]),
           NEW t \in Threads, NEW policy \in AllPolicies, NEW x \in Runs,
           NEW old \in Recs \cup {NoRec},
           EnsureThread(recs, t, policy, x, old),
           \A s \in Recs : Live(rec[s]) /\ rec[s].thread = t => recs[s].loop = "rebuild",
           \A s \in Recs : recs[s] # rec[s] => rec[s].thread = t,
           \A s \in Recs : ~Holds(recs[s], x) /\ <<s, x>> \notin controls,
           controls' = controls, sentTo'[x] = t,
           \A y \in Runs : y # x => sentTo'[y] = sentTo[y],
           \A y \in Runs : y # x /\ Held(y) => sentTo[y] # t,
           Held(x) \/ sentTo[x] = NoThread,
           runToThread'[x] = t,
           \A y \in Runs : y # x => runToThread'[y] = runToThread[y],
           Policies = {"persist"} /\ Plains => policy = "persist"
    PROVE  RegFine
<1> DEFINE p == [Blank EXCEPT !.thread = t, !.policy = policy,
                              !.loop = "build", !.forRun = x, !.oldRec = old]
<1>1. PICK n \in Recs, kept \in Evictions(recs) :
        /\ rec[n].loop = "free" /\ rec' = [kept EXCEPT ![n] = p]
        /\ activeThreads' = [activeThreads EXCEPT ![t] = n]
  BY DEF EnsureThread, IsNext
<1>2. /\ p \in RecType /\ Shape(p) /\ Apart(p)
      /\ \A y \in Runs : Holds(p, y) => y = x
  BY NewIs
<1>3. /\ p.thread = t /\ p.policy = policy /\ p.loop = "build" /\ p.turnQueue = <<>>
      /\ p.gen = "none" /\ p.currentRunId = NoRun /\ ~p.closeRequested
  <2>1. /\ Blank \in RecType /\ Blank.turnQueue = <<>> /\ Blank.gen = "none"
        /\ Blank.currentRunId = NoRun /\ ~Blank.closeRequested
    BY BlankIs DEF Blank
  <2> QED BY <2>1 DEF RecType
<1> HIDE DEF p
<1>4. \A s \in Recs : \/ kept[s] = rec[s]
                      \/ kept[s] = Torn(rec[s]) /\ rec[s].loop # "free"
                      \/ Rebuilt(kept[s], rec[s]) /\ rec[s].thread = t
  <2>1. CASE kept = recs
    BY <2>1
  <2>2. CASE kept # recs
    <3>1. PICK e \in Registered : ~recs[e].dead /\ kept = [recs EXCEPT ![e] = Torn(recs[e])]
      BY <1>1, <2>2 DEF Evictions
    <3>2. e \in Recs /\ rec[e].loop # "free"
      BY DEF Registered, HoldInv, OthersTyped, Known
    <3>3. recs[e] = rec[e]
      BY <3>1, <3>2 DEF Rebuilt
    <3>4. kept[e] = Torn(rec[e]) /\ \A s \in Recs : s # e => kept[s] = recs[s]
      BY <3>1, <3>2, <3>3
    <3> QED BY <3>2, <3>4
  <2> QED BY <2>1, <2>2
<1>5. DOMAIN kept = Recs
  BY <1>1 DEF Evictions
<1>6. rec'[n] = p /\ \A s \in Recs : s # n => rec'[s] = kept[s]
  BY <1>1, <1>5
<1>7. \A s \in Recs : s # n =>
        \/ rec'[s] = rec[s]
        \/ rec'[s] = Torn(rec[s]) /\ rec[s].loop # "free"
        \/ Rebuilt(rec'[s], rec[s]) /\ rec[s].thread = t
  BY <1>4, <1>6
<1>8. \A s \in Recs : rec[s].loop # "free" =>
        LET w == Torn(rec[s])
        IN  /\ \A y \in Runs : Holds(w, y) => Holds(rec[s], y)
            /\ w.thread = rec[s].thread /\ w.loop = rec[s].loop
            /\ w.currentRunId = rec[s].currentRunId /\ w.turnActive = rec[s].turnActive
            /\ w.turnQueue = rec[s].turnQueue /\ (w.gen = "none" => rec[s].gen = "none")
            /\ \A y \in Runs : Left(w, y) => Left(rec[s], y)
            /\ Live(w) => Live(rec[s])
            /\ Plain(rec[s]) => Plain(w)
  BY RecordIs, TornLeaves
<1>9. \A s \in Recs : s # n =>
        /\ \A y \in Runs : Holds(rec'[s], y) => Holds(rec[s], y)
        /\ rec'[s].thread = rec[s].thread
        /\ rec'[s].currentRunId = rec[s].currentRunId
        /\ rec'[s].gen = "none" => rec[s].gen = "none"
        /\ rec'[s].loop # "free" => rec[s].loop # "free"
        /\ Plain(rec[s]) => Plain(rec'[s])
        /\ \/ rec'[s].loop = "rebuild" /\ rec'[s].turnQueue = <<>> /\ rec[s].thread = t
           \/ /\ rec'[s].loop = rec[s].loop /\ rec'[s].turnActive = rec[s].turnActive
              /\ rec'[s].turnQueue = rec[s].turnQueue
              /\ \A y \in Runs : Left(rec'[s], y) => Left(rec[s], y)
              /\ Live(rec'[s]) => Live(rec[s])
  BY <1>7, <1>8 DEF Rebuilt
<1>10. \A s \in Recs : s # n => ~Holds(rec'[s], x)
  <2>1. \A s \in Recs : Holds(kept[s], x) => Holds(recs[s], x)
    <3>1. CASE kept = recs
      BY <3>1
    <3>2. CASE kept # recs
      <4>1. PICK e \in Registered : kept = [recs EXCEPT ![e] = Torn(recs[e])] /\ ~recs[e].dead
        BY <1>1, <3>2 DEF Evictions
      <4>2. e \in Recs /\ rec[e].loop # "free"
        BY DEF Registered, HoldInv, OthersTyped, Known
      <4>3. recs[e] = rec[e]
        BY <4>1, <4>2 DEF Rebuilt
      <4>4. kept[e] = Torn(rec[e]) /\ \A s \in Recs : s # e => kept[s] = recs[s]
        BY <4>1, <4>2, <4>3
      <4> QED BY <1>8, <4>2, <4>3, <4>4
    <3> QED BY <3>1, <3>2
  <2> QED BY <1>6, <2>1
<1>11. \A y \in Runs : Held(y)' => Held(y) \/ y = x
  BY <1>2, <1>6, <1>9 DEF Held
<1>12. /\ \A u \in Threads : activeThreads[u] \in Recs \cup {NoRec}
       /\ activeThreads'[t] = n /\ \A u \in Threads : u # t => activeThreads'[u] = activeThreads[u]
       /\ \A u \in Threads : activeThreads[u] # n
       /\ NoRec \notin Recs /\ t # NoThread
  <2>1. activeThreads \in [Threads -> Recs \cup {NoRec}] /\ n # NoRec /\ NoRec \notin Recs
    BY DEF HoldInv, OthersTyped, Recs, NoRec
  <2>2. \A u \in Threads : activeThreads[u] # n
    BY <1>1, <2>1 DEF HoldInv, Known
  <2> QED BY <1>1, <2>1, <2>2, NamesAssumption
<1>13. InThread'
  <2> SUFFICES ASSUME NEW s \in Recs, NEW y \in Runs,
                      Holds(rec'[s], y) \/ <<s, y>> \in controls'
               PROVE  sentTo'[y] = rec'[s].thread
    BY DEF InThread
  <2>1. CASE y = x
    <3>1. s = n
      BY <1>10, <2>1
    <3> QED BY <1>3, <1>6, <2>1, <3>1
  <2>2. CASE y # x
    <3>1. CASE s = n
      <4>1. <<n, y>> \in controls
        BY <1>2, <1>6, <2>2, <3>1
      <4> QED BY <1>1, <4>1 DEF HoldInv, Known
    <3>2. CASE s # n
      BY <1>9, <2>2, <3>2 DEF RegInv, InThread
    <3> QED BY <3>1, <3>2
  <2> QED BY <2>1, <2>2
<1>14. OneOpen'
  <2>1. \A y \in Runs : y # x /\ Held(y)' => sentTo'[y] = sentTo[y] /\ Held(y) /\ sentTo[y] # sentTo'[x]
    BY <1>11
  <2> QED BY <2>1 DEF RegInv, OneOpen
<1>15. Slots'
  <2> SUFFICES ASSUME NEW u \in Threads, activeThreads'[u] # NoRec
               PROVE  /\ rec'[activeThreads'[u]].thread = u
                      /\ rec'[activeThreads'[u]].loop # "gone"
    BY DEF Slots
  <2>1. CASE u = t
    BY <1>3, <1>6, <1>12, <2>1
  <2>2. CASE u # t
    <3>1. PICK a \in Recs : a = activeThreads[u] /\ a # n /\ activeThreads'[u] = a
      BY <1>12, <2>2
    <3>2. rec[a].thread = u /\ rec[a].loop # "gone"
      BY <1>12, <3>1 DEF RegInv, Slots
    <3> QED BY <1>9, <3>1, <3>2
  <2> QED BY <2>1, <2>2
<1>16. AllRegistered'
  <2> SUFFICES ASSUME NEW s \in Recs, Live(rec'[s])
               PROVE  activeThreads'[rec'[s].thread] = s
    BY DEF AllRegistered
  <2>1. CASE s = n
    BY <1>3, <1>6, <1>12, <2>1
  <2>2. CASE s # n
    <3>1. Live(rec[s]) /\ rec[s].loop = rec'[s].loop
      BY <1>9, <2>2 DEF Live
    <3>2. activeThreads[rec[s].thread] = s /\ rec[s].thread \in Threads
      BY <3>1 DEF RegInv, AllRegistered, Sent, Live
    <3>3. rec[s].thread # t
      <4> SUFFICES ASSUME rec[s].thread = t PROVE FALSE
        OBVIOUS
      <4>1. recs[s].loop = "rebuild" /\ rec[s].loop # "rebuild"
        BY <3>1 DEF Live
      <4>2. Rebuilt(recs[s], rec[s])
        BY <4>1
      <4>3. kept[s] = recs[s]
        <5>1. CASE kept = recs
          BY <5>1
        <5>2. CASE kept # recs
          <6>1. PICK e \in Registered : kept = [recs EXCEPT ![e] = Torn(recs[e])] /\ ~recs[e].dead
            BY <1>1, <5>2 DEF Evictions
          <6>2. e # s
            BY <4>2, <6>1 DEF Rebuilt
          <6> QED BY <6>1, <6>2
        <5> QED BY <5>1, <5>2
      <4> QED BY <1>6, <2>2, <3>1, <4>1, <4>3
    <3> QED BY <1>9, <1>12, <2>2, <3>2, <3>3
  <2> QED BY <2>1, <2>2
<1>17. Rebuilds'
  <2> SUFFICES ASSUME NEW s \in Recs, rec'[s].loop = "rebuild"
               PROVE  rec'[s].turnQueue = <<>> /\ activeThreads'[rec'[s].thread] # s
    BY DEF Rebuilds
  <2>1. s # n
    BY <1>3, <1>6
  <2>2. rec'[s].thread = rec[s].thread /\ rec[s].thread \in Threads
    BY <1>9, <2>1 DEF RegInv, Sent
  <2>3. CASE rec[s].thread = t
    <3>1. rec'[s].turnQueue = <<>>
      BY <1>9, <2>1 DEF RegInv, Rebuilds
    <3> QED BY <1>12, <2>1, <2>2, <2>3, <3>1
  <2>4. CASE rec[s].thread # t
    <3>1. rec[s].loop = "rebuild" /\ rec'[s].turnQueue = rec[s].turnQueue
      BY <1>9, <2>1, <2>4
    <3> QED BY <1>12, <2>2, <2>4, <3>1 DEF RegInv, Rebuilds
  <2> QED BY <2>3, <2>4
<1>18. Sent'
  <2> SUFFICES ASSUME NEW s \in Recs
               PROVE  /\ rec'[s].loop # "free" => rec'[s].thread \in Threads
                      /\ rec'[s].currentRunId \in Runs => sentTo'[rec'[s].currentRunId] # NoThread
                      /\ rec'[s].gen = "none" => rec'[s].currentRunId = NoRun
    BY DEF Sent
  <2>1. CASE s = n
    BY <1>3, <1>6, <2>1, NamesAssumption
  <2>2. CASE s # n
    <3>1. /\ rec[s].currentRunId \in Runs => sentTo[rec[s].currentRunId] # NoThread
          /\ rec[s].gen = "none" => rec[s].currentRunId = NoRun
          /\ rec[s].loop # "free" => rec[s].thread \in Threads
      BY DEF RegInv, Sent
    <3>2. \A y \in Runs : sentTo[y] # NoThread => sentTo'[y] # NoThread
      BY <1>12
    <3> QED BY <1>9, <2>2, <3>1, <3>2
  <2> QED BY <2>1, <2>2
<1>19. Lefts'
  <2> SUFFICES ASSUME NEW s \in Recs, NEW y \in Runs, Left(rec'[s], y), Held(y)'
               PROVE  /\ rec'[s].loop = "read" /\ ~rec'[s].turnActive
                      /\ activeThreads'[rec'[s].thread] # s
    BY DEF Lefts
  <2>1. s # n
    BY <1>3, <1>6 DEF Left
  <2>2. Left(rec[s], y) /\ rec'[s].loop = rec[s].loop /\ rec'[s].turnActive = rec[s].turnActive
    BY <1>9, <2>1 DEF Left
  <2>3. Held(y)
    <3>1. sentTo[y] # NoThread
      BY <2>2 DEF RegInv, Sent, Left
    <3> QED BY <1>11, <3>1
  <2>4. /\ rec[s].loop = "read" /\ ~rec[s].turnActive /\ activeThreads[rec[s].thread] # s
        /\ rec[s].thread \in Threads
    BY <2>2, <2>3 DEF RegInv, Lefts, Sent
  <2> QED BY <1>9, <1>12, <2>1, <2>2, <2>4
<1>20. Routed'
  BY <1>11 DEF RegInv, Routed
<1>21. Policies = {"persist"} /\ Plains => Plains'
  <2> SUFFICES ASSUME Policies = {"persist"}, Plains PROVE Plains'
    OBVIOUS
  <2>1. Plain(p)
    BY <1>3 DEF Plain
  <2> QED BY <1>6, <1>9, <2>1 DEF Plains
<1> QED BY <1>13, <1>14, <1>15, <1>16, <1>17, <1>18, <1>19, <1>20, <1>21 DEF RegFine, RegInv

-----------------------------------------------------------------------------
(* Every step keeps the registries *)

\* One record changes, and gains nothing; a route may be forgotten of a run that nobody
\* holds any more, and a slot cleared that this record held.
LEMMA OneReg ==
    ASSUME HoldInv, RegInv, NEW r \in Recs, NEW p, rec' = [rec EXCEPT ![r] = p],
           Fits(p, rec[r]), controls' = controls, sentTo' = sentTo,
           \A t \in Threads : \/ activeThreads'[t] = activeThreads[t]
                              \/ activeThreads'[t] = NoRec /\ activeThreads[t] = r /\ ~Live(p),
           p.loop = "gone" => rec[r].loop = "gone" \/ activeThreads'[rec[r].thread] # r,
           \A x \in Runs : \/ runToThread'[x] = runToThread[x]
                           \/ ~Held(x)
                           \/ Holds(rec[r], x) /\ ~Holds(p, x)
    PROVE  RegFine
<1>1. rec'[r] = p /\ \A s \in Recs : s # r => rec'[s] = rec[s]
  BY DEF HoldInv, Shapes
<1>2. RecordsGo
  BY <1>1 DEF RecordsGo
<1>3. /\ \A x \in Runs : Held(x)' => Held(x)
      /\ \A s \in Recs, x \in Runs : Holds(rec[s], x) /\ ~Holds(rec'[s], x) => ~Held(x)'
  BY <1>2, LetGo
<1>4. \A x \in Runs : runToThread'[x] = runToThread[x] \/ ~Held(x)'
  BY <1>1, <1>3
<1>5. \A t \in Threads : \/ activeThreads'[t] = activeThreads[t]
                         \/ /\ activeThreads'[t] = NoRec
                            /\ \A s \in Recs : activeThreads[t] = s => ~Live(rec'[s])
  BY <1>1
<1>6. \A s \in Recs : rec'[s].loop = "gone" /\ rec[s].loop # "gone" =>
                         activeThreads'[rec[s].thread] # s
  BY <1>1
<1> QED BY <1>2, <1>4, <1>5, <1>6, RegShrink

\* One record changes, and no registry.
LEMMA QuietReg ==
    ASSUME HoldInv, RegInv, NEW r \in Recs, NEW p, rec' = [rec EXCEPT ![r] = p],
           Fits(p, rec[r]), p.loop = "gone" => rec[r].loop = "gone",
           UNCHANGED <<activeThreads, runToThread, controls, wireVars>>
    PROVE  RegFine
<1>1. activeThreads' = activeThreads /\ runToThread' = runToThread
      /\ controls' = controls /\ sentTo' = sentTo
  BY DEF wireVars
<1> QED BY <1>1, OneReg

\* Only the route of x may be forgotten.
LEMMA ForgetOne ==
    ASSUME NEW x, Forget(x), HoldInv
    PROVE  \A y \in Runs : runToThread'[y] = runToThread[y] \/ y = x
BY DEF Forget

\* A background task starts or ends.
LEMMA TaskEventReg ==
    ASSUME HoldInv, RegInv, NEW r \in Recs, TaskEvent(r)
    PROVE  RegFine
<1> DEFINE q == rec[r]
           p == [q EXCEPT !.background = ~@]
<1>1. /\ q \in RecType /\ Shape(q) /\ Apart(q) /\ q.loop = "read" /\ q.gen # "none"
  BY RecordIs DEF TaskEvent
<1>2. rec' = [rec EXCEPT ![r] = p]
  BY DEF TaskEvent, HoldInv, Shapes
<1>3. UNCHANGED <<activeThreads, runToThread, controls, wireVars>>
  BY DEF TaskEvent, sideVars
<1> HIDE DEF q
<1>4. Keeps(p, q)
  BY <1>1, FlippedIs
<1>5. /\ p.thread = q.thread /\ p.policy = q.policy /\ p.loop = q.loop
      /\ p.turnQueue = q.turnQueue /\ p.currentRunId = q.currentRunId
      /\ p.turnActive = q.turnActive /\ p.terminalEmitted = q.terminalEmitted
      /\ p.dead = q.dead /\ p.closeRequested = q.closeRequested /\ p.gen = q.gen
  BY <1>1 DEF RecType
<1> HIDE DEF p
<1>6. p \in RecType
  BY <1>4 DEF Keeps
<1>7. Fits(p, q)
  BY <1>1, <1>4, <1>5, <1>6, QuietFits
<1> QED BY <1>2, <1>3, <1>5, <1>7, QuietReg DEF q

\* A tool asks the user.
LEMMA GateOpensReg ==
    ASSUME HoldInv, RegInv, NEW r \in Recs, GateOpens(r)
    PROVE  RegFine
<1> DEFINE q == rec[r]
           p == [q EXCEPT !.asked = TRUE, !.awaitingDecision = @ + 1]
<1>1. /\ q \in RecType /\ Shape(q) /\ Apart(q) /\ q.loop = "read" /\ q.turnActive
      /\ ~q.cancelRequested /\ ~q.dead /\ ~q.asked
  BY RecordIs DEF GateOpens
<1>2. rec' = [rec EXCEPT ![r] = p]
  BY DEF GateOpens, HoldInv, Shapes
<1>3. UNCHANGED <<activeThreads, runToThread, controls, wireVars>>
  BY DEF GateOpens
<1> HIDE DEF q
<1>4. Keeps(p, q)
  BY <1>1, AskIs
<1>5. /\ p.thread = q.thread /\ p.policy = q.policy /\ p.loop = q.loop
      /\ p.turnQueue = q.turnQueue /\ p.currentRunId = q.currentRunId
      /\ p.turnActive = q.turnActive /\ p.terminalEmitted = q.terminalEmitted
      /\ p.dead = q.dead /\ p.closeRequested = q.closeRequested /\ p.gen = q.gen
  BY <1>1 DEF RecType
<1> HIDE DEF p
<1>6. p \in RecType
  BY <1>4 DEF Keeps
<1>7. Fits(p, q)
  BY <1>1, <1>4, <1>5, <1>6, QuietFits
<1> QED BY <1>2, <1>3, <1>5, <1>7, QuietReg DEF q

\* The user decides, or a gate is dropped.
LEMMA DecideReg ==
    ASSUME HoldInv, RegInv, NEW r \in Recs, NEW x \in Runs, Decide(r, x)
    PROVE  RegFine
<1> DEFINE q == rec[r]
           p == [q EXCEPT !.awaitingDecision = @ - 1]
<1>1. q \in RecType /\ Shape(q) /\ Apart(q) /\ q.loop # "free"
  BY RecordIs DEF Decide, HoldInv, Known
<1>2. rec' = [rec EXCEPT ![r] = p]
  BY DEF Decide, HoldInv, Shapes
<1>3. UNCHANGED <<activeThreads, runToThread, controls, wireVars>>
  BY DEF Decide
<1> HIDE DEF q
<1>4. Keeps(p, q)
  BY <1>1, DecidedIs
<1>5. /\ p.thread = q.thread /\ p.policy = q.policy /\ p.loop = q.loop
      /\ p.turnQueue = q.turnQueue /\ p.currentRunId = q.currentRunId
      /\ p.turnActive = q.turnActive /\ p.terminalEmitted = q.terminalEmitted
      /\ p.dead = q.dead /\ p.closeRequested = q.closeRequested /\ p.gen = q.gen
  BY <1>1 DEF RecType
<1> HIDE DEF p
<1>6. p \in RecType
  BY <1>4 DEF Keeps
<1>7. Fits(p, q)
  BY <1>1, <1>4, <1>5, <1>6, QuietFits
<1> QED BY <1>2, <1>3, <1>5, <1>7, QuietReg DEF q

\* A run is cancelled.
LEMMA CancelReg ==
    ASSUME HoldInv, RegInv, NEW x \in Runs, Cancel(x)
    PROVE  RegFine
<1> DEFINE r == activeThreads[runToThread[x]]
           q == rec[r]
<1>1. runToThread[x] \in Threads /\ r \in Recs
  BY DEF Cancel, HoldInv, OthersTyped
<1>2. /\ q \in RecType /\ Shape(q) /\ Apart(q) /\ q.loop # "free" /\ q.turnActive
      /\ q.currentRunId = x
  BY <1>1, RecordIs DEF Cancel, HoldInv, Known
<1>3. UNCHANGED <<activeThreads, runToThread, controls, wireVars>>
  BY DEF Cancel
<1>4. CASE q.awaitingDecision > 0 /\ <<r, x>> \in gates
  <2> DEFINE p == [q EXCEPT !.cancelRequested = TRUE, !.awaitingDecision = @ - 1]
  <2>1. rec' = [rec EXCEPT ![r] = p]
    BY <1>4 DEF Cancel, HoldInv, Shapes
  <2> HIDE DEF q, r
  <2>2. Keeps(p, q)
    BY <1>2, <1>4, RejectedIs
  <2>3. /\ p.thread = q.thread /\ p.policy = q.policy /\ p.loop = q.loop
        /\ p.turnQueue = q.turnQueue /\ p.currentRunId = q.currentRunId
        /\ p.turnActive = q.turnActive /\ p.terminalEmitted = q.terminalEmitted
        /\ p.dead = q.dead /\ p.closeRequested = q.closeRequested /\ p.gen = q.gen
    BY <1>2 DEF RecType
  <2> HIDE DEF p
  <2>4. p \in RecType
    BY <2>2 DEF Keeps
  <2>5. Fits(p, q)
    BY <1>2, <2>2, <2>3, <2>4, QuietFits
  <2> QED BY <1>1, <1>3, <2>1, <2>3, <2>5, QuietReg DEF q
<1>5. CASE ~(q.awaitingDecision > 0 /\ <<r, x>> \in gates)
  <2> DEFINE p == [q EXCEPT !.cancelRequested = TRUE]
  <2>1. rec' = [rec EXCEPT ![r] = p]
    BY <1>5 DEF Cancel, HoldInv, Shapes
  <2> HIDE DEF q, r
  <2>2. Keeps(p, q)
    BY <1>2, CancelledIs
  <2>3. /\ p.thread = q.thread /\ p.policy = q.policy /\ p.loop = q.loop
        /\ p.turnQueue = q.turnQueue /\ p.currentRunId = q.currentRunId
        /\ p.turnActive = q.turnActive /\ p.terminalEmitted = q.terminalEmitted
        /\ p.dead = q.dead /\ p.closeRequested = q.closeRequested /\ p.gen = q.gen
    BY <1>2 DEF RecType
  <2> HIDE DEF p
  <2>4. p \in RecType
    BY <2>2 DEF Keeps
  <2>5. Fits(p, q)
    BY <1>2, <2>2, <2>3, <2>4, QuietFits
  <2> QED BY <1>1, <1>3, <2>1, <2>3, <2>5, QuietReg DEF q
<1> QED BY <1>4, <1>5

\* A result during a turn.
LEMMA ResultReg ==
    ASSUME HoldInv, RegInv, NEW r \in Recs, NEW kind \in {"ok", "error", "auth"}, Result(r, kind)
    PROVE  RegFine
<1> DEFINE q == rec[r]
           p == [q EXCEPT !.loop = "usage", !.kind = kind, !.got = Head(q.owed),
                    !.owed = Tail(@), !.closeRequested = @ \/ q.policy = "closeAfterResult"]
<1>1. /\ q \in RecType /\ Shape(q) /\ Apart(q) /\ q.loop = "read" /\ q.turnActive
      /\ q.owed # <<>>
  BY RecordIs DEF Result
<1>2. rec' = [rec EXCEPT ![r] = p]
  BY DEF Result
<1>3. UNCHANGED <<activeThreads, runToThread, controls, wireVars>>
  BY DEF Result, sideVars
<1> HIDE DEF q
<1>4. Fits(p, q)
  BY <1>1, ResultGoes
<1>5. p.loop = "usage"
  BY <1>1 DEF RecType
<1> HIDE DEF p
<1> QED BY <1>2, <1>3, <1>4, <1>5, QuietReg DEF q

\* A result arrives that belongs to no turn.
LEMMA BackgroundResultReg ==
    ASSUME HoldInv, RegInv, NEW r \in Recs, BackgroundResult(r)
    PROVE  RegFine
<1> DEFINE q == rec[r]
           p == [q EXCEPT !.owed = Tail(@)]
<1>1. /\ q \in RecType /\ Shape(q) /\ Apart(q) /\ q.loop = "read" /\ ~q.turnActive
      /\ q.owed # <<>>
  BY RecordIs DEF BackgroundResult
<1>2. rec' = [rec EXCEPT ![r] = p]
  BY DEF BackgroundResult, HoldInv, Shapes
<1>3. UNCHANGED <<activeThreads, runToThread, controls, wireVars>>
  BY DEF BackgroundResult, sideVars
<1> HIDE DEF q
<1>4. Keeps(p, q)
  BY <1>1, LateIs
<1>5. /\ p.thread = q.thread /\ p.policy = q.policy /\ p.loop = q.loop
      /\ p.turnQueue = q.turnQueue /\ p.currentRunId = q.currentRunId
      /\ p.turnActive = q.turnActive /\ p.terminalEmitted = q.terminalEmitted
      /\ p.dead = q.dead /\ p.closeRequested = q.closeRequested /\ p.gen = q.gen
  BY <1>1 DEF RecType
<1> HIDE DEF p
<1>6. p \in RecType
  BY <1>4 DEF Keeps
<1>7. Fits(p, q)
  BY <1>1, <1>4, <1>5, <1>6, QuietFits
<1> QED BY <1>2, <1>3, <1>5, <1>7, QuietReg DEF q

\* A record is torn down: by the reaper, or because its thread is closed.
LEMMA TornReg ==
    ASSUME HoldInv, RegInv, NEW r \in Recs, rec[r].loop # "free",
           rec' = [rec EXCEPT ![r] = Torn(rec[r])],
           UNCHANGED <<activeThreads, runToThread, controls, wireVars>>
    PROVE  RegFine
<1> DEFINE q == rec[r]
           p == Torn(q)
<1>1. q \in RecType /\ Shape(q) /\ Apart(q)
  BY RecordIs
<1>2. Fits(p, q)
  BY <1>1, TornGoes
<1>3. p.loop = q.loop
  BY <1>1, TornIs
<1> HIDE DEF p
<1> QED BY <1>2, <1>3, QuietReg DEF p

\* The sidecar shuts down.
LEMMA ShutdownReg ==
    ASSUME HoldInv, RegInv, Shutdown
    PROVE  RegFine
<1>1. rec' = [r \in Recs |-> IF r \in Registered THEN Torn(rec[r]) ELSE rec[r]]
  BY DEF Shutdown
<1>2. UNCHANGED <<activeThreads, runToThread, controls, wireVars>>
  BY DEF Shutdown
<1>3. \A s \in Recs : s \in Registered => rec[s].loop # "free"
  BY DEF Registered, HoldInv, Known
<1>4. \A s \in Recs : \/ rec'[s] = rec[s]
                      \/ Fits(rec'[s], rec[s]) /\ rec'[s].loop = rec[s].loop
  <2> SUFFICES ASSUME NEW s \in Recs, s \in Registered
               PROVE  Fits(rec'[s], rec[s]) /\ rec'[s].loop = rec[s].loop
    BY <1>1
  <2>1. rec[s] \in RecType /\ Shape(rec[s]) /\ Apart(rec[s]) /\ rec[s].loop # "free"
    BY <1>3, RecordIs
  <2>2. rec'[s] = Torn(rec[s])
    BY <1>1
  <2>3. Fits(Torn(rec[s]), rec[s]) /\ Torn(rec[s]).loop = rec[s].loop
    BY <2>1, TornGoes, TornIs
  <2> QED BY <2>2, <2>3
<1>5. RecordsGo
  BY <1>4 DEF RecordsGo
<1>6. activeThreads' = activeThreads /\ runToThread' = runToThread
      /\ controls' = controls /\ sentTo' = sentTo
  BY <1>2 DEF wireVars
<1>7. \A s \in Recs : rec'[s].loop = "gone" => rec[s].loop = "gone"
  BY <1>4
<1> QED BY <1>5, <1>6, <1>7, RegShrink

\* A settled turn leaves its loop reading.
LEMMA SettledLoop ==
    ASSUME NEW q \in RecType
    PROVE  Settled(q).loop = "read"
<1> DEFINE w == [q EXCEPT !.turnActive = FALSE, !.terminalEmitted = TRUE,
                          !.currentRunId = NoRun, !.loop = "read",
                          !.got = NoRun, !.kind = "ok"]
<1>1. w \in RecType /\ w.loop = "read"
  BY ZenonT(30) DEF RecType
<1>2. Settled(q) = Release(w)
  BY DEF Settled
<1> HIDE DEF w
<1> QED BY <1>1, <1>2, ReleaseIs DEF SameLife

\* The context usage is there, and the turn settles.
LEMMA SettleReg ==
    ASSUME HoldInv, RegInv, NEW r \in Recs, Settle(r)
    PROVE  RegFine
<1> DEFINE q == rec[r]
           replay == q.kind = "auth" /\ ~q.authRetried /\ ~q.cancelRequested
<1>1. q \in RecType /\ Shape(q) /\ Apart(q) /\ q.loop = "usage"
  BY RecordIs DEF Settle
<1>2. activeThreads' = activeThreads /\ controls' = controls
  BY DEF Settle, sideVars
<1>3. sentTo' = sentTo
  BY DEF Settle, EmitDone, EmitError, wireVars
<1>4. CASE ~q.terminalEmitted /\ replay
  <2> DEFINE p == [q EXCEPT !.loop = "token", !.got = q.currentRunId, !.turnActive = FALSE,
                     !.terminalEmitted = TRUE, !.authRetried = TRUE, !.caught = FALSE]
  <2>1. rec' = [rec EXCEPT ![r] = p] /\ UNCHANGED <<runToThread, wireVars>>
    BY <1>4 DEF Settle
  <2> HIDE DEF q
  <2>2. Fits(p, q) /\ p.loop = "token"
    BY <1>1, <1>4, ReplayGoes DEF RecType
  <2> HIDE DEF p
  <2> QED BY <1>2, <2>1, <2>2, QuietReg DEF q
<1>5. CASE ~(~q.terminalEmitted /\ replay)
  <2> DEFINE p == Settled(q)
  <2>1. rec' = [rec EXCEPT ![r] = p] /\ Forget(q.currentRunId)
    BY <1>5 DEF Settle
  <2>2. Fits(p, q) /\ \A x \in Runs : Has(q, x) => ~Holds(p, x)
    BY <1>1, SettledGoes, SettledIs
  <2>3. p.loop = "read"
    BY <1>1, SettledLoop
  <2> HIDE DEF p
  <2>4. ASSUME NEW x \in Runs, x = q.currentRunId, Held(x)
        PROVE  Holds(q, x) /\ ~Holds(p, x)
    <3>1. CASE q.terminalEmitted
      <4>1. Left(q, x)
        BY <1>1, <2>4, <3>1 DEF Left, Current
      <4> QED BY <1>1, <2>4, <4>1 DEF RegInv, Lefts
    <3>2. CASE ~q.terminalEmitted
      <4>1. Has(q, x) /\ Holds(q, x)
        BY <1>1, <2>4, <3>2 DEF Shape, Has, Holds, Current
      <4> QED BY <2>2, <4>1
    <3> QED BY <3>1, <3>2
  <2>5. \A x \in Runs : \/ runToThread'[x] = runToThread[x] \/ ~Held(x)
                        \/ Holds(q, x) /\ ~Holds(p, x)
    BY <2>1, <2>4, ForgetOne
  <2> HIDE DEF q
  <2> QED BY <1>2, <1>3, <2>1, <2>2, <2>3, <2>5, OneReg DEF q
<1> QED BY <1>4, <1>5

\* What reports a turn and tears its record down leaves the loop alone.
LEMMA ReportedLoop ==
    ASSUME NEW q \in RecType
    PROVE  Torn([q EXCEPT !.terminalEmitted = TRUE]).loop = q.loop
<1> DEFINE w == [q EXCEPT !.terminalEmitted = TRUE]
<1>1. w \in RecType /\ w.loop = q.loop
  BY DEF RecType
<1> HIDE DEF w
<1>2. Torn(w).loop = w.loop
  BY <1>1, TornIs
<1> QED BY <1>1, <1>2 DEF w

\* The watchdog ends a turn.
LEMMA IdleTimeoutReg ==
    ASSUME HoldInv, RegInv, OnceInv, NEW r \in Recs, IdleTimeout(r)
    PROVE  RegFine
<1> DEFINE q == rec[r]
           p == Torn([q EXCEPT !.terminalEmitted = TRUE])
<1>1. /\ q \in RecType /\ Shape(q) /\ Apart(q) /\ q.loop \in {"read", "usage", "token", "rebuild"}
      /\ ~q.dead /\ q.turnActive /\ Once(q)
  BY RecordIs DEF IdleTimeout, OnceInv
<1>2. rec' = [rec EXCEPT ![r] = p] /\ EmitError(q.currentRunId)
  BY DEF IdleTimeout
<1>3. UNCHANGED <<activeThreads, runToThread, controls, sentTo>>
  BY <1>2 DEF IdleTimeout, sideVars, EmitError
<1> HIDE DEF q
<1>4. Fits(p, q)
  BY <1>1, ReportedGoes
<1>5. p.loop = q.loop
  BY <1>1, ReportedLoop
<1> HIDE DEF p
<1>6. p.loop # "gone"
  BY <1>1, <1>5
<1> QED BY <1>2, <1>3, <1>4, <1>6, OneReg DEF q

\* The grace period of a cancelled turn is over.
LEMMA BackstopReg ==
    ASSUME HoldInv, RegInv, OnceInv, NEW r \in Recs, Backstop(r)
    PROVE  RegFine
<1> DEFINE q == rec[r]
<1>1. /\ q \in RecType /\ Shape(q) /\ Apart(q) /\ q.cancelRequested
      /\ ~q.terminalEmitted /\ q.turnActive /\ Once(q) /\ q.currentRunId \in Runs
  BY RecordIs DEF Backstop, OnceInv, RecType
<1>2. UNCHANGED <<activeThreads, controls, sentTo>>
  BY DEF Backstop, sideVars, EmitError
<1>3. activeThreads[q.thread] = r
  BY DEF Backstop
<1>4. CASE q.background
  <2> DEFINE w == [q EXCEPT !.terminalEmitted = TRUE, !.turnActive = FALSE,
                            !.currentRunId = NoRun]
             p == Release(w)
  <2>1. rec' = [rec EXCEPT ![r] = p] /\ Forget(q.currentRunId)
    BY <1>4 DEF Backstop
  <2>2. w \in RecType /\ w.loop = q.loop /\ w.gen = q.gen
    BY ZenonT(30), <1>1 DEF RecType
  <2> HIDE DEF q
  <2>3. Fits(p, q) /\ ~Holds(p, q.currentRunId)
    BY <1>1, <1>4, AbandonedGoes, AbandonedIs
  <2> HIDE DEF w
  <2>4. p.loop = q.loop
    BY <2>2, ReleaseIs DEF SameLife
  <2>5. Holds(q, q.currentRunId)
    BY <1>1 DEF Holds, Has, Current, Once, Shape
  <2> HIDE DEF p
  <2>6. \A x \in Runs : \/ runToThread'[x] = runToThread[x] \/ ~Held(x)
                        \/ Holds(q, x) /\ ~Holds(p, x)
    BY <2>1, <2>3, <2>5, ForgetOne
  <2> QED BY <1>2, <2>1, <2>3, <2>4, <2>6, OneReg DEF q
<1>5. CASE ~q.background
  <2> DEFINE p == Torn([q EXCEPT !.terminalEmitted = TRUE])
  <2>1. rec' = [rec EXCEPT ![r] = p] /\ UNCHANGED runToThread
    BY <1>5 DEF Backstop
  <2> HIDE DEF q
  <2>2. Fits(p, q) /\ p.loop = q.loop
    BY <1>1, ReportedGoes, ReportedLoop
  <2> HIDE DEF p
  <2> QED BY <1>2, <2>1, <2>2, OneReg DEF q
<1> QED BY <1>4, <1>5

\* The fresh token does not come.
LEMMA TokenTimeoutReg ==
    ASSUME HoldInv, RegInv, OnceInv, NEW r \in Recs, TokenTimeout(r)
    PROVE  RegFine
<1> DEFINE q == rec[r]
           p == Settled(q)
<1>1. /\ q \in RecType /\ Shape(q) /\ Apart(q) /\ q.loop = "token" /\ ~q.caught
      /\ q.got \in Runs
  BY RecordIs DEF TokenTimeout, OnceInv, Once, Shape
<1>2. rec' = [rec EXCEPT ![r] = p] /\ Forget(q.got) /\ EmitError(q.got)
      /\ UNCHANGED activeThreads
  BY <1>1 DEF TokenTimeout
<1>3. controls' = controls /\ sentTo' = sentTo
  BY <1>2 DEF TokenTimeout, sideVars, EmitError
<1>4. Fits(p, q) /\ \A x \in Runs : Has(q, x) => ~Holds(p, x)
  BY <1>1, SettledGoes, SettledIs
<1>5. p.loop = "read"
  BY <1>1, SettledLoop
<1>6. Holds(q, q.got) /\ ~Holds(p, q.got)
  BY <1>1, <1>4 DEF Holds, Has
<1> HIDE DEF p
<1>7. \A x \in Runs : \/ runToThread'[x] = runToThread[x] \/ ~Held(x)
                      \/ Holds(q, x) /\ ~Holds(p, x)
  BY <1>2, <1>6, ForgetOne
<1> HIDE DEF q
<1> QED BY <1>2, <1>3, <1>4, <1>5, <1>7, OneReg DEF q

\* The loop of a record ends, and its finally reports what is left.
LEMMA LoopEndsReg ==
    ASSUME HoldInv, RegInv, OnceInv, NEW r \in Recs, LoopEnds(r)
    PROVE  RegFine
<1> DEFINE q == rec[r]
           owing == q.turnActive /\ q.currentRunId # NoRun /\ ~q.terminalEmitted
           ended == [q EXCEPT !.terminalEmitted = TRUE, !.turnActive = FALSE]
           p == IF owing THEN Gone(Release(ended)) ELSE Gone(q)
<1>1. q \in RecType /\ Shape(q) /\ Apart(q) /\ q.loop = "read" /\ Once(q)
  BY RecordIs DEF LoopEnds, OnceInv
<1>2. controls' = controls /\ Finalize(r)
  BY DEF LoopEnds, sideVars
<1>3. sentTo' = sentTo
  BY DEF LoopEnds, EmitError, wireVars
<1>4. rec' = [rec EXCEPT ![r] = p]
  BY DEF LoopEnds
<1>5. Fits(p, q) /\ (owing => \A x \in Runs : Has(q, x) => ~Holds(p, x))
  <2>1. CASE owing
    <3>1. p = Gone(Release(ended))
      BY <2>1
    <3> HIDE DEF q, owing
    <3>2. Fits(Gone(Release(ended)), q)
          /\ \A x \in Runs : Has(q, x) => ~Holds(Gone(Release(ended)), x)
      BY <1>1, EndedGoes, EndedIs
    <3> QED BY <3>1, <3>2
  <2>2. CASE ~owing
    BY <1>1, <2>2, GoneGoes
  <2> QED BY <2>1, <2>2
<1>6. p.loop = "gone"
  BY DEF Gone, Blank
<1> HIDE DEF p
<1>7. q.thread \in Threads
  BY <1>1 DEF RegInv, Sent
<1>8. CASE activeThreads[q.thread] # r
  <2>1. UNCHANGED <<activeThreads, runToThread>>
    BY <1>2, <1>8 DEF Finalize
  <2> HIDE DEF q
  <2> QED BY <1>2, <1>3, <1>4, <1>5, <1>8, <2>1, OneReg DEF q
<1>9. CASE activeThreads[q.thread] = r
  <2>1. /\ activeThreads' = [activeThreads EXCEPT ![q.thread] = NoRec]
        /\ Forget(q.currentRunId)
    BY <1>2, <1>9 DEF Finalize
  <2>2. /\ activeThreads'[q.thread] = NoRec /\ NoRec # r
        /\ \A t \in Threads : t # q.thread => activeThreads'[t] = activeThreads[t]
    BY <1>7, <2>1 DEF HoldInv, OthersTyped, Recs, NoRec
  <2>3. ~Live(p)
    BY <1>6 DEF Live
  <2>4. ASSUME NEW x \in Runs, x = q.currentRunId, Held(x)
        PROVE  Holds(q, x) /\ ~Holds(p, x)
    <3>1. CASE owing
      <4>1. Has(q, x) /\ Holds(q, x)
        BY <1>1, <2>4, <3>1 DEF Has, Holds, Current
      <4> QED BY <1>5, <3>1, <4>1
    <3>2. CASE ~owing
      <4>1. Left(q, x)
        BY <1>1, <2>4, <3>2, NamesAssumption DEF Left, Current
      <4> QED BY <1>9, <2>4, <4>1 DEF RegInv, Lefts
    <3> QED BY <3>1, <3>2
  <2>5. \A x \in Runs : \/ runToThread'[x] = runToThread[x] \/ ~Held(x)
                        \/ Holds(q, x) /\ ~Holds(p, x)
    BY <2>1, <2>4, ForgetOne
  <2>6. \A t \in Threads : \/ activeThreads'[t] = activeThreads[t]
                           \/ activeThreads'[t] = NoRec /\ activeThreads[t] = r /\ ~Live(p)
    BY <1>9, <2>2, <2>3
  <2>7. activeThreads'[q.thread] # r
    BY <2>2
  <2> HIDE DEF q
  <2> QED BY <1>2, <1>3, <1>4, <1>5, <2>5, <2>6, <2>7, OneReg DEF q
<1> QED BY <1>8, <1>9

\* A build is over: what becomes of the record, and of the one it replaces.
LEMMA BuildGoes ==
    ASSUME HoldInv, RegInv, OnceInv, NEW n \in Recs, rec[n].loop = "build", NEW p,
           Fits(p, rec[n]), p.loop # "gone",
           rec' = [r \in Recs |-> IF r = n THEN p
                                  ELSE IF r = rec[n].oldRec THEN Replaced(rec[r]) ELSE rec[r]]
    PROVE  /\ RecordsGo /\ rec'[n] = p
           /\ \A s \in Recs : rec'[s].loop = "gone" => rec[s].loop = "gone"
<1> DEFINE o == rec[n].oldRec
<1>1. o \in Recs => rec[o].loop = "rebuild"
  BY DEF HoldInv, OldInv, Recs, NoRec
<1>2. ASSUME o \in Recs
      PROVE  Fits(Replaced(rec[o]), rec[o]) /\ Replaced(rec[o]).loop = "read"
  <2>1. PICK m \in Recs : m = o
    BY <1>2
  <2> HIDE DEF o
  <2>2. /\ rec[m] \in RecType /\ Shape(rec[m]) /\ Apart(rec[m]) /\ Once(rec[m])
        /\ rec[m].loop = "rebuild" /\ rec[m].turnQueue = <<>>
    BY <1>1, <2>1, RecordIs DEF OnceInv, RegInv, Rebuilds
  <2>3. Fits(Replaced(rec[m]), rec[m])
    BY <2>2, ReplacedGoes
  <2>4. Replaced(rec[m]).loop = "read"
    BY <2>2 DEF Replaced, Once, RecType
  <2> QED BY <2>1, <2>3, <2>4
<1>3. rec'[n] = p
  OBVIOUS
<1>4. \A s \in Recs : s # n => rec'[s] = IF s = o THEN Replaced(rec[s]) ELSE rec[s]
  OBVIOUS
<1> HIDE DEF o
<1>5. \A s \in Recs : \/ rec'[s] = rec[s]
                      \/ Fits(rec'[s], rec[s]) /\ rec'[s].loop # "gone"
  BY <1>2, <1>3, <1>4
<1> QED BY <1>3, <1>5 DEF RecordsGo

\* A record is built, and takes over from the one it replaces.
LEMMA BuiltReg ==
    ASSUME HoldInv, RegInv, OnceInv, NEW n \in Recs, Built(n)
    PROVE  RegFine
<1> DEFINE q == rec[n]
           made == [q EXCEPT !.loop = "read", !.forRun = NoRun, !.oldRec = NoRec,
                             !.authRetried = q.oldRec # NoRec]
           p == IF q.dead THEN PullTurn(made)
                ELSE PullTurn([made EXCEPT !.turnQueue = Append(@, q.forRun)])
<1>1. q \in RecType /\ Shape(q) /\ Apart(q) /\ q.loop = "build"
  BY RecordIs DEF Built
<1>2. rec' = [r \in Recs |-> IF r = n THEN p
                             ELSE IF r = q.oldRec THEN Replaced(rec[r]) ELSE rec[r]]
  BY DEF Built
<1>3. UNCHANGED <<activeThreads, controls>>
  BY DEF Built, regVars
<1>4. PICK x \in Runs : x = q.forRun
  BY <1>1 DEF Shape
<1>5. \/ q.dead /\ Forget(x) /\ EmitError(x)
      \/ ~q.dead /\ runToThread' = [runToThread EXCEPT ![x] = q.thread] /\ UNCHANGED wireVars
  BY <1>4 DEF Built
<1>6. sentTo' = sentTo
  BY <1>5 DEF EmitError, wireVars
<1>7. q.currentRunId = NoRun
  BY <1>1 DEF RegInv, Sent, Shape
<1>8. Holds(q, x)
  BY <1>1, <1>4 DEF Holds, Has
<1>9. sentTo[x] = q.thread
  BY <1>8 DEF RegInv, InThread
<1> HIDE DEF q
<1>10. Fits(p, q)
  BY <1>1, <1>7, BuiltGoes
<1>11. p.loop = "read" /\ (q.dead => ~Holds(p, x))
  BY <1>1, <1>4, BuiltIs
<1> HIDE DEF p
<1>12. /\ RecordsGo /\ rec'[n] = p
       /\ \A s \in Recs : rec'[s].loop = "gone" => rec[s].loop = "gone"
  BY <1>1, <1>2, <1>10, <1>11, BuildGoes DEF q
<1>13. \A y \in Runs : \/ runToThread'[y] = runToThread[y] \/ ~Held(y)'
                       \/ runToThread'[y] = sentTo[y]
  <2>1. CASE q.dead
    <3>1. ~Held(x)'
      BY <1>3, <1>8, <1>11, <1>12, <2>1, LetGo DEF q
    <3>2. \A y \in Runs : runToThread'[y] = runToThread[y] \/ y = x
      BY <1>5, <2>1, ForgetOne
    <3> QED BY <3>1, <3>2
  <2>2. CASE ~q.dead
    BY <1>5, <1>9, <2>2 DEF HoldInv, OthersTyped
  <2> QED BY <2>1, <2>2
<1> QED BY <1>3, <1>6, <1>12, <1>13, RegShrink

\* A record cannot be built.
LEMMA BuildFailsReg ==
    ASSUME HoldInv, RegInv, OnceInv, NEW n \in Recs, BuildFails(n)
    PROVE  RegFine
<1> DEFINE q == rec[n]
           p == [q EXCEPT !.loop = "stuck"]
<1>1. q \in RecType /\ Shape(q) /\ Apart(q) /\ q.loop = "build"
  BY RecordIs DEF BuildFails
<1>2. rec' = [r \in Recs |-> IF r = n THEN p
                             ELSE IF r = q.oldRec THEN Replaced(rec[r]) ELSE rec[r]]
  BY DEF BuildFails
<1>3. controls' = controls
  BY DEF BuildFails, sideVars
<1>4. PICK x \in Runs : x = q.forRun
  BY <1>1 DEF Shape
<1>5. Forget(x) /\ EmitError(x) /\ sentTo' = sentTo
  BY <1>4 DEF BuildFails, EmitError
<1>6. Holds(q, x)
  BY <1>1, <1>4 DEF Holds, Has
<1>7. activeThreads[q.thread] = n
  BY <1>1, <1>6 DEF RegInv, AllRegistered, Live
<1>8. activeThreads' = activeThreads \/ activeThreads' = [activeThreads EXCEPT ![q.thread] = NoRec]
  BY DEF BuildFails
<1> HIDE DEF q
<1>9. Fits(p, q) /\ p.loop = "stuck" /\ ~Holds(p, x)
  BY <1>1, <1>4, StuckGoes, StuckIs DEF RecType
<1> HIDE DEF p
<1>10. /\ RecordsGo /\ rec'[n] = p
       /\ \A s \in Recs : rec'[s].loop = "gone" => rec[s].loop = "gone"
  BY <1>1, <1>2, <1>9, BuildGoes DEF q
<1>11. ~Held(x)'
  BY <1>3, <1>6, <1>9, <1>10, LetGo DEF q
<1>12. \A y \in Runs : runToThread'[y] = runToThread[y] \/ ~Held(y)'
  BY <1>5, <1>11, ForgetOne
<1>13. \A t \in Threads : \/ activeThreads'[t] = activeThreads[t]
                          \/ /\ activeThreads'[t] = NoRec
                             /\ \A s \in Recs : activeThreads[t] = s => ~Live(rec'[s])
  <2>1. ~Live(rec'[n])
    BY <1>9, <1>10 DEF Live
  <2>2. activeThreads \in [Threads -> Recs \cup {NoRec}]
    BY DEF HoldInv, OthersTyped
  <2> QED BY <1>7, <1>8, <2>1, <2>2
<1> QED BY <1>3, <1>5, <1>10, <1>12, <1>13, RegShrink

\* The control requests are answered, and the run is queued, or fails.
LEMMA ControlsAppliedReg ==
    ASSUME HoldInv, RegInv, OnceInv, NEW r \in Recs, NEW x \in Runs, ControlsApplied(r, x)
    PROVE  RegFine
<1>1. /\ <<r, x>> \in controls /\ controls' = controls \ {<<r, x>>}
      /\ activeThreads' = activeThreads
  BY DEF ControlsApplied, regVars
<1>2. /\ Held(x) /\ rec[r].loop # "free" /\ sentTo[x] = rec[r].thread
      /\ \A s \in Recs : ~Holds(rec[s], x) /\ <<s, x>> \notin controls'
  <2>1. Held(x)
    BY <1>1 DEF Held
  <2>2. \A s \in Recs : ~Holds(rec[s], x) /\ <<s, x>> \notin controls'
    BY <1>1 DEF HoldInv, Unique
  <2> QED BY <1>1, <2>1, <2>2 DEF HoldInv, Known, RegInv, InThread
<1>3. CASE rec[r].dead
  <2>1. Forget(x) /\ rec' = rec /\ sentTo' = sentTo
    BY <1>3 DEF ControlsApplied, EmitError
  <2>2. RecordsGo
    BY <2>1 DEF RecordsGo
  <2>3. ~Held(x)'
    BY <1>1, <2>2, LetGo
  <2>4. \A y \in Runs : runToThread'[y] = runToThread[y] \/ ~Held(y)'
    BY <2>1, <2>3, ForgetOne
  <2> QED BY <1>1, <2>1, <2>2, <2>4, RegShrink
<1>4. CASE ~rec[r].dead
  <2>1. rec' = [rec EXCEPT ![r] = Queued(rec[r], x)] /\ UNCHANGED <<runToThread, sentTo>>
    BY <1>4 DEF ControlsApplied, wireVars
  <2>2. \A y \in Runs : y # x /\ Held(y) => sentTo[y] # rec[r].thread
    BY <1>2 DEF RegInv, OneOpen
  <2>3. runToThread[x] = sentTo[x]
    BY <1>2 DEF RegInv, Routed
  <2> QED BY <1>1, <1>2, <1>4, <2>1, <2>2, <2>3, RegQueued
<1> QED BY <1>3, <1>4

\* An accepted run is that of a thread that has no other.
LEMMA NewReg ==
    ASSUME HoldInv, OnceInv, OneAtATime, NEW x \in Runs, NEW t \in Threads, Accept(x, t)
    PROVE  /\ sentTo'[x] = t /\ sentTo[x] = NoThread
           /\ \A y \in Runs : y # x => sentTo'[y] = sentTo[y]
           /\ \A y \in Runs : Held(y) => sentTo[y] # t
           /\ runToThread'[x] = t
           /\ \A y \in Runs : y # x => runToThread'[y] = runToThread[y]
<1>1. /\ sentTo' = [sentTo EXCEPT ![x] = t] /\ runToThread' = [runToThread EXCEPT ![x] = t]
      /\ sentTo[x] = NoThread /\ \A y \in Runs : sentTo[y] = t => ~Open(y)
  BY DEF Accept, MayAccept
<1>2. \A y \in Runs : Held(y) => Open(y)
  BY DEF HoldInv, Known, OnceInv, Open
<1> QED BY <1>1, <1>2 DEF HoldInv, OthersTyped

\* A chat goes to the record of its thread.
LEMMA ChatReusingReg ==
    ASSUME HoldInv, RegInv, OnceInv, OneAtATime,
           NEW x \in Runs, NEW t \in Threads, ChatReusing(x, t)
    PROVE  RegFine
<1>1. /\ sentTo'[x] = t /\ sentTo[x] = NoThread
      /\ \A y \in Runs : y # x => sentTo'[y] = sentTo[y]
      /\ \A y \in Runs : Held(y) => sentTo[y] # t
      /\ runToThread'[x] = t
      /\ \A y \in Runs : y # x => runToThread'[y] = runToThread[y]
  BY NewReg DEF ChatReusing
<1>2. \A s \in Recs : ~Holds(rec[s], x) /\ <<s, x>> \notin controls
  BY NewRun DEF ChatReusing
<1>3. PICK r \in Recs : r = activeThreads[t]
  BY DEF ChatReusing, Reusable, HoldInv, OthersTyped
<1>4. /\ rec[r].loop # "free" /\ ~rec[r].dead /\ rec[r].thread = t
      /\ rec' = [rec EXCEPT ![r] = Queued(rec[r], x)]
      /\ activeThreads' = activeThreads /\ controls' = controls
  BY <1>3 DEF ChatReusing, Reusable, HoldInv, Known, RegInv, Slots
<1> QED BY <1>1, <1>2, <1>4, RegQueued

\* A chat waits for control requests first.
LEMMA ChatChangingControlsReg ==
    ASSUME HoldInv, RegInv, OnceInv, OneAtATime,
           NEW x \in Runs, NEW t \in Threads, ChatChangingControls(x, t)
    PROVE  RegFine
<1>1. /\ sentTo'[x] = t /\ sentTo[x] = NoThread
      /\ \A y \in Runs : y # x => sentTo'[y] = sentTo[y]
      /\ \A y \in Runs : Held(y) => sentTo[y] # t
      /\ runToThread'[x] = t
      /\ \A y \in Runs : y # x => runToThread'[y] = runToThread[y]
  BY NewReg DEF ChatChangingControls
<1>2. \A s \in Recs : ~Holds(rec[s], x) /\ <<s, x>> \notin controls
  BY NewRun DEF ChatChangingControls
<1>3. PICK r \in Recs : r = activeThreads[t]
  BY DEF ChatChangingControls, Reusable, HoldInv, OthersTyped
<1>4. /\ rec[r].thread = t /\ rec' = rec
      /\ activeThreads' = activeThreads /\ controls' = controls \cup {<<r, x>>}
  BY <1>3 DEF ChatChangingControls, Reusable, RegInv, Slots
<1>5. \A y \in Runs : Held(y)' => Held(y) \/ y = x
  BY <1>4 DEF Held
<1>6. InThread'
  <2> SUFFICES ASSUME NEW s \in Recs, NEW y \in Runs,
                      Holds(rec[s], y) \/ <<s, y>> \in controls'
               PROVE  sentTo'[y] = rec[s].thread
    BY <1>4 DEF InThread
  <2>1. CASE y = x
    <3>1. s = r
      BY <1>2, <1>4, <2>1
    <3> QED BY <1>1, <1>4, <2>1, <3>1
  <2>2. CASE y # x
    <3>1. Holds(rec[s], y) \/ <<s, y>> \in controls
      BY <1>4, <2>2
    <3> QED BY <1>1, <2>2, <3>1 DEF RegInv, InThread
  <2> QED BY <2>1, <2>2
<1>7. OneOpen'
  <2>1. \A y \in Runs : y # x /\ Held(y)' => sentTo'[y] = sentTo[y] /\ Held(y) /\ sentTo[y] # sentTo'[x]
    BY <1>1, <1>5
  <2> QED BY <2>1 DEF RegInv, OneOpen
<1>8. Slots' /\ AllRegistered' /\ Rebuilds'
  BY <1>4 DEF RegInv, Slots, AllRegistered, Rebuilds
<1>9. sentTo'[x] # NoThread
  BY <1>1, NamesAssumption
<1>10. Sent'
  BY <1>1, <1>4, <1>9 DEF RegInv, Sent
<1>11. Lefts'
  <2> SUFFICES ASSUME NEW s \in Recs, NEW y \in Runs, Left(rec[s], y), Held(y)'
               PROVE  rec[s].loop = "read" /\ ~rec[s].turnActive /\ activeThreads[rec[s].thread] # s
    BY <1>4 DEF Lefts
  <2>1. sentTo[y] # NoThread
    BY DEF RegInv, Sent, Left
  <2>2. Held(y)
    BY <1>1, <1>5, <2>1
  <2> QED BY <2>2 DEF RegInv, Lefts
<1>12. Routed'
  BY <1>1, <1>5 DEF RegInv, Routed
<1>13. Plains => Plains'
  BY <1>4 DEF Plains
<1> QED BY <1>6, <1>7, <1>8, <1>10, <1>11, <1>12, <1>13 DEF RegFine, RegInv

\* A chat begins a record.
LEMMA ChatStartingReg ==
    ASSUME HoldInv, RegInv, OnceInv, OneAtATime,
           NEW x \in Runs, NEW t \in Threads, ChatStarting(x, t)
    PROVE  RegFine
<1>1. /\ sentTo'[x] = t /\ sentTo[x] = NoThread
      /\ \A y \in Runs : y # x => sentTo'[y] = sentTo[y]
      /\ \A y \in Runs : Held(y) => sentTo[y] # t
      /\ runToThread'[x] = t
      /\ \A y \in Runs : y # x => runToThread'[y] = runToThread[y]
  BY NewReg DEF ChatStarting
<1>2. \A s \in Recs : ~Holds(rec[s], x) /\ <<s, x>> \notin controls
  BY NewRun DEF ChatStarting
<1>3. PICK policy \in Policies : EnsureThread(rec, t, policy, x, NoRec)
  BY DEF ChatStarting
<1>4. policy \in AllPolicies /\ controls' = controls /\ NoRec \notin Recs
  BY EngineAssumption DEF ChatStarting, NoRec, Recs
<1>5. \A s \in Recs : ~(Live(rec[s]) /\ rec[s].thread = t)
  <2> SUFFICES ASSUME NEW s \in Recs, Live(rec[s]), rec[s].thread = t
               PROVE  FALSE
    OBVIOUS
  <2>1. activeThreads[t] = s
    BY DEF RegInv, AllRegistered
  <2>2. rec[s].dead
    BY <1>4, <2>1 DEF ChatStarting, Reusable
  <2>3. PICK y \in Runs : Holds(rec[s], y)
    BY <2>2 DEF Live
  <2>4. Held(y) /\ sentTo[y] = t
    BY <2>3 DEF Held, RegInv, InThread
  <2> QED BY <1>1, <2>4
<1>6. rec \in [Recs -> RecType]
  BY DEF HoldInv, Shapes
<1>7. NoRec \in Recs \cup {NoRec}
  OBVIOUS
<1> QED BY <1>1, <1>2, <1>3, <1>4, <1>5, <1>6, <1>7, RegEnsure

\* The fresh token is there, and the record is replaced.
LEMMA TokenArrivesReg ==
    ASSUME HoldInv, RegInv, NEW r \in Recs, TokenArrives(r)
    PROVE  RegFine
<1> DEFINE q == rec[r]
           w == Torn(q)
           p == [w EXCEPT !.loop = "rebuild"]
           recs == [rec EXCEPT ![r] = p]
<1>1. q \in RecType /\ Shape(q) /\ Apart(q) /\ q.loop = "token"
  BY RecordIs DEF TokenArrives
<1>2. PICK x \in Runs : x = q.got
  BY <1>1 DEF Shape
<1>3. EnsureThread(recs, q.thread, q.policy, x, r)
  BY <1>2 DEF TokenArrives
<1>4. UNCHANGED <<runToThread, controls, sentTo>>
  BY DEF TokenArrives, sideVars, wireVars
<1>5. Holds(q, x) /\ Held(x) /\ q.thread \in Threads /\ q.policy \in AllPolicies
  BY <1>1, <1>2 DEF Holds, Has, Held, RegInv, Sent, RecType
<1>6. /\ sentTo[x] = q.thread /\ runToThread[x] = q.thread
      /\ \A y \in Runs : y # x /\ Held(y) => sentTo[y] # q.thread
  BY <1>5 DEF RegInv, InThread, Routed, OneOpen
<1>7. activeThreads[q.thread] = r
  BY <1>1, <1>5 DEF RegInv, AllRegistered, Live
<1>8. q.turnQueue = <<>>
  <2> SUFFICES ASSUME q.turnQueue # <<>> PROVE FALSE
    OBVIOUS
  <2>1. q.turnQueue \in Seq(Runs)
    BY <1>1 DEF RecType
  <2>2. 1 \in DOMAIN q.turnQueue /\ q.turnQueue[1] \in Runs
    BY <2>1
  <2>3. PICK y \in Runs : y = q.turnQueue[1]
    BY <2>2
  <2>4. Holds(q, y)
    BY <2>2, <2>3 DEF Holds, Waiting
  <2>5. Held(y) /\ sentTo[y] = q.thread
    BY <2>4 DEF Held, RegInv, InThread
  <2>6. Has(q, x)
    BY <1>1, <1>2 DEF Has
  <2>7. y # x
    BY <1>1, <2>2, <2>3, <2>6 DEF Apart
  <2> QED BY <1>6, <2>5, <2>7
<1> HIDE DEF q
<1>9. /\ Keeps(p, q) /\ ~Holds(p, x)
  BY <1>1, <1>2, RebuildIs
<1>10. /\ w \in RecType /\ w.thread = q.thread /\ w.policy = q.policy /\ w.dead
       /\ w.turnQueue = q.turnQueue /\ w.currentRunId = q.currentRunId
       /\ w.gen = "none" => q.gen = "none"
  BY <1>1, TornIs DEF SameTurn
<1> HIDE DEF w
<1>11. /\ p.thread = q.thread /\ p.policy = q.policy /\ p.dead /\ p.loop = "rebuild"
       /\ p.turnQueue = <<>> /\ p.currentRunId = q.currentRunId /\ p.gen # "none"
  BY <1>1, <1>8, <1>10 DEF RecType, Shape
<1> HIDE DEF p
<1>12. Rebuilt(p, q)
  <2>1. Plain(q) => Plain(p)
    BY <1>11 DEF Plain
  <2> QED BY <1>1, <1>9, <1>11, <2>1 DEF Rebuilt, Keeps
<1>13. /\ recs \in [Recs -> RecType] /\ recs[r] = p
       /\ \A s \in Recs : s # r => recs[s] = rec[s]
  BY <1>9 DEF HoldInv, Shapes, Keeps
<1> HIDE DEF recs
<1>14. \A s \in Recs : recs[s] = rec[s] \/ Rebuilt(recs[s], rec[s])
  BY <1>12, <1>13 DEF q
<1>15. \A s \in Recs : Live(rec[s]) /\ rec[s].thread = q.thread => recs[s].loop = "rebuild"
  BY <1>7, <1>11, <1>13 DEF RegInv, AllRegistered
<1>16. \A s \in Recs : recs[s] # rec[s] => rec[s].thread = q.thread
  BY <1>13 DEF q
<1>17. \A s \in Recs : ~Holds(recs[s], x) /\ <<s, x>> \notin controls
  BY <1>5, <1>9, <1>13 DEF HoldInv, Unique, q
<1>18. Plains => q.policy = "persist"
  BY DEF Plains, Plain, q
<1> QED BY <1>3, <1>4, <1>5, <1>6, <1>13, <1>14, <1>15, <1>16, <1>17, <1>18, RegEnsure

\* Every step keeps the registries, where the host waits for a run to end before it
\* sends the next one to its thread.
LEMMA RegNext ==
    ASSUME OneAtATime, "throwAuth" \notin Faults, "limit" \notin Faults,
           HoldInv, OnceInv, RegInv, Next
    PROVE  RegFine
<1>1. CASE UserStep
  <2>1. \A x \in Runs, t \in Threads :
          ChatChangingControls(x, t) \/ ChatReusing(x, t) \/ ChatStarting(x, t) => RegFine
    BY ChatChangingControlsReg, ChatReusingReg, ChatStartingReg
  <2>2. \A x \in Runs : Cancel(x) => RegFine
    BY CancelReg
  <2>3. ASSUME NEW t \in Threads, CloseThread(t) PROVE RegFine
    <3>1. PICK r \in Recs : r = activeThreads[t]
      BY <2>3 DEF CloseThread, HoldInv, OthersTyped
    <3>2. /\ rec[r].loop # "free" /\ rec' = [rec EXCEPT ![r] = Torn(rec[r])]
          /\ UNCHANGED <<activeThreads, runToThread, controls, wireVars>>
      BY <2>3, <3>1 DEF CloseThread, HoldInv, Known
    <3> QED BY <3>2, TornReg
  <2>4. Shutdown => RegFine
    BY ShutdownReg
  <2> QED BY <1>1, <2>1, <2>2, <2>3, <2>4 DEF UserStep
<1>2. ASSUME NEW r \in Recs, RecStep(r) PROVE RegFine
  <2>1. Continues(r) => RegFine
    <3>1. Built(r) \/ Settle(r) => RegFine
      BY BuiltReg, SettleReg
    <3>2. TokenArrives(r) \/ TokenTimeout(r) \/ LoopEnds(r) \/ IdleTimeout(r) => RegFine
      BY TokenArrivesReg, TokenTimeoutReg, LoopEndsReg, IdleTimeoutReg
    <3>3. \A x \in Runs : Decide(r, x) => RegFine
      BY DecideReg
    <3> QED BY <3>1, <3>2, <3>3 DEF Continues
  <2>2. ReaperFires(r) => RegFine
    <3> SUFFICES ASSUME ReaperFires(r) PROVE RegFine
      OBVIOUS
    <3>1. /\ rec[r].loop # "free" /\ rec' = [rec EXCEPT ![r] = Torn(rec[r])]
          /\ UNCHANGED <<activeThreads, runToThread, controls, wireVars>>
      BY DEF ReaperFires, sideVars
    <3> QED BY <3>1, TornReg
  <2>3. Backstop(r) \/ TaskEvent(r) \/ GateOpens(r) \/ BackgroundResult(r) => RegFine
    BY BackstopReg, TaskEventReg, GateOpensReg, BackgroundResultReg
  <2>4. \A kind \in {"ok", "error", "auth"} : Result(r, kind) => RegFine
    BY ResultReg
  <2>5. ~RateLimited(r) /\ ~StreamAuth(r)
    BY DEF RateLimited, StreamAuth
  <2>6. BuildFails(r) \/ LoopEnds(r) => RegFine
    BY BuildFailsReg, LoopEndsReg
  <2>7. \A x \in Runs : ControlsApplied(r, x) => RegFine
    BY ControlsAppliedReg
  <2> QED BY <1>2, <2>1, <2>2, <2>3, <2>4, <2>5, <2>6, <2>7 DEF RecStep
<1> QED BY <1>1, <1>2 DEF Next

\* At the start nothing is registered.
LEMMA RegInit == Init => OnceInv /\ RegInv /\ Plains
<1> SUFFICES ASSUME Init PROVE OnceInv /\ RegInv /\ Plains
  OBVIOUS
<1>1. /\ Blank.turnQueue = <<>> /\ Blank.gen = "none" /\ ~Blank.dead
      /\ ~Blank.turnActive /\ Blank.loop = "free" /\ ~Blank.closeRequested
      /\ Blank.currentRunId = NoRun /\ Blank.policy = "persist"
  BY DEF Blank
<1>2. \A r \in Recs : rec[r] = Blank
  BY DEF Init
<1>3. /\ \A x \in Runs : ~Holds(Blank, x) /\ ~Left(Blank, x)
      /\ ~Live(Blank) /\ Plain(Blank) /\ Once(Blank)
  BY <1>1 DEF Holds, Waiting, Has, Current, Left, Live, Plain, Once
<1>4. \A x \in Runs : ~Held(x)
  BY <1>2, <1>3 DEF Held, Init
<1>5. OnceInv
  BY <1>2, <1>3 DEF Init, OnceInv
<1>6. InThread /\ OneOpen /\ Slots /\ AllRegistered /\ Rebuilds
  BY <1>1, <1>2, <1>3, <1>4 DEF Init, InThread, OneOpen, Slots, AllRegistered, Rebuilds
<1>7. Sent /\ Lefts /\ Routed
  BY <1>1, <1>2, <1>3, <1>4, NamesAssumption DEF Sent, Lefts, Routed
<1> QED BY <1>2, <1>3, <1>5, <1>6, <1>7 DEF RegInv, Plains

\* The three invariants together, and the empty queues, through every step.
LEMMA RegSafe ==
    ASSUME OneAtATime, "throwAuth" \notin Faults, "limit" \notin Faults,
           HoldInv, OnceInv, RegInv, [Next]_vars
    PROVE  /\ HoldInv' /\ OnceInv' /\ RegInv'
           /\ Policies = {"persist"} /\ Plains => Plains'
<1>1. CASE Next
  <2>1. Fine /\ RegFine
    BY <1>1, NextStep, RegNext
  <2>2. OnceInv' /\ HoldInv'
    BY <2>1, OnceNext DEF Fine
  <2> QED BY <2>1, <2>2 DEF RegFine
<1>2. CASE UNCHANGED vars
  <2>1. HoldInv' /\ \A x \in Runs : Held(x)' <=> Held(x)
    BY <1>2, HoldStutter
  <2>2. /\ rec' = rec /\ controls' = controls /\ activeThreads' = activeThreads
        /\ runToThread' = runToThread /\ sentTo' = sentTo /\ terminals' = terminals
    BY <1>2 DEF vars, wireVars
  <2>3. OnceInv'
    BY <2>1, <2>2 DEF OnceInv
  <2>4. InThread' /\ OneOpen' /\ Slots' /\ AllRegistered'
    BY <2>1, <2>2 DEF RegInv, InThread, OneOpen, Slots, AllRegistered
  <2>5. Rebuilds' /\ Sent' /\ Lefts' /\ Routed'
    BY <2>1, <2>2 DEF RegInv, Rebuilds, Sent, Lefts, Routed
  <2>6. Plains => Plains'
    BY <2>2 DEF Plains
  <2> QED BY <2>1, <2>3, <2>4, <2>5, <2>6 DEF RegInv
<1> QED BY <1>1, <1>2

\* The registries find what they are asked for: a slot holds a record of its thread
\* whose loop goes on, and a turn that runs unreported is found by the chat/cancel of
\* its run, where the host sends a thread one run at a time and neither of the two
\* faults happens that report a turn before it ends.
THEOREM RegistriesFind ==
    ASSUME OneAtATime, "throwAuth" \notin Faults, "limit" \notin Faults
    PROVE  Spec => []RegistryFinds
<1>1. Init => HoldInv /\ OnceInv /\ RegInv
  BY HoldInit, RegInit
<1>2. HoldInv /\ OnceInv /\ RegInv /\ [Next]_vars => (HoldInv /\ OnceInv /\ RegInv)'
  BY RegSafe
<1>3. HoldInv /\ RegInv => RegistryFinds
  <2> SUFFICES ASSUME HoldInv, RegInv PROVE RegistryFinds
    OBVIOUS
  <2>1. \A t \in Threads : activeThreads[t] # NoRec =>
            rec[activeThreads[t]].thread = t
            /\ rec[activeThreads[t]].loop \notin {"free", "gone"}
    BY DEF HoldInv, Known, RegInv, Slots
  <2>2. ASSUME NEW r \in Recs, rec[r].loop = "read", ~rec[r].dead, rec[r].turnActive,
               ~rec[r].terminalEmitted
        PROVE  /\ runToThread[rec[r].currentRunId] = rec[r].thread
               /\ activeThreads[rec[r].thread] = r
    <3>1. PICK x \in Runs : x = rec[r].currentRunId
      BY <2>2 DEF HoldInv, Shapes, Shape
    <3>2. Holds(rec[r], x) /\ Held(x)
      BY <2>2, <3>1 DEF Holds, Has, Current, Held
    <3>3. sentTo[x] = rec[r].thread /\ runToThread[x] = sentTo[x]
      BY <3>2 DEF RegInv, InThread, Routed
    <3>4. activeThreads[rec[r].thread] = r
      BY <2>2 DEF RegInv, AllRegistered, Live
    <3> QED BY <3>1, <3>3, <3>4
  <2> QED BY <2>1, <2>2 DEF RegistryFinds
<1> QED BY <1>1, <1>2, <1>3, PTL DEF Spec

-----------------------------------------------------------------------------
(* What is left to the SDK *)

\* What a record whose loop is over is at work on: nothing, what it was, or a run whose
\* control requests were out, if nobody closed it.
Drift(s) ==
    \/ rec'[s].currentRunId = NoRun
    \/ /\ rec[s].loop = "gone" /\ rec'[s].dead = rec[s].dead
       /\ rec'[s].currentRunId = rec[s].currentRunId
    \/ ~rec'[s].dead /\ <<s, rec'[s].currentRunId>> \in controls

\* A record is of one of the threads.
Named == \A r \in Recs : rec[r].loop # "free" => rec[r].thread \in Threads

\* A step keeps the slots, and leaves only accepted runs to the SDK.
GoneFine ==
    /\ Slots' /\ Named'
    /\ \A s \in Recs : rec'[s].loop = "gone" => Drift(s)
    /\ \A s \in Recs, x \in Runs :
          <<s, x>> \in controls' => <<s, x>> \in controls \/ sentTo[x] = NoThread

\* The loop of a record goes on.
Still(p, q) == q.loop # "free" /\ p.thread = q.thread /\ p.loop # "gone"

\* Some records change, and their loops go on.
LEMMA StillGo ==
    ASSUME HoldInv, Slots, Named, controls' \subseteq controls,
           \A t \in Threads : activeThreads'[t] \in {activeThreads[t], NoRec},
           \A s \in Recs : rec'[s] = rec[s] \/ Still(rec'[s], rec[s])
    PROVE  GoneFine
<1>1. Slots'
  <2> SUFFICES ASSUME NEW t \in Threads, activeThreads'[t] # NoRec
               PROVE  /\ rec'[activeThreads'[t]].thread = t
                      /\ rec'[activeThreads'[t]].loop # "gone"
    BY DEF Slots
  <2>1. PICK a \in Recs : a = activeThreads[t] /\ activeThreads'[t] = a
    BY DEF HoldInv, OthersTyped
  <2>2. rec[a].thread = t /\ rec[a].loop # "gone"
    BY <2>1 DEF Slots
  <2> QED BY <2>1, <2>2 DEF Still
<1>2. \A s \in Recs : rec'[s].loop = "gone" => Drift(s)
  BY DEF Still, Drift
<1>3. Named'
  BY DEF Named, Still
<1> QED BY <1>1, <1>2, <1>3 DEF GoneFine

\* One record changes, and its loop goes on.
LEMMA OneStill ==
    ASSUME HoldInv, Slots, Named, controls' \subseteq controls, activeThreads' = activeThreads,
           NEW r \in Recs, NEW p, rec' = [rec EXCEPT ![r] = p], Still(p, rec[r])
    PROVE  GoneFine
<1>1. rec'[r] = p /\ \A s \in Recs : s # r => rec'[s] = rec[s]
  BY DEF HoldInv, Shapes
<1> QED BY <1>1, StillGo

\* A record that is torn down.
LEMMA TornStill ==
    ASSUME NEW q \in RecType, q.loop \notin {"free", "gone"}
    PROVE  Still(Torn(q), q)
BY TornIs DEF Still

\* A record that is torn down with its turn reported.
LEMMA ReportedStill ==
    ASSUME NEW q \in RecType, q.loop \notin {"free", "gone"}
    PROVE  Still(Torn([q EXCEPT !.terminalEmitted = TRUE]), q)
<1> DEFINE w == [q EXCEPT !.terminalEmitted = TRUE]
<1>1. w \in RecType /\ w.loop = q.loop /\ w.thread = q.thread
  BY DEF RecType
<1> HIDE DEF w
<1>2. Torn(w).loop = w.loop /\ Torn(w).thread = w.thread
  BY <1>1, TornIs
<1> QED BY <1>1, <1>2 DEF Still, w

\* A record whose turn is settled.
LEMMA SettledStill ==
    ASSUME NEW q \in RecType, q.loop # "free"
    PROVE  Still(Settled(q), q)
<1> DEFINE w == [q EXCEPT !.turnActive = FALSE, !.terminalEmitted = TRUE,
                          !.currentRunId = NoRun, !.loop = "read",
                          !.got = NoRun, !.kind = "ok"]
<1>1. w \in RecType /\ w.loop = "read" /\ w.thread = q.thread
  BY ZenonT(30) DEF RecType
<1>2. Settled(q) = Release(w)
  BY DEF Settled
<1> HIDE DEF w
<1>3. Release(w).loop = w.loop /\ Release(w).thread = w.thread
  BY <1>1, ReleaseIs DEF SameLife
<1> QED BY <1>1, <1>2, <1>3 DEF Still

\* A registered record is not over.
LEMMA SlotsHold ==
    ASSUME HoldInv, Slots, NEW r \in Registered
    PROVE  r \in Recs /\ rec[r] \in RecType /\ rec[r].loop \notin {"free", "gone"}
BY DEF HoldInv, OthersTyped, Shapes, Known, Slots, Registered

\* What the user asks of the registered records.
LEMMA UserStill ==
    ASSUME HoldInv, Slots, Named
    PROVE  /\ \A x \in Runs : Cancel(x) => GoneFine
           /\ \A t \in Threads : CloseThread(t) => GoneFine
           /\ Shutdown => GoneFine
<1>1. ASSUME NEW x \in Runs, Cancel(x) PROVE GoneFine
  <2> DEFINE r == activeThreads[runToThread[x]]
             q == rec[r]
  <2>1. /\ runToThread[x] # NoThread /\ r # NoRec
        /\ UNCHANGED <<activeThreads, controls>>
    BY <1>1 DEF Cancel
  <2>2. r \in Registered
    BY <2>1 DEF HoldInv, OthersTyped, Registered
  <2>3. r \in Recs /\ q \in RecType /\ q.loop \notin {"free", "gone"}
    BY <2>2, SlotsHold
  <2>4. \/ rec' = [rec EXCEPT ![r] = [q EXCEPT !.cancelRequested = TRUE,
                                             !.awaitingDecision = q.awaitingDecision - 1]]
        \/ rec' = [rec EXCEPT ![r] = [q EXCEPT !.cancelRequested = TRUE]]
    BY <1>1, <2>3 DEF Cancel, HoldInv, Shapes
  <2> HIDE DEF r
  <2>5. /\ Still([q EXCEPT !.cancelRequested = TRUE,
                         !.awaitingDecision = q.awaitingDecision - 1], q)
        /\ Still([q EXCEPT !.cancelRequested = TRUE], q)
    BY <2>3 DEF Still, RecType
  <2> QED BY <2>1, <2>3, <2>4, <2>5, OneStill
<1>2. ASSUME NEW t \in Threads, CloseThread(t) PROVE GoneFine
  <2>1. PICK r \in Registered : r = activeThreads[t]
    BY <1>2 DEF CloseThread, HoldInv, OthersTyped, Registered
  <2>2. r \in Recs /\ Still(Torn(rec[r]), rec[r])
    BY SlotsHold, TornStill
  <2>3. rec' = [rec EXCEPT ![r] = Torn(rec[r])] /\ UNCHANGED <<activeThreads, controls>>
    BY <1>2, <2>1, <2>2 DEF CloseThread, HoldInv, Shapes
  <2> QED BY <2>2, <2>3, OneStill
<1>3. ASSUME Shutdown PROVE GoneFine
  <2>1. \A s \in Recs : rec'[s] = rec[s] \/ Still(rec'[s], rec[s])
    BY <1>3, SlotsHold, TornStill DEF Shutdown
  <2>2. UNCHANGED <<activeThreads, controls>>
    BY <1>3 DEF Shutdown
  <2> QED BY <2>1, <2>2, StillGo
<1> QED BY <1>1, <1>2, <1>3

\* What the query of a record yields, and its timers.
LEMMA QueryStill ==
    ASSUME HoldInv, OnceInv, Slots, Named, NEW r \in Recs
    PROVE  /\ TaskEvent(r) \/ GateOpens(r) \/ BackgroundResult(r) => GoneFine
           /\ \A kind \in {"ok", "error", "auth"} : Result(r, kind) => GoneFine
           /\ Settle(r) \/ IdleTimeout(r) \/ ReaperFires(r) => GoneFine
           /\ TokenTimeout(r) => GoneFine
<1> DEFINE q == rec[r]
<1>1. q \in RecType
  BY RecordIs
<1>2. TaskEvent(r) => GoneFine
  <2> SUFFICES ASSUME TaskEvent(r) PROVE GoneFine
    OBVIOUS
  <2>1. /\ rec' = [rec EXCEPT ![r] = [q EXCEPT !.background = ~q.background]]
        /\ q.loop = "read" /\ UNCHANGED <<activeThreads, controls>>
    BY DEF TaskEvent, sideVars, HoldInv, Shapes
  <2>2. Still([q EXCEPT !.background = ~q.background], q)
    BY <1>1, <2>1 DEF Still, RecType
  <2> QED BY <2>1, <2>2, OneStill
<1>3. GateOpens(r) => GoneFine
  <2> SUFFICES ASSUME GateOpens(r) PROVE GoneFine
    OBVIOUS
  <2> DEFINE p == [q EXCEPT !.asked = TRUE, !.awaitingDecision = q.awaitingDecision + 1]
  <2>1. /\ rec' = [rec EXCEPT ![r] = p]
        /\ q.loop = "read" /\ UNCHANGED <<activeThreads, controls>>
    BY <1>1 DEF GateOpens, RecType
  <2>2. Still(p, q)
    BY <1>1, <2>1 DEF Still, RecType
  <2> QED BY <2>1, <2>2, OneStill
<1>4. BackgroundResult(r) => GoneFine
  <2> SUFFICES ASSUME BackgroundResult(r) PROVE GoneFine
    OBVIOUS
  <2>1. /\ rec' = [rec EXCEPT ![r] = [q EXCEPT !.owed = Tail(q.owed)]]
        /\ q.loop = "read" /\ UNCHANGED <<activeThreads, controls>>
    BY DEF BackgroundResult, sideVars, HoldInv, Shapes
  <2>2. Still([q EXCEPT !.owed = Tail(q.owed)], q)
    BY <1>1, <2>1 DEF Still, RecType
  <2> QED BY <2>1, <2>2, OneStill
<1>5. ASSUME NEW kind \in {"ok", "error", "auth"}, Result(r, kind) PROVE GoneFine
  <2> DEFINE p == [q EXCEPT !.loop = "usage", !.kind = kind, !.got = Head(q.owed),
                            !.owed = Tail(q.owed),
                            !.closeRequested =
                               q.closeRequested \/ q.policy = "closeAfterResult"]
  <2>1. /\ rec' = [rec EXCEPT ![r] = p]
        /\ q.loop = "read" /\ UNCHANGED <<activeThreads, controls>>
    BY <1>1, <1>5 DEF Result, sideVars, RecType
  <2>2. Still(p, q)
    BY <1>1, <2>1 DEF Still, RecType
  <2> QED BY <2>1, <2>2, OneStill
<1>6. Settle(r) => GoneFine
  <2> SUFFICES ASSUME Settle(r) PROVE GoneFine
    OBVIOUS
  <2> DEFINE p == [q EXCEPT !.loop = "token", !.got = q.currentRunId, !.turnActive = FALSE,
                            !.terminalEmitted = TRUE, !.authRetried = TRUE,
                            !.caught = FALSE]
  <2>1. /\ rec' = [rec EXCEPT ![r] = Settled(q)] \/ rec' = [rec EXCEPT ![r] = p]
        /\ q.loop = "usage" /\ UNCHANGED <<activeThreads, controls>>
    BY DEF Settle, sideVars
  <2>2. Still(Settled(q), q)
    BY <1>1, <2>1, SettledStill
  <2>3. Still(p, q)
    BY <1>1, <2>1 DEF Still, RecType
  <2> QED BY <2>1, <2>2, <2>3, OneStill
<1>7. IdleTimeout(r) => GoneFine
  <2> SUFFICES ASSUME IdleTimeout(r) PROVE GoneFine
    OBVIOUS
  <2>1. /\ rec' = [rec EXCEPT ![r] = Torn([q EXCEPT !.terminalEmitted = TRUE])]
        /\ q.loop \notin {"free", "gone"} /\ UNCHANGED <<activeThreads, controls>>
    BY DEF IdleTimeout, sideVars
  <2>2. Still(Torn([q EXCEPT !.terminalEmitted = TRUE]), q)
    BY <1>1, <2>1, ReportedStill
  <2> QED BY <2>1, <2>2, OneStill
<1>8. ReaperFires(r) => GoneFine
  <2> SUFFICES ASSUME ReaperFires(r) PROVE GoneFine
    OBVIOUS
  <2>1. /\ rec' = [rec EXCEPT ![r] = Torn(q)]
        /\ q.loop \notin {"free", "gone"} /\ UNCHANGED <<activeThreads, controls>>
    BY DEF ReaperFires, sideVars
  <2>2. Still(Torn(q), q)
    BY <1>1, <2>1, TornStill
  <2> QED BY <2>1, <2>2, OneStill
<1>9. TokenTimeout(r) => GoneFine
  <2> SUFFICES ASSUME TokenTimeout(r) PROVE GoneFine
    OBVIOUS
  <2>1. q.loop = "token" /\ ~q.caught
    BY DEF TokenTimeout, OnceInv, Once
  <2>2. rec' = [rec EXCEPT ![r] = Settled(q)] /\ UNCHANGED <<activeThreads, controls>>
    BY <2>1 DEF TokenTimeout, sideVars
  <2>3. Still(Settled(q), q)
    BY <1>1, <2>1, SettledStill
  <2> QED BY <2>2, <2>3, OneStill
<1> QED BY <1>2, <1>3, <1>4, <1>5, <1>6, <1>7, <1>8, <1>9

\* The grace period of a cancelled turn is over.
LEMMA BackstopStill ==
    ASSUME HoldInv, Slots, Named, NEW r \in Recs, Backstop(r)
    PROVE  GoneFine
<1> DEFINE q == rec[r]
           w == [q EXCEPT !.terminalEmitted = TRUE, !.turnActive = FALSE,
                          !.currentRunId = NoRun]
<1>1. q \in RecType /\ q.turnActive /\ activeThreads[q.thread] = r
  BY RecordIs DEF Backstop
<1>2. q.loop # "free"
  BY <1>1, BlankIs DEF HoldInv, Shapes, Shape
<1>3. q.loop # "gone"
  <2>1. r # NoRec
    BY DEF Recs, NoRec
  <2> QED BY <1>1, <1>2, <2>1 DEF Slots, Named
<1>4. /\ \/ rec' = [rec EXCEPT ![r] = Release(w)]
         \/ rec' = [rec EXCEPT ![r] = Torn([q EXCEPT !.terminalEmitted = TRUE])]
      /\ UNCHANGED <<activeThreads, controls>>
  BY DEF Backstop, sideVars
<1>5. Still(Torn([q EXCEPT !.terminalEmitted = TRUE]), q)
  BY <1>1, <1>2, <1>3, ReportedStill
<1>6. Still(Release(w), q)
  <2> HIDE DEF q
  <2>1. q \in RecType
    BY <1>1
  <2>2. w \in RecType
    BY <2>1 DEF RecType
  <2>3. w.loop = q.loop /\ w.thread = q.thread
    BY <2>1 DEF RecType
  <2> HIDE DEF w
  <2>4. Release(w).loop = w.loop /\ Release(w).thread = w.thread
    BY <2>2, ReleaseIs DEF SameLife
  <2> QED BY <1>2, <1>3, <2>3, <2>4 DEF Still
<1> QED BY <1>4, <1>5, <1>6, OneStill

\* One record changes, and its loop is over.
LEMMA OneGone ==
    ASSUME HoldInv, Slots, Named, controls' \subseteq controls,
           \A t \in Threads : activeThreads'[t] \in {activeThreads[t], NoRec},
           NEW r \in Recs, NEW p, rec' = [rec EXCEPT ![r] = p],
           rec[r].loop # "free", p.thread = rec[r].thread, activeThreads'[p.thread] # r,
           Drift(r)
    PROVE  GoneFine
<1>1. rec'[r] = p /\ \A s \in Recs : s # r => rec'[s] = rec[s]
  BY DEF HoldInv, Shapes
<1>2. Slots'
  <2> SUFFICES ASSUME NEW t \in Threads, activeThreads'[t] # NoRec
               PROVE  /\ rec'[activeThreads'[t]].thread = t
                      /\ rec'[activeThreads'[t]].loop # "gone"
    BY DEF Slots
  <2>1. PICK a \in Recs : a = activeThreads[t] /\ activeThreads'[t] = a
    BY DEF HoldInv, OthersTyped
  <2>2. rec[a].thread = t /\ rec[a].loop # "gone"
    BY <2>1 DEF Slots
  <2>3. a # r
    BY <2>1, <2>2
  <2> QED BY <1>1, <2>1, <2>2, <2>3
<1>3. \A s \in Recs : rec'[s].loop = "gone" => Drift(s)
  BY <1>1 DEF Drift
<1>4. Named'
  BY <1>1 DEF Named
<1> QED BY <1>2, <1>3, <1>4 DEF GoneFine

\* The loop of a record ends.
LEMMA LoopEndsStill ==
    ASSUME HoldInv, Slots, Named, NEW r \in Recs, LoopEnds(r)
    PROVE  GoneFine
<1> DEFINE q == rec[r]
           w == [q EXCEPT !.terminalEmitted = TRUE, !.turnActive = FALSE]
<1>1. q \in RecType /\ q.loop = "read"
  BY RecordIs DEF LoopEnds
<1>2. w \in RecType /\ w.thread = q.thread
  BY ZenonT(30), <1>1 DEF RecType
<1>3. \/ rec' = [rec EXCEPT ![r] = Gone(Release(w))]
      \/ rec' = [rec EXCEPT ![r] = Gone(q)]
  BY DEF LoopEnds
<1>4. controls' = controls /\ Finalize(r)
  BY DEF LoopEnds, sideVars
<1>5. /\ \A t \in Threads : activeThreads'[t] \in {activeThreads[t], NoRec}
      /\ activeThreads'[q.thread] # r
  <2>1. /\ activeThreads \in [Threads -> Recs \cup {NoRec}] /\ r # NoRec
        /\ q.thread \in Threads
    BY <1>1 DEF HoldInv, OthersTyped, Recs, NoRec, Named
  <2>2. CASE activeThreads[q.thread] # r
    BY <1>4, <2>2 DEF Finalize
  <2>3. CASE activeThreads[q.thread] = r
    <3>1. activeThreads' = [activeThreads EXCEPT ![q.thread] = NoRec]
      BY <1>4, <2>3 DEF Finalize
    <3> QED BY <2>1, <2>3, <3>1
  <2> QED BY <2>2, <2>3
<1> HIDE DEF w
<1>6. Release(w) \in RecType /\ Release(w).thread = q.thread
  BY <1>2, ReleaseIs DEF SameLife
<1>7. /\ Gone(Release(w)).thread = q.thread /\ Gone(Release(w)).currentRunId = NoRun
      /\ Gone(q).thread = q.thread /\ Gone(q).currentRunId = NoRun
  BY <1>1, <1>6, GoneIs
<1>8. PICK p : /\ rec' = [rec EXCEPT ![r] = p] /\ p.thread = q.thread
               /\ p.currentRunId = NoRun
  BY <1>3, <1>7
<1>9. Drift(r)
  BY <1>8 DEF Drift, HoldInv, Shapes
<1> QED BY <1>1, <1>4, <1>5, <1>8, <1>9, OneGone

\* A gate is answered, or a run queued.
LEMMA GrowStill ==
    ASSUME HoldInv, Slots, Named, NEW r \in Recs, NEW x \in Runs
    PROVE  Decide(r, x) \/ ControlsApplied(r, x) => GoneFine
<1> DEFINE q == rec[r]
<1>1. q \in RecType /\ Shape(q)
  BY RecordIs
<1>2. ASSUME NEW p, rec' = [rec EXCEPT ![r] = p], controls' \subseteq controls,
             activeThreads' = activeThreads, q.loop # "free",
             p.thread = q.thread, p.loop = q.loop, p.dead = q.dead,
             p.currentRunId # q.currentRunId =>
                ~q.dead /\ <<r, p.currentRunId>> \in controls
      PROVE  GoneFine
  <2>1. CASE p.loop # "gone"
    BY <1>2, <2>1, OneStill DEF Still
  <2>2. CASE p.loop = "gone"
    <3>1. rec'[r] = p
      BY <1>2 DEF HoldInv, Shapes
    <3>2. Drift(r)
      BY <1>2, <2>2, <3>1 DEF Drift
    <3>3. activeThreads[q.thread] # r
      <4>1. r # NoRec /\ activeThreads \in [Threads -> Recs \cup {NoRec}]
        BY DEF HoldInv, OthersTyped, Recs, NoRec
      <4> QED BY <1>2, <2>2, <4>1 DEF Slots, Named
    <3> QED BY <1>2, <3>2, <3>3, OneGone
  <2> QED BY <2>1, <2>2
<1>3. Decide(r, x) => GoneFine
  <2> SUFFICES ASSUME Decide(r, x) PROVE GoneFine
    OBVIOUS
  <2> DEFINE p == [q EXCEPT !.awaitingDecision = q.awaitingDecision - 1]
  <2>1. /\ rec' = [rec EXCEPT ![r] = p] /\ UNCHANGED <<activeThreads, controls>>
        /\ q.loop # "free"
    BY DEF Decide, HoldInv, Shapes, Known
  <2>2. /\ p.thread = q.thread /\ p.loop = q.loop /\ p.dead = q.dead
        /\ p.currentRunId = q.currentRunId
    BY <1>1 DEF RecType
  <2> HIDE DEF p
  <2> QED BY <1>2, <2>1, <2>2
<1>4. ControlsApplied(r, x) => GoneFine
  <2> SUFFICES ASSUME ControlsApplied(r, x) PROVE GoneFine
    OBVIOUS
  <2>1. /\ <<r, x>> \in controls /\ controls' \subseteq controls
        /\ activeThreads' = activeThreads /\ q.loop # "free"
    BY DEF ControlsApplied, regVars, HoldInv, Known
  <2>2. CASE q.dead
    BY <2>1, <2>2, StillGo DEF ControlsApplied
  <2>3. CASE ~q.dead
    <3> DEFINE p == Queued(q, x)
    <3>1. rec' = [rec EXCEPT ![r] = p]
      BY <2>3 DEF ControlsApplied
    <3>2. /\ SameLife(p, q)
          /\ \/ p.currentRunId = q.currentRunId
             \/ /\ q.gen = "parked"
                /\ \E w \in RecType : w.turnQueue = Append(q.turnQueue, x) /\ Starts(p, w)
      BY <1>1, QueuedIs
    <3>3. q.gen = "parked" => Head(Append(q.turnQueue, x)) = x
      <4>1. Head(Append(<<>>, x)) = x
        OBVIOUS
      <4> QED BY <1>1, <4>1 DEF Shape
    <3>4. p.currentRunId \in {q.currentRunId, x}
      BY <3>2, <3>3 DEF Starts
    <3> HIDE DEF p
    <3>5. p.thread = q.thread /\ p.loop = q.loop /\ p.dead = q.dead
      BY <3>2 DEF SameLife
    <3> QED BY <1>2, <2>1, <2>3, <3>1, <3>4, <3>5
  <2> QED BY <2>2, <2>3
<1> QED BY <1>3, <1>4

\* A chat goes to the record of its thread.
LEMMA ReusingStill ==
    ASSUME HoldInv, Slots, Named, NEW x \in Runs, NEW t \in Threads
    PROVE  ChatReusing(x, t) \/ ChatChangingControls(x, t) => GoneFine
<1>1. ASSUME ChatReusing(x, t) PROVE GoneFine
  <2>1. PICK r \in Registered : r = activeThreads[t]
    BY <1>1 DEF ChatReusing, Reusable, HoldInv, OthersTyped, Registered
  <2>2. r \in Recs /\ rec[r] \in RecType /\ rec[r].loop \notin {"free", "gone"}
    BY SlotsHold
  <2>3. /\ rec' = [rec EXCEPT ![r] = Queued(rec[r], x)]
        /\ UNCHANGED <<activeThreads, controls>>
    BY <1>1, <2>1, <2>2 DEF ChatReusing, HoldInv, Shapes
  <2>4. Still(Queued(rec[r], x), rec[r])
    BY <2>2, QueuedIs DEF Still, SameLife
  <2> QED BY <2>2, <2>3, <2>4, OneStill
<1>2. ASSUME ChatChangingControls(x, t) PROVE GoneFine
  <2>1. /\ rec' = rec /\ activeThreads' = activeThreads /\ sentTo[x] = NoThread
        /\ controls' = controls \cup {<<activeThreads[t], x>>}
    BY <1>2 DEF ChatChangingControls, Accept, MayAccept
  <2>2. Slots' /\ Named'
    BY <2>1 DEF Slots, Named
  <2> QED BY <2>1, <2>2 DEF GoneFine, Drift
<1> QED BY <1>1, <1>2

\* A new record takes the slot of a thread.
LEMMA EnsureStill ==
    ASSUME HoldInv, Slots, Named, NEW recs \in [Recs -> RecType],
           \A s \in Recs : recs[s] = rec[s] \/ Still(recs[s], rec[s]),
           NEW t \in Threads, NEW policy \in AllPolicies, NEW x \in Runs,
           NEW old \in Recs \cup {NoRec},
           EnsureThread(recs, t, policy, x, old), controls' = controls
    PROVE  GoneFine
<1> DEFINE p == [Blank EXCEPT !.thread = t, !.policy = policy,
                              !.loop = "build", !.forRun = x, !.oldRec = old]
<1>1. PICK n \in Recs, kept \in Evictions(recs) :
        /\ rec[n].loop = "free" /\ rec' = [kept EXCEPT ![n] = p]
        /\ activeThreads' = [activeThreads EXCEPT ![t] = n]
  BY DEF EnsureThread, IsNext
<1>2. p.thread = t /\ p.loop = "build"
  <2>1. Blank \in RecType
    BY BlankIs
  <2> QED BY <2>1 DEF RecType
<1> HIDE DEF p
<1>3. \A s \in Recs : kept[s] = rec[s] \/ Still(kept[s], rec[s])
  <2>1. CASE kept = recs
    BY <2>1
  <2>2. CASE kept # recs
    <3>1. PICK e \in Registered : kept = [recs EXCEPT ![e] = Torn(recs[e])]
      BY <1>1, <2>2 DEF Evictions
    <3>2. e \in Recs /\ rec[e].loop \notin {"free", "gone"} /\ recs[e] \in RecType
      BY SlotsHold
    <3>3. Torn(recs[e]).thread = recs[e].thread /\ Torn(recs[e]).loop = recs[e].loop
      BY <3>2, TornIs
    <3>4. kept[e] = Torn(recs[e]) /\ \A s \in Recs : s # e => kept[s] = recs[s]
      BY <3>1, <3>2
    <3>5. Still(kept[e], rec[e])
      BY <3>2, <3>3, <3>4 DEF Still
    <3> QED BY <3>4, <3>5
  <2> QED BY <2>1, <2>2
<1>4. DOMAIN kept = Recs
  BY <1>1 DEF Evictions
<1>5. rec'[n] = p /\ \A s \in Recs : s # n => rec'[s] = rec[s] \/ Still(rec'[s], rec[s])
  BY <1>1, <1>3, <1>4
<1>6. /\ activeThreads'[t] = n
      /\ \A u \in Threads : u # t => activeThreads'[u] = activeThreads[u]
      /\ \A u \in Threads : activeThreads[u] # n
      /\ \A u \in Threads : activeThreads[u] \in Recs \cup {NoRec}
  <2>1. activeThreads \in [Threads -> Recs \cup {NoRec}] /\ n # NoRec
    BY DEF HoldInv, OthersTyped, Recs, NoRec
  <2>2. \A u \in Threads : activeThreads[u] # n
    BY <1>1, <2>1 DEF HoldInv, Known
  <2> QED BY <1>1, <2>1, <2>2
<1>7. Slots'
  <2> SUFFICES ASSUME NEW u \in Threads, activeThreads'[u] # NoRec
               PROVE  /\ rec'[activeThreads'[u]].thread = u
                      /\ rec'[activeThreads'[u]].loop # "gone"
    BY DEF Slots
  <2>1. CASE u = t
    BY <1>2, <1>5, <1>6, <2>1
  <2>2. CASE u # t
    <3>1. PICK a \in Recs : a = activeThreads[u] /\ a # n /\ activeThreads'[u] = a
      BY <1>6, <2>2
    <3>2. rec[a].thread = u /\ rec[a].loop # "gone"
      BY <1>6, <3>1 DEF Slots
    <3> QED BY <1>5, <3>1, <3>2 DEF Still
  <2> QED BY <2>1, <2>2
<1>8. \A s \in Recs : rec'[s].loop = "gone" => Drift(s)
  BY <1>2, <1>5 DEF Still, Drift
<1>9. Named'
  BY <1>2, <1>5 DEF Named, Still
<1> QED BY <1>7, <1>8, <1>9 DEF GoneFine

\* A record is begun, for a chat or with a fresh token.
LEMMA BeginStill ==
    ASSUME HoldInv, Slots, Named
    PROVE  /\ \A x \in Runs, t \in Threads : ChatStarting(x, t) => GoneFine
           /\ \A r \in Recs : TokenArrives(r) => GoneFine
<1>1. ASSUME NEW x \in Runs, NEW t \in Threads, ChatStarting(x, t) PROVE GoneFine
  <2>1. PICK policy \in Policies : EnsureThread(rec, t, policy, x, NoRec)
    BY <1>1 DEF ChatStarting
  <2>2. policy \in AllPolicies /\ controls' = controls /\ rec \in [Recs -> RecType]
        /\ NoRec \in Recs \cup {NoRec}
    BY <1>1, EngineAssumption DEF ChatStarting, HoldInv, Shapes
  <2> QED BY <2>1, <2>2, EnsureStill
<1>2. ASSUME NEW r \in Recs, TokenArrives(r) PROVE GoneFine
  <2> DEFINE q == rec[r]
             w == Torn(q)
             p == [w EXCEPT !.loop = "rebuild"]
             recs == [rec EXCEPT ![r] = p]
  <2>1. q \in RecType /\ Shape(q) /\ q.loop = "token" /\ q.thread \in Threads
        /\ q.policy \in AllPolicies /\ r \in Recs \cup {NoRec}
    BY <1>2, RecordIs DEF TokenArrives, Named, RecType
  <2>2. PICK x \in Runs : x = q.got
    BY <2>1 DEF Shape
  <2>3. EnsureThread(recs, q.thread, q.policy, x, r) /\ controls' = controls
    BY <1>2, <2>2 DEF TokenArrives, sideVars
  <2>4. w \in RecType /\ w.thread = q.thread
    BY <2>1, TornIs
  <2> HIDE DEF w
  <2>5. p \in RecType /\ p.thread = q.thread /\ p.loop = "rebuild"
    BY <2>4 DEF RecType
  <2> HIDE DEF p
  <2>6. recs \in [Recs -> RecType] /\ recs[r] = p /\ \A s \in Recs : s # r => recs[s] = rec[s]
    BY <2>5 DEF HoldInv, Shapes
  <2> HIDE DEF recs
  <2>7. \A s \in Recs : recs[s] = rec[s] \/ Still(recs[s], rec[s])
    BY <2>1, <2>5, <2>6 DEF Still
  <2> HIDE DEF q
  <2> QED BY <2>1, <2>3, <2>6, <2>7, EnsureStill
<1> QED BY <1>1, <1>2

\* A build is over.
LEMMA BuildStill ==
    ASSUME HoldInv, OnceInv, Slots, Named, NEW n \in Recs, Built(n) \/ BuildFails(n)
    PROVE  GoneFine
<1> DEFINE q == rec[n]
           o == q.oldRec
           made == [q EXCEPT !.loop = "read", !.forRun = NoRun, !.oldRec = NoRec,
                             !.authRetried = q.oldRec # NoRec]
<1>1. q \in RecType /\ q.loop = "build" /\ Shape(q)
  BY RecordIs DEF Built, BuildFails
<1>2. ASSUME o \in Recs PROVE Still(Replaced(rec[o]), rec[o])
  <2>1. PICK m \in Recs : m = o
    BY <1>2
  <2>2. rec[m].loop = "rebuild" /\ rec[m] \in RecType /\ ~rec[m].caught
    BY <1>1, <2>1, RecordIs DEF HoldInv, OldInv, OnceInv, Once, Recs, NoRec
  <2>3. Replaced(rec[m]) = [rec[m] EXCEPT !.turnActive = FALSE, !.loop = "read"]
    BY <2>2 DEF Replaced
  <2> QED BY <2>1, <2>2, <2>3 DEF Still, RecType
<1>3. ASSUME NEW v \in RecType, v.thread = q.thread, v.loop = "read"
      PROVE  Still(PullTurn(v), q)
  BY <1>1, <1>3, PullTurnIs DEF Still, SameLife
<1>4. /\ made \in RecType /\ made.thread = q.thread /\ made.loop = "read"
      /\ \A x \in Runs : LET v == [made EXCEPT !.turnQueue = Append(made.turnQueue, x)]
                         IN  v \in RecType /\ v.thread = q.thread /\ v.loop = "read"
  <2> HIDE DEF q
  <2>1. made \in RecType /\ made.thread = q.thread /\ made.loop = "read"
    <3>1. NoRec \in Recs \cup {NoRec} /\ (q.oldRec # NoRec) \in BOOLEAN
      OBVIOUS
    <3> QED BY ZenonT(30), <1>1, <3>1 DEF RecType
  <2> HIDE DEF made
  <2>2. \A x \in Runs : Append(made.turnQueue, x) \in Seq(Runs)
    BY <2>1 DEF RecType
  <2> QED BY <2>1, <2>2 DEF RecType
<1>5. ASSUME Built(n)
      PROVE  Still(rec'[n], q)
  <2>1. PICK x \in Runs : x = q.forRun
    BY <1>1 DEF Shape
  <2>2. \/ rec'[n] = PullTurn(made)
        \/ rec'[n] = PullTurn([made EXCEPT !.turnQueue = Append(made.turnQueue, x)])
    BY <1>5, <2>1 DEF Built
  <2> HIDE DEF made
  <2> QED BY <1>3, <1>4, <2>2
<1>6. ASSUME BuildFails(n)
      PROVE  Still(rec'[n], q)
  <2>1. rec'[n] = [q EXCEPT !.loop = "stuck"]
    BY <1>6 DEF BuildFails
  <2> QED BY <1>1, <2>1 DEF Still, RecType
<1>7. \A s \in Recs : s # n => rec'[s] = IF s = o THEN Replaced(rec[s]) ELSE rec[s]
  BY DEF Built, BuildFails
<1>8. /\ controls' = controls
      /\ \A t \in Threads : activeThreads'[t] \in {activeThreads[t], NoRec}
  BY DEF Built, BuildFails, regVars, sideVars, HoldInv, OthersTyped
<1>9. \A s \in Recs : rec'[s] = rec[s] \/ Still(rec'[s], rec[s])
  BY <1>2, <1>5, <1>6, <1>7
<1> QED BY <1>8, <1>9, StillGo

\* Every step keeps the slots, and leaves only accepted runs to the SDK.
LEMMA GoneNext ==
    ASSUME "throwAuth" \notin Faults, "limit" \notin Faults,
           HoldInv, OnceInv, Slots, Named, Next
    PROVE  GoneFine
<1>1. UserStep => GoneFine
  BY UserStill, ReusingStill, BeginStill DEF UserStep
<1>2. ASSUME NEW r \in Recs, RecStep(r) PROVE GoneFine
  <2>1. Built(r) \/ BuildFails(r) \/ TokenArrives(r) => GoneFine
    BY BuildStill, BeginStill
  <2>2. LoopEnds(r) \/ Backstop(r) => GoneFine
    BY LoopEndsStill, BackstopStill
  <2>3. \A x \in Runs : Decide(r, x) \/ ControlsApplied(r, x) => GoneFine
    BY GrowStill
  <2>4. /\ TaskEvent(r) \/ GateOpens(r) \/ BackgroundResult(r) => GoneFine
        /\ \A kind \in {"ok", "error", "auth"} : Result(r, kind) => GoneFine
        /\ Settle(r) \/ IdleTimeout(r) \/ ReaperFires(r) => GoneFine
        /\ TokenTimeout(r) => GoneFine
    BY QueryStill
  <2>5. ~RateLimited(r) /\ ~StreamAuth(r)
    BY DEF RateLimited, StreamAuth
  <2> QED BY <1>2, <2>1, <2>2, <2>3, <2>4, <2>5 DEF RecStep, Continues
<1> QED BY <1>1, <1>2 DEF Next

\* What is left to the SDK is left there when it is accepted, if at all.
LEMMA LeftNext ==
    ASSUME HoldInv, HoldInv', GoneFine
    PROVE  \A x \in leftToSdk' : x \in leftToSdk \/ (sentTo[x] = NoThread /\ sentTo'[x] # NoThread)
<1> SUFFICES ASSUME NEW x \in leftToSdk'
             PROVE  x \in leftToSdk \/ (sentTo[x] = NoThread /\ sentTo'[x] # NoThread)
  OBVIOUS
<1>0. leftToSdk' = {y \in Runs : \E r \in Recs :
                      \/ <<r, y>> \in controls'
                      \/ rec'[r].loop = "gone" /\ rec'[r].currentRunId = y}
  BY DEF leftToSdk
<1>1. x \in Runs
  BY <1>0
<1>2. PICK r \in Recs : \/ <<r, x>> \in controls'
                        \/ rec'[r].loop = "gone" /\ rec'[r].currentRunId = x
  BY <1>0
<1>3. CASE <<r, x>> \in controls'
  <2>1. sentTo'[x] # NoThread
    BY <1>1, <1>3 DEF HoldInv, Known, Held
  <2> QED BY <1>1, <1>3, <2>1 DEF GoneFine, leftToSdk
<1>4. CASE rec'[r].loop = "gone" /\ rec'[r].currentRunId = x
  BY <1>1, <1>4, NamesAssumption DEF GoneFine, Drift, leftToSdk
<1> QED BY <1>2, <1>3, <1>4

\* Every accepted run is reported as ended at most once, and none that was not
\* accepted is, whatever fails but for two faults of which the engine makes a second
\* report: the engine takes the steps of the ledger.  A run comes to be left to the SDK
\* when it is accepted, and at no other time.
THEOREM EndsOnce ==
    ASSUME "throwAuth" \notin Faults, "limit" \notin Faults
    PROVE  Spec => Ledger!Init /\ [][Ledger!Next]_(Ledger!ledgerVars)
<1> DEFINE IInv == HoldInv /\ OnceInv /\ Slots /\ Named
<1>1. Init => IInv /\ Ledger!Init
  <2> SUFFICES ASSUME Init PROVE IInv /\ Ledger!Init
    OBVIOUS
  <2>1. HoldInv /\ OnceInv /\ Slots
    BY HoldInit, RegInit DEF RegInv
  <2>2. Named /\ leftToSdk = {}
    BY DEF Init, Blank, Named, leftToSdk
  <2>3. Ledger!Init
    BY <2>2 DEF Init, Ledger!Init, runStatus
  <2> QED BY <2>1, <2>2, <2>3
<1>2. IInv /\ [Next]_vars => IInv' /\ [Ledger!Next]_(Ledger!ledgerVars)
  <2> SUFFICES ASSUME IInv, [Next]_vars
               PROVE  IInv' /\ [Ledger!Next]_(Ledger!ledgerVars)
    OBVIOUS
  <2>1. CASE Next
    <3>1. HoldInv' /\ OnceInv' /\ Says /\ GoneFine
      BY <2>1, NextStep, OnceNext, GoneNext DEF Fine
    <3>2. \A x \in leftToSdk' :
            x \in leftToSdk \/ (sentTo[x] = NoThread /\ sentTo'[x] # NoThread)
      BY <3>1, LeftNext
    <3>3. ASSUME sentTo' = sentTo PROVE Ledger!Next
      <4>1. leftToSdk' \in SUBSET leftToSdk
        BY <3>2, <3>3
      <4>2. ASSUME NEW y \in Runs, runStatus[y] = "open", UNCHANGED shuttingDown,
                   runStatus' = [runStatus EXCEPT ![y] = "ended"]
            PROVE  Ledger!Next
        BY <4>1, <4>2 DEF Ledger!Next, Ledger!End
      <4>3. ASSUME runStatus' = runStatus, shuttingDown' \in {shuttingDown, TRUE}
            PROVE  Ledger!Next
        BY <4>1, <4>3 DEF Ledger!Next, Ledger!Close, Ledger!Return
      <4>4. ASSUME NEW y \in Runs, runStatus[y] = "new", ~shuttingDown, UNCHANGED shuttingDown,
                   runStatus' = [runStatus EXCEPT ![y] = "open"]
            PROVE  Ledger!Next
        <5>1. leftToSdk' \in SUBSET (leftToSdk \cup {y})
          BY <4>1
        <5> QED BY <4>4, <5>1 DEF Ledger!Next, Ledger!Accept
      <4>5. CASE runStatus' = runStatus /\ shuttingDown' \in {shuttingDown, TRUE}
        BY <4>3, <4>5
      <4>6. CASE \E y \in Runs : /\ runStatus[y] = "open" /\ UNCHANGED shuttingDown
                                 /\ runStatus' = [runStatus EXCEPT ![y] = "ended"]
        BY <4>2, <4>6
      <4>7. CASE \E y \in Runs : /\ runStatus[y] = "new" /\ ~shuttingDown
                                 /\ UNCHANGED shuttingDown
                                 /\ runStatus' = [runStatus EXCEPT ![y] = "open"]
        BY <4>4, <4>7
      <4> QED BY <3>1, <4>5, <4>6, <4>7 DEF Says
    <3>4. ASSUME sentTo' # sentTo PROVE Ledger!Next
      <4>1. PICK y \in Runs :
              /\ ~shuttingDown /\ UNCHANGED shuttingDown /\ runStatus[y] = "new"
              /\ runStatus' = [runStatus EXCEPT ![y] = "open"]
              /\ \A x \in Runs : x # y => sentTo'[x] = sentTo[x]
        BY <3>1, <3>4 DEF Says
      <4>2. leftToSdk' \in SUBSET (leftToSdk \cup {y})
        BY <3>2, <4>1 DEF leftToSdk
      <4>3. Ledger!Accept(y)
        BY <4>1, <4>2 DEF Ledger!Accept
      <4> QED BY <4>1, <4>3 DEF Ledger!Next
    <3> QED BY <3>1, <3>3, <3>4 DEF GoneFine
  <2>2. CASE UNCHANGED vars
    <3>1. HoldInv' /\ \A x \in Runs : Held(x)' <=> Held(x)
      BY <2>2, HoldStutter
    <3>2. /\ rec' = rec /\ sentTo' = sentTo /\ terminals' = terminals
          /\ shuttingDown' = shuttingDown /\ activeThreads' = activeThreads
          /\ controls' = controls
      BY <2>2 DEF vars, wireVars
    <3>3. OnceInv' /\ Slots' /\ Named'
      BY <3>1, <3>2 DEF OnceInv, Slots, Named
    <3>4. UNCHANGED Ledger!ledgerVars
      BY <3>2 DEF Ledger!ledgerVars, runStatus, leftToSdk
    <3> QED BY <3>1, <3>3, <3>4
  <2> QED BY <2>1, <2>2
<1> QED BY <1>1, <1>2, PTL DEF Spec

\* A run that a record whose loop is over is at work on was sent to one that nobody
\* closed.
Lasts == \A r \in Recs : rec[r].loop = "gone" /\ rec[r].currentRunId # NoRun => ~rec[r].dead

\* Nothing is left in the queue of a thread that takes no more input, and none whose
\* loop is over is at work on a run, whether it was closed, timed out, evicted or
\* restarted around the dispatch; save one that crashed by itself, where threads are
\* kept open between turns and the host sends them one run at a time.
THEOREM NothingIsStranded ==
    ASSUME OneAtATime, Policies = {"persist"},
           "throwAuth" \notin Faults, "limit" \notin Faults
    PROVE  Spec => []NeverStranded
<1> DEFINE IInv == HoldInv /\ OnceInv /\ RegInv /\ Plains /\ Named /\ Lasts
<1>1. Init => IInv
  <2>1. Init => Named /\ Lasts
    BY DEF Init, Blank, Named, Lasts
  <2> QED BY <2>1, HoldInit, RegInit
<1>2. IInv /\ [Next]_vars => IInv'
  <2> SUFFICES ASSUME IInv, [Next]_vars PROVE IInv'
    OBVIOUS
  <2>1. HoldInv' /\ OnceInv' /\ RegInv' /\ Plains'
    BY RegSafe
  <2>2. CASE Next
    <3>1. GoneFine
      BY <2>2, GoneNext DEF RegInv
    <3>2. Lasts'
      BY <3>1 DEF GoneFine, Drift, Lasts
    <3> QED BY <2>1, <3>1, <3>2 DEF GoneFine
  <2>3. CASE UNCHANGED vars
    <3>1. Named' /\ Lasts'
      BY <2>3 DEF vars, Named, Lasts
    <3> QED BY <2>1, <3>1
  <2> QED BY <2>2, <2>3
<1>3. IInv => NeverStranded
  <2> SUFFICES ASSUME IInv, NEW r \in Recs
               PROVE  /\ rec[r].gen = "done" \/ rec[r].loop = "gone" => rec[r].turnQueue = <<>>
                      /\ rec[r].loop = "gone" /\ rec[r].currentRunId # NoRun => ~rec[r].dead
    BY DEF NeverStranded
  <2>1. rec[r].gen = "done" \/ rec[r].loop = "gone" => rec[r].turnQueue = <<>>
    BY DEF HoldInv, Shapes, Shape, Plains, Plain
  <2> QED BY <2>1 DEF Lasts
<1> QED BY <1>1, <1>2, <1>3, PTL DEF Spec
=============================================================================
