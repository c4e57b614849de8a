-------------------------- MODULE ProposalsProofs --------------------------
(***************************************************************************)
(* What becomes of proposed edits, for any number of chats, notes, calls   *)
(* and retries.                                                            *)
(*                                                                         *)
(* First what every operation does to the handlers, the entries and the    *)
(* queues (...Types, ...Does).  On them rest, one after the other:         *)
(*   WellFormed: a queued write has its reason, a handler past waiting has *)
(*     its write queued, and a claim is a change that creates the note;    *)
(*   Ranked: handlers wait for earlier ones only, so that there is always  *)
(*     one that can go on;                                                 *)
(*   AcceptedHasTurn: what is accepted was written or has a write queued;  *)
(*   Decided: text of a call in a note is carried by a change that stands, *)
(*     whichever merge, retry or later call has brought it there;          *)
(*   Failures: the text of a change that failed is not in its note;        *)
(*   Guarded: the bases of whole-document writes hold text that some chat  *)
(*     was given, and a Write that is out knows what its chat was given.   *)
(* None of the properties is inductive by itself.  Each of these is, given *)
(* the ones before it; Grows and Lasting say what no step undoes.          *)
(***************************************************************************)
EXTENDS Proposals, SequenceTheorems, WellFoundedInduction, TLAPS

\* The records that call, change and queue hold.
Handlers == [stage : {"waiting", "writing", "merging", "done"}, chat : Chats,
             note : Notes, kind : {"Edit", "Write"}, target : Anchors \cup {NoCall},
             prior : Calls \cup {NoCall}, knows : SUBSET UserText,
             claim : Calls \cup {NoCall}, out : SUBSET Pieces,
             answer : {"none", "queued", "refused", "applied"}]
Changes  == [status : {"pending", "accepted", "rejected"},
             kind : {"add", "whole", "range"}, after : SUBSET Pieces,
             failed : BOOLEAN, delivered : BOOLEAN]
Writes   == [by : {"handler", "applier"}, of : Calls]
Pruned   == [status |-> "pruned"]
Bodies   == (SUBSET Pieces) \cup {NoBody}

\* The types of the notes and of what the model was shown of them.
NoteTypes ==
    /\ body \in [Notes -> Bodies]
    /\ loaded \subseteq Notes /\ conflict \subseteq loaded
    /\ \A n \in loaded : body[n] # NoBody
    /\ base \in [Notes -> Bodies] /\ stale \in [Notes -> Nat]
    /\ seen \in [Chats -> [Notes -> SUBSET UserText]]

\* The types of the chats, the calls, their changes and the queued writes.
CallTypes ==
    /\ running \subseteq Chats /\ auto \subseteq Chats
    /\ tail \in [Chats -> [Notes -> Calls \cup {NoCall}]]
    /\ call \in [Calls -> Handlers \cup {Unused}]
    /\ change \in [Calls -> Changes \cup {NoChange, Pruned}]
    /\ queue \in [Notes -> Seq(Writes)]
    /\ landed \subseteq Calls /\ crossed \subseteq Calls

Types == NoteTypes /\ CallTypes

\* A call that arrived has a handler, a change that is stored an entry.
LEMMA InHandlers ==
    ASSUME Types, NEW c \in Calls
    PROVE  /\ c \in Arrived <=> call[c] \in Handlers
           /\ c \notin Arrived <=> call[c] = Unused
           /\ c \in Stored <=> change[c] \in Changes
           /\ c \notin Stored <=> change[c] \in {NoChange, Pruned}
           /\ change[c].status = "none" <=> change[c] = NoChange
BY DEF Types, CallTypes, Arrived, Stored, Handlers, Unused, Changes, NoChange, Pruned

\* The initial states have the types.
LEMMA TypesInit == Init => Types
<1>. SUFFICES ASSUME Init PROVE Types
  OBVIOUS
<1>1. NoteTypes
  <2>1. Anchors \in Bodies /\ NoBody \in Bodies
    BY DEF Bodies, Pieces
  <2>2. body \in [Notes -> Bodies] /\ base \in [Notes -> Bodies]
    BY <2>1 DEF Init
  <2>3. seen \in [Chats -> [Notes -> SUBSET UserText]]
    BY DEF Init
  <2>. QED
    BY <2>2, <2>3 DEF Init, NoteTypes
<1>2. CallTypes
  BY DEF Init, CallTypes
<1>. QED
  BY <1>1, <1>2 DEF Types

\* The fields of the handler of a call that arrived, and what it writes.
LEMMA FieldTypes ==
    ASSUME Types, NEW c \in Arrived
    PROVE  /\ c \in Calls /\ call[c] \in Handlers
           /\ NoteOf(c) \in Notes /\ call[c].chat \in Chats
           /\ call[c].claim \in Calls \cup {NoCall}
           /\ call[c].prior \in Calls \cup {NoCall}
           /\ call[c].out \in SUBSET Pieces
           /\ Content(c) \in SUBSET Pieces
           /\ \A b \in SUBSET Pieces : Replaced(b, c) \in SUBSET Pieces
<1>1. c \in Calls /\ call[c] \in Handlers
  BY InHandlers DEF Arrived
<1>. QED
  BY <1>1 DEF Handlers, NoteOf, Content, Replaced, Pieces

\* The handler of c goes on; what it was asked for, and the others, stay.
Moves(c, stage, answer, claim, out) ==
    /\ call' \in [Calls -> Handlers \cup {Unused}] /\ call'[c] \in Handlers
    /\ call'[c].stage = stage /\ call'[c].answer = answer
    /\ call'[c].claim = claim /\ call'[c].out = out
    /\ call'[c].chat = call[c].chat /\ call'[c].note = call[c].note
    /\ call'[c].kind = call[c].kind /\ call'[c].target = call[c].target
    /\ call'[c].prior = call[c].prior /\ call'[c].knows = call[c].knows
    /\ \A d \in Calls : d # c => call'[d] = call[d]

Answers == {"none", "queued", "refused", "applied"}

\* finish() moves the handler to its end and leaves the other handlers alone.
LEMMA FinishTypes ==
    ASSUME Types, NEW c \in Arrived, NEW a \in Answers, NEW k \in Calls \cup {NoCall},
           Finish(c, a, k)
    PROVE  Moves(c, "done", a, k, call[c].out)
<1>1. c \in Calls /\ call[c] \in Handlers
  BY InHandlers DEF Arrived
<1>2. [call[c] EXCEPT !.stage = "done", !.answer = a, !.claim = k] \in Handlers
  BY <1>1 DEF Handlers, Answers
<1>3. call' = [call EXCEPT ![c] = [call[c] EXCEPT !.stage = "done", !.answer = a, !.claim = k]]
  BY <1>1 DEF Finish, Types, CallTypes
<1>4. /\ call' \in [Calls -> Handlers \cup {Unused}]
      /\ call'[c] = [call[c] EXCEPT !.stage = "done", !.answer = a, !.claim = k]
      /\ \A d \in Calls : d # c => call'[d] = call[d]
  BY <1>1, <1>2, <1>3 DEF Types, CallTypes
<1>. QED
  BY <1>1, <1>2, <1>4 DEF Moves, Handlers

\* A write whose turn has come is on a note that is loaded; it leaves the queue.
LEMMA TurnTypes ==
    ASSUME Types, NEW c \in Arrived, NEW by \in {"handler", "applier"}, Turn(by, c)
    PROVE  /\ NoteOf(c) \in Notes /\ NoteOf(c) \in loaded
           /\ queue' \in [Notes -> Seq(Writes)]
<1>1. c \in Calls /\ call[c] \in Handlers
  BY InHandlers DEF Arrived
<1>. QED
  BY <1>1, HeadTailProperties DEF Turn, NoteOf, Handlers, Types, CallTypes

\* Asking for a write keeps the queues well typed.
LEMMA AskTypes ==
    ASSUME Types, NEW c \in Arrived, NEW by \in {"handler", "applier"}, Ask(by, c)
    PROVE  /\ NoteOf(c) \in Notes
           /\ queue' \in [Notes -> Seq(Writes)]
<1>1. c \in Calls /\ call[c] \in Handlers
  BY InHandlers DEF Arrived
<1>2. Write(by, c) \in Writes
  BY <1>1 DEF Write, Writes
<1>. QED
  BY <1>1, <1>2, AppendProperties DEF Ask, NoteOf, Handlers, Types, CallTypes

\* A handler that asks for the guarded write goes on with its claim.
LEMMA ContinueTypes ==
    ASSUME Types, NEW c \in Arrived, NEW k \in Calls \cup {NoCall}, Continue(c, "writing", k)
    PROVE  Moves(c, "writing", call[c].answer, k, call[c].out)
<1>1. c \in Calls /\ call[c] \in Handlers
  BY InHandlers DEF Arrived
<1>2. [call[c] EXCEPT !.stage = "writing", !.claim = k] \in Handlers
  BY <1>1 DEF Handlers
<1>3. call' = [call EXCEPT ![c] = [call[c] EXCEPT !.stage = "writing", !.claim = k]]
  BY <1>1 DEF Continue, Types, CallTypes
<1>4. /\ call' \in [Calls -> Handlers \cup {Unused}]
      /\ call'[c] = [call[c] EXCEPT !.stage = "writing", !.claim = k]
      /\ \A d \in Calls : d # c => call'[d] = call[d]
  BY <1>1, <1>2, <1>3 DEF Types, CallTypes
<1>. QED
  BY <1>1, <1>2, <1>4 DEF Moves, Handlers

\* Accepting a change touches its entry alone, and only while it is pending.
LEMMA AcceptedTypes ==
    ASSUME Types, NEW d \in Calls
    PROVE  /\ Accepted(d) \in [Calls -> Changes \cup {NoChange, Pruned}]
           /\ \A c \in Calls : c # d => Accepted(d)[c] = change[c]
           /\ change[d].status # "pending" => Accepted(d)[d] = change[d]
           /\ change[d].status = "pending" =>
                 Accepted(d)[d] = [change[d] EXCEPT !.status = "accepted"]
<1>1. change[d] \in Changes \cup {NoChange, Pruned}
  BY DEF Types, CallTypes
<1>2. CASE change[d].status = "pending"
  <2>1. Accepted(d) = [change EXCEPT ![d] = [change[d] EXCEPT !.status = "accepted"]]
    BY <1>2 DEF Accepted, Types, CallTypes
  <2>2. change[d] \in Changes
    BY <1>1, <1>2 DEF NoChange, Pruned
  <2>3. [change[d] EXCEPT !.status = "accepted"] \in Changes
    BY <2>2 DEF Changes
  <2>. QED
    BY <1>2, <2>1, <2>3 DEF Types, CallTypes
<1>3. CASE change[d].status # "pending"
  <2>1. [change[d] EXCEPT !.status = change[d].status] = change[d]
    BY <1>1 DEF Changes, NoChange, Pruned
  <2>2. Accepted(d) = [change EXCEPT ![d] = change[d]]
    BY <1>3, <2>1 DEF Accepted, Types, CallTypes
  <2>. QED
    BY <1>3, <2>2 DEF Types, CallTypes
<1>. QED
  BY <1>2, <1>3

\* Staging a proposal: its entry, and the three ways on (a card, the guard, at once).
LEMMA StagedTypes ==
    ASSUME Types, NEW c \in Arrived, NEW kind \in {"add", "whole", "range"},
           NEW claim \in Calls \cup {NoCall}, Stage(c, kind, claim)
    PROVE  /\ change' \in [Calls -> Changes \cup {NoChange, Pruned}]
           /\ \A d \in Calls : d # c => change'[d] = change[d]
           /\ change'[c] = Staged(kind, Content(c),
                 IF call[c].chat \in auto /\ call[c].kind = "Edit" THEN "accepted"
                   ELSE "pending")
           /\ change'[c] \in Changes
           /\ queue' \in [Notes -> Seq(Writes)]
           /\ \/ /\ call[c].chat \notin auto /\ UNCHANGED queue
                 /\ Moves(c, "done", "queued", claim, call[c].out)
              \/ /\ call[c].chat \in auto /\ call[c].kind = "Write" /\ Ask("handler", c)
                 /\ Moves(c, "writing", call[c].answer, claim, call[c].out)
              \/ /\ call[c].chat \in auto /\ call[c].kind = "Edit" /\ Ask("applier", c)
                 /\ Moves(c, "done", "applied", claim, call[c].out)
<1>1. c \in Calls /\ call[c] \in Handlers /\ Content(c) \in SUBSET Pieces
  BY FieldTypes
<1>2. \A status \in {"pending", "accepted"} : Staged(kind, Content(c), status) \in Changes
  BY <1>1 DEF Staged, Changes
<1>3. /\ change' \in [Calls -> Changes \cup {NoChange, Pruned}]
      /\ \A d \in Calls : d # c => change'[d] = change[d]
      /\ change'[c] = Staged(kind, Content(c),
            IF call[c].chat \in auto /\ call[c].kind = "Edit" THEN "accepted" ELSE "pending")
      /\ change'[c] \in Changes
  BY <1>1, <1>2 DEF Stage, Types, CallTypes
<1>4. CASE call[c].chat \notin auto
  <2>1. Finish(c, "queued", claim) /\ UNCHANGED queue
    BY <1>4 DEF Stage
  <2>2. Moves(c, "done", "queued", claim, call[c].out)
    BY <2>1, FinishTypes DEF Answers
  <2>. QED
    BY <1>3, <1>4, <2>1, <2>2 DEF Types, CallTypes
<1>5. CASE call[c].chat \in auto /\ call[c].kind = "Write"
  <2>1. Continue(c, "writing", claim) /\ Ask("handler", c)
    BY <1>5 DEF Stage
  <2>2. Moves(c, "writing", call[c].answer, claim, call[c].out)
    BY <1>1, <2>1, ContinueTypes
  <2>. QED
    BY <1>3, <1>5, <2>1, <2>2, AskTypes
<1>6. CASE call[c].chat \in auto /\ call[c].kind = "Edit"
  <2>1. Finish(c, "applied", claim) /\ Ask("applier", c)
    BY <1>6 DEF Stage
  <2>. QED
    BY <1>3, <1>6, <2>1, AskTypes, FinishTypes DEF Answers
<1>. QED
  BY <1>1, <1>4, <1>5, <1>6 DEF Handlers

\* A claim of the path comes from the handler before, which has ended.
LEMMA ClaimedTypes ==
    ASSUME Types, NEW c \in Arrived, PriorDone(c)
    PROVE  /\ Claimed(c) \in Calls \cup {NoCall}
           /\ Claimed(c) # NoCall =>
                /\ call[c].prior \in Arrived /\ call[call[c].prior].stage = "done"
                /\ call[call[c].prior].claim = Claimed(c)
<1>1. call[c].prior # NoCall => call[c].prior \in Arrived
  BY FieldTypes DEF PriorDone, Arrived
<1>. QED
  BY <1>1, FieldTypes DEF Claimed, PriorDone

\* A loaded note has a body.
LEMMA BodyTypes ==
    ASSUME Types, NEW n \in loaded
    PROVE  n \in Notes /\ body[n] \in SUBSET Pieces /\ body[n] # NoBody
BY DEF Types, NoteTypes, Bodies

\* A set of pieces is a body, never the absence of one.
LEMMA NotNoBody == \A b \in SUBSET Pieces : b # NoBody /\ b \in Bodies
BY NamesAssumption DEF Pieces, NoBody, Bodies

\* A write of pieces to a note keeps the types of the notes.
LEMMA WrittenTypes ==
    ASSUME Types, NEW n \in Notes, NEW b \in SUBSET Pieces, body' = [body EXCEPT ![n] = b],
           UNCHANGED <<loaded, conflict>>
    PROVE  body' \in [Notes -> Bodies] /\ (\A m \in loaded' : body'[m] # NoBody)
           /\ loaded' \subseteq Notes /\ conflict' \subseteq loaded'
BY NotNoBody DEF Types, NoteTypes

\* A merge into a staged body: the entry of the creating change takes the merged body while
\* it is pending, and the handler ends with a card or asks for the direct write.
LEMMA MergeStagedDoes ==
    ASSUME Types, NEW c \in Calls, MergeStaged(c)
    PROVE  LET d == Claimed(c) IN
           /\ c \in Arrived /\ call[c].stage = "waiting" /\ PriorDone(c)
           /\ d \in Calls /\ d \in Stored /\ change[d].status # "rejected"
           /\ Replaced(change[d].after, c) \in SUBSET Pieces
           /\ UNCHANGED <<noteVars, baseVars, chatVars, histVars>>
           /\ change' \in [Calls -> Changes \cup {NoChange, Pruned}]
           /\ queue' \in [Notes -> Seq(Writes)]
           /\ \A e \in Calls : e # d => change'[e] = change[e]
           /\ IF change[d].status = "pending"
              THEN change'[d] = [change[d] EXCEPT !.after = Replaced(change[d].after, c)]
              ELSE change'[d] = change[d]
           /\ IF change[d].status = "pending" /\ call[c].chat \notin auto
              THEN /\ Moves(c, "done", "queued", d, call[c].out)
                   /\ UNCHANGED queue
              ELSE /\ Moves(c, "merging", call[c].answer, d, Replaced(change[d].after, c))
                   /\ Ask("handler", c)
<1>. DEFINE d == Claimed(c)
            merged == Replaced(change[d].after, c)
<1>1. c \in Arrived /\ call[c].stage = "waiting" /\ PriorDone(c) /\ d # NoCall /\ d \in Stored
      /\ change[d].status # "rejected"
  BY DEF MergeStaged, Merging, Arrived
<1>2. d \in Calls /\ change[d] \in Changes /\ call[c] \in Handlers
  BY <1>1, ClaimedTypes, InHandlers
<1>3. change[d].after \in SUBSET Pieces
  BY <1>2 DEF Changes
<1>4. merged \in SUBSET Pieces
  BY <1>1, <1>3, FieldTypes
<1>. HIDE DEF d, merged
<1>5. [change[d] EXCEPT !.after = merged] \in Changes
  BY <1>2, <1>4 DEF Changes
<1>6. change' = IF change[d].status = "pending" THEN [change EXCEPT ![d].after = merged]
      ELSE change
  BY DEF MergeStaged, d, merged
<1>7. IF change[d].status = "pending" /\ call[c].chat \notin auto
      THEN Finish(c, "queued", d) /\ UNCHANGED queue
      ELSE /\ call' = [call EXCEPT ![c].stage = "merging", ![c].claim = d, ![c].out = merged]
           /\ Ask("handler", c)
  BY DEF MergeStaged, d, merged
<1>8. /\ change' \in [Calls -> Changes \cup {NoChange, Pruned}]
      /\ \A e \in Calls : e # d => change'[e] = change[e]
      /\ IF change[d].status = "pending"
         THEN change'[d] = [change[d] EXCEPT !.after = merged]
         ELSE change'[d] = change[d]
  BY <1>2, <1>5, <1>6 DEF Types, CallTypes
<1>9. CASE change[d].status = "pending" /\ call[c].chat \notin auto
  <2>1. Moves(c, "done", "queued", d, call[c].out)
    BY <1>1, <1>2, <1>7, <1>9, FinishTypes DEF Answers
  <2>2. UNCHANGED queue
    BY <1>7, <1>9
  <2>3. UNCHANGED <<noteVars, baseVars, chatVars, histVars>>
    BY DEF MergeStaged
  <2>4. queue' \in [Notes -> Seq(Writes)]
    BY <2>2 DEF Types, CallTypes
  <2>. QED
    BY <1>1, <1>2, <1>4, <1>8, <1>9, <2>1, <2>2, <2>3, <2>4 DEF d, merged
<1>10. CASE ~(change[d].status = "pending" /\ call[c].chat \notin auto)
  <2>1. Ask("handler", c)
            /\ call' = [call EXCEPT ![c].stage = "merging", ![c].claim = d, ![c].out = merged]
    BY <1>7, <1>10
  <2>2. [call[c] EXCEPT !.stage = "merging", !.claim = d, !.out = merged] \in Handlers
    BY <1>2, <1>4 DEF Handlers
  <2>6. call' = [call EXCEPT ![c] = [call[c] EXCEPT !.stage = "merging", !.claim = d,
                                                    !.out = merged]]
    BY <1>2, <2>1 DEF Types, CallTypes
  <2>7. /\ call' \in [Calls -> Handlers \cup {Unused}]
        /\ \A e \in Calls : e # c => call'[e] = call[e]
        /\ call'[c] = [call[c] EXCEPT !.stage = "merging", !.claim = d, !.out = merged]
    BY <1>2, <2>2, <2>6 DEF Types, CallTypes
  <2>3. Moves(c, "merging", call[c].answer, d, merged)
    BY <1>2, <2>2, <2>7 DEF Moves, Handlers
  <2>4. UNCHANGED <<noteVars, baseVars, chatVars, histVars>>
    BY DEF MergeStaged
  <2>5. queue' \in [Notes -> Seq(Writes)]
    BY <1>1, <2>1, AskTypes
  <2>. QED
    BY <1>1, <1>2, <1>4, <1>8, <1>10, <2>1, <2>3, <2>4, <2>5 DEF d, merged
<1>. QED
  BY <1>9, <1>10

\* The table of the changes.
ChangeTypes == [Calls -> Changes \cup {NoChange, Pruned}]

\* The direct write of a merged body is kept off a conflict, or it lands and accepts.
LEMMA FinishMergeDoes ==
    ASSUME Types, NEW c \in Calls, FinishMerge(c)
    PROVE  LET d == call[c].claim n == NoteOf(c) IN
           /\ c \in Arrived /\ call[c].stage = "merging" /\ Turn("handler", c)
           /\ n \in loaded /\ d \in Calls \cup {NoCall}
           /\ \/ /\ Moves(c, "done", "queued", d, call[c].out)
                 /\ UNCHANGED <<body, change, landed>>
              \/ /\ n \notin conflict
                 /\ Moves(c, "done", "applied", d, call[c].out)
                 /\ body' = [body EXCEPT ![n] = call[c].out] /\ call[c].out \in SUBSET Pieces
                 /\ change' = Accepted(d) /\ landed' = landed \cup {c, d}
           /\ UNCHANGED <<loaded, conflict, baseVars, chatVars, crossed>>
<1>1. c \in Arrived /\ call[c].stage = "merging" /\ Turn("handler", c)
  BY DEF FinishMerge, Arrived
<1>2. NoteOf(c) \in loaded /\ call[c].claim \in Calls \cup {NoCall}
          /\ call[c].out \in SUBSET Pieces
  BY <1>1, TurnTypes, FieldTypes
<1>. DEFINE d == call[c].claim
<1>3. UNCHANGED <<loaded, conflict, baseVars, chatVars, crossed>>
  BY DEF FinishMerge
<1>4. CASE Finish(c, "queued", d) /\ UNCHANGED <<body, change, landed>>
  <2>1. /\ Moves(c, "done", "queued", d, call[c].out)
    BY <1>1, <1>2, <1>4, FinishTypes DEF Answers
  <2>. QED
    BY <1>1, <1>2, <1>3, <1>4, <2>1
<1>5. CASE /\ NoteOf(c) \notin conflict
           /\ body' = [body EXCEPT ![NoteOf(c)] = call[c].out]
           /\ change' = Accepted(d)
           /\ landed' = landed \cup {c, d}
           /\ Finish(c, "applied", d)
  <2>1. /\ Moves(c, "done", "applied", d, call[c].out)
    BY <1>1, <1>2, <1>5, FinishTypes DEF Answers
  <2>. QED
    BY <1>1, <1>2, <1>3, <1>5, <2>1
<1>. QED
  BY <1>4, <1>5 DEF FinishMerge

\* The guarded write lands and accepts, or ends as a card or a refusal and writes nothing.
LEMMA GuardedWriteDoes ==
    ASSUME Types, NEW c \in Calls, GuardedWrite(c)
    PROVE  LET n == NoteOf(c) k == call[c].claim IN
           /\ c \in Arrived /\ call[c].stage = "writing" /\ Turn("handler", c)
           /\ n \in loaded
           /\ \/ /\ Moves(c, "done", "applied", k, call[c].out)
                 /\ n \notin conflict
                 /\ body' = [body EXCEPT ![n] = Content(c)] /\ Content(c) \in SUBSET Pieces
                 /\ change' = Accepted(c) /\ landed' = landed \cup {c}
              \/ \E a \in {"queued", "refused"} :
                 /\ Moves(c, "done", a, k, call[c].out)
                 /\ UNCHANGED <<body, change, landed>>
           /\ UNCHANGED <<loaded, conflict, shown, unsent, chatVars, crossed>>
<1>1. c \in Arrived /\ call[c].stage = "writing" /\ Turn("handler", c)
  BY DEF GuardedWrite, Arrived
<1>2. NoteOf(c) \in loaded /\ call[c].claim \in Calls \cup {NoCall}
          /\ Content(c) \in SUBSET Pieces
  BY <1>1, TurnTypes, FieldTypes
<1>3. UNCHANGED <<loaded, conflict, shown, unsent, chatVars, crossed>>
  BY DEF GuardedWrite
<1>. DEFINE k == call[c].claim
<1>4. ASSUME NEW a \in {"queued", "refused"}, Finish(c, a, k),
             UNCHANGED <<body, change, landed>>
      PROVE  /\ Moves(c, "done", a, k, call[c].out)
  <2>1. a \in Answers /\ k \in Calls \cup {NoCall}
    BY <1>2 DEF Answers
  <2>. HIDE DEF k
  <2>. QED
    BY <1>1, <1>4, <2>1, FinishTypes
<1>5. CASE \E a \in {"queued", "refused"} :
               Finish(c, a, k) /\ UNCHANGED <<body, change, landed>>
  BY <1>1, <1>2, <1>3, <1>4, <1>5
<1>6. CASE /\ NoteOf(c) \notin conflict /\ body' = [body EXCEPT ![NoteOf(c)] = Content(c)]
           /\ change' = Accepted(c) /\ landed' = landed \cup {c} /\ Finish(c, "applied", k)
  <2>1. /\ Moves(c, "done", "applied", k, call[c].out)
    BY <1>1, <1>2, <1>6, FinishTypes DEF Answers
  <2>. QED
    BY <1>1, <1>2, <1>3, <1>6, <2>1
<1>7. \/ Finish(c, "queued", k) /\ UNCHANGED <<body, change, landed>>
      \/ Finish(c, "refused", k) /\ UNCHANGED <<body, change, landed>>
      \/ /\ NoteOf(c) \notin conflict /\ body' = [body EXCEPT ![NoteOf(c)] = Content(c)]
         /\ change' = Accepted(c) /\ landed' = landed \cup {c} /\ Finish(c, "applied", k)
  BY DEF GuardedWrite
<1>8. (\E a \in {"queued", "refused"} : Finish(c, a, k) /\ UNCHANGED <<body, change, landed>>)
      \/ /\ NoteOf(c) \notin conflict /\ body' = [body EXCEPT ![NoteOf(c)] = Content(c)]
         /\ change' = Accepted(c) /\ landed' = landed \cup {c} /\ Finish(c, "applied", k)
  BY <1>7
<1>. QED
  BY <1>5, <1>6, <1>8

\* What the guard records of the note is well typed: the retry count has no bound but Nat.
LEMMA GuardedWriteBases ==
    ASSUME Types, NEW c \in Calls, GuardedWrite(c)
    PROVE  /\ base' \in [Notes -> Bodies] /\ stale' \in [Notes -> Nat]
           /\ seen' \in [Chats -> [Notes -> SUBSET UserText]]
<1>1. c \in Arrived /\ Turn("handler", c)
  BY DEF GuardedWrite, Arrived
<1>. DEFINE n == NoteOf(c)
            t == call[c].chat
<1>2. n \in Notes /\ t \in Chats /\ Content(c) \in Bodies
  BY <1>1, FieldTypes, NotNoBody
<1>. HIDE DEF n, t
<1>3. seen[t] \in [Notes -> SUBSET UserText]
  BY <1>2 DEF Types, NoteTypes
<1>4. [seen EXCEPT ![t][n] = @ \cup (body[n] \cap UserText)]
          \in [Chats -> [Notes -> SUBSET UserText]]
  BY <1>2, <1>3 DEF Types, NoteTypes
<1>5. seen' = seen \/ seen' = [seen EXCEPT ![t][n] = @ \cup (body[n] \cap UserText)]
  BY DEF GuardedWrite, n, t
<1>6. base' = base \/ base' = [base EXCEPT ![n] = Content(c)]
          \/ base' = [base EXCEPT ![n] = body[n]]
  BY DEF GuardedWrite, n
<1>7. stale' = stale \/ stale' = [stale EXCEPT ![n] = 0] \/ stale' = [stale EXCEPT ![n] = @ + 1]
  BY DEF GuardedWrite, n
<1>8. base' \in [Notes -> Bodies]
  BY <1>2, <1>6 DEF Types, NoteTypes
<1>9. stale' \in [Notes -> Nat]
  BY <1>2, <1>7 DEF Types, NoteTypes
<1>. QED
  BY <1>4, <1>5, <1>8, <1>9 DEF Types, NoteTypes

\* Create and the fitting case of Open.
GetsCard(c, kind, claim) ==
    /\ Unclaimed(c) /\ Stage(c, kind, claim)
    /\ UNCHANGED <<loaded, conflict, baseVars, chatVars, histVars>>
    /\ \/ /\ kind = "add" /\ claim = c /\ body[NoteOf(c)] = NoBody
          /\ body' = [body EXCEPT ![NoteOf(c)] = {}]
       \/ /\ kind \in {"whole", "range"} /\ claim = NoCall /\ NoteOf(c) \in loaded
          /\ UNCHANGED body

\* A call whose path is not claimed gets a card of its own or is turned down.
LEMMA OpenDoes ==
    ASSUME Types, NEW c \in Calls, Create(c) \/ Open(c)
    PROVE  \/ \E kind \in {"add", "whole", "range"}, claim \in {c, NoCall} :
                 GetsCard(c, kind, claim)
           \/ /\ Unclaimed(c) /\ Finish(c, "refused", NoCall)
              /\ UNCHANGED <<change, queue, noteVars, baseVars, chatVars, histVars>>
<1>1. CASE Create(c)
  BY <1>1 DEF Create, GetsCard
<1>2. CASE Open(c)
  <2>1. UNCHANGED <<noteVars, baseVars, chatVars, histVars>>
    BY <1>2 DEF Open
  <2>2. Unclaimed(c) /\ NoteOf(c) \in loaded
    BY <1>2 DEF Open
  <2>3. CASE Finish(c, "refused", NoCall) /\ UNCHANGED <<change, queue>>
    BY <2>1, <2>2, <2>3
  <2>4. CASE Stage(c, IF call[c].kind = "Write" THEN "whole" ELSE "range", NoCall)
    <3>. DEFINE kind == IF call[c].kind = "Write" THEN "whole" ELSE "range"
    <3>1. kind \in {"whole", "range"} /\ Stage(c, kind, NoCall)
      BY <2>4
    <3>. HIDE DEF kind
    <3>2. GetsCard(c, kind, NoCall)
      BY <2>1, <2>2, <3>1 DEF GetsCard, noteVars
    <3>. QED
      BY <3>1, <3>2
  <2>. QED
    BY <1>2, <2>3, <2>4 DEF Open
<1>. QED
  BY <1>1, <1>2

-----------------------------------------------------------------------------
(* The queues *)

\* The write of c by its handler or by the applier waits for the note n.
In(by, c, n) == \E i \in DOMAIN queue[n] : queue[n][i] = Write(by, c)

\* No write is queued twice.
Once == \A n \in Notes : \A i, j \in DOMAIN queue[n] : queue[n][i] = queue[n][j] => i = j

\* Who asks for writes.
Roles == {"handler", "applier"}

\* A queued write tells who asked for it and for which call.
LEMMA WritesDiffer ==
    \A by, by2 \in Roles : \A c, c2 : Write(by, c) = Write(by2, c2) <=> by = by2 /\ c = c2
BY DEF Write

\* A write that takes its turn leaves its queue, and nothing else moves.
LEMMA TurnDoes ==
    ASSUME Types, Once, NEW c \in Arrived, NEW by \in Roles, Turn(by, c)
    PROVE  /\ Once' /\ In(by, c, NoteOf(c))
           /\ \A r \in Roles, d \in Calls, m \in Notes :
                 In(r, d, m)' <=> In(r, d, m) /\ ~(r = by /\ d = c /\ m = NoteOf(c))
<1>. PICK n \in Notes : n = NoteOf(c)
  BY TurnTypes DEF Roles
<1>1. queue[n] \in Seq(Writes) /\ queue[n] # <<>> /\ Head(queue[n]) = Write(by, c)
  BY TurnTypes DEF Turn, Types, CallTypes, Roles
<1>2. queue' = [queue EXCEPT ![n] = Tail(@)]
  BY DEF Turn
<1>3. queue'[n] = Tail(queue[n]) /\ \A m \in Notes : m # n => queue'[m] = queue[m]
  BY <1>1, <1>2 DEF Types, CallTypes
<1>4. /\ DOMAIN queue[n] = 1 .. Len(queue[n]) /\ Len(queue[n]) \in Nat \ {0}
      /\ queue[n][1] = Write(by, c)
      /\ DOMAIN queue'[n] = 1 .. Len(queue[n]) - 1
      /\ \A i \in 1 .. Len(queue[n]) - 1 : queue'[n][i] = queue[n][i + 1]
  BY <1>1, <1>3, HeadTailProperties
<1>5. Once'
  <2>. SUFFICES ASSUME NEW m \in Notes, NEW i \in DOMAIN queue'[m], NEW j \in DOMAIN queue'[m],
                       queue'[m][i] = queue'[m][j]
               PROVE  i = j
    BY DEF Once
  <2>1. CASE m # n
    BY <1>3, <2>1 DEF Once
  <2>2. CASE m = n
    <3>1. /\ i \in 1 .. Len(queue[n]) - 1 /\ j \in 1 .. Len(queue[n]) - 1
          /\ i + 1 \in DOMAIN queue[n] /\ j + 1 \in DOMAIN queue[n]
          /\ queue[n][i + 1] = queue[n][j + 1]
      BY SMTT(20), <1>4, <2>2
    <3>2. i + 1 = j + 1
      BY <3>1 DEF Once
    <3>. QED
      BY <3>1, <3>2
  <2>. QED
    BY <2>1, <2>2
<1>6. In(by, c, n)
  BY <1>4 DEF In
<1>7. ASSUME NEW r \in Roles, NEW d \in Calls, NEW m \in Notes
      PROVE  In(r, d, m)' <=> In(r, d, m) /\ ~(r = by /\ d = c /\ m = n)
  <2>1. CASE m # n
    BY <1>3, <2>1 DEF In
  <2>2. CASE m = n
    <3>1. ASSUME In(r, d, n)' PROVE In(r, d, n) /\ ~(r = by /\ d = c)
      <4>1. PICK i \in 1 .. Len(queue[n]) - 1 : queue'[n][i] = Write(r, d)
        BY <1>4, <3>1 DEF In
      <4>2. i + 1 \in DOMAIN queue[n] /\ queue[n][i + 1] = Write(r, d) /\ i + 1 # 1
                /\ 1 \in DOMAIN queue[n]
        BY <1>4, <4>1
      <4>3. Write(r, d) # Write(by, c)
        BY <1>1, <1>4, <4>2 DEF Once
      <4>. QED
        BY <4>2, <4>3, WritesDiffer DEF In
    <3>2. ASSUME In(r, d, n), ~(r = by /\ d = c) PROVE In(r, d, n)'
      <4>1. PICK i \in 1 .. Len(queue[n]) : queue[n][i] = Write(r, d)
        BY <1>4, <3>2 DEF In
      <4>2. i # 1
        BY <1>4, <3>2, <4>1, WritesDiffer
      <4>3. i - 1 \in 1 .. Len(queue[n]) - 1 /\ queue'[n][i - 1] = Write(r, d)
        BY <1>4, <4>1, <4>2
      <4>. QED
        BY <1>4, <4>3 DEF In
    <3>. QED
      BY <2>2, <3>1, <3>2
  <2>. QED
    BY <2>1, <2>2
<1>. QED
  BY <1>5, <1>6, <1>7

\* A write that is asked for joins one queue, once.
LEMMA AskDoes ==
    ASSUME Types, Once, NEW c \in Arrived, NEW by \in Roles, Ask(by, c), ~In(by, c, NoteOf(c))
    PROVE  /\ Once'
           /\ \A r \in Roles, d \in Calls, m \in Notes :
                 In(r, d, m)' <=> In(r, d, m) \/ (r = by /\ d = c /\ m = NoteOf(c))
<1>. PICK n \in Notes : n = NoteOf(c)
  BY FieldTypes
<1>. PICK w \in Writes : w = Write(by, c)
  BY FieldTypes DEF Roles, Write, Writes
<1>1. queue[n] \in Seq(Writes)
  BY FieldTypes DEF Types, CallTypes, Roles, Write, Writes
<1>2. queue' = [queue EXCEPT ![n] = Append(@, w)]
  BY DEF Ask
<1>8. ~In(by, c, n)
  OBVIOUS
<1>3. queue'[n] = Append(queue[n], w) /\ \A m \in Notes : m # n => queue'[m] = queue[m]
  BY <1>1, <1>2 DEF Types, CallTypes
<1>4. /\ DOMAIN queue[n] = 1 .. Len(queue[n]) /\ Len(queue[n]) \in Nat
      /\ DOMAIN queue'[n] = 1 .. Len(queue[n]) + 1
      /\ \A i \in 1 .. Len(queue[n]) : queue'[n][i] = queue[n][i]
      /\ queue'[n][Len(queue[n]) + 1] = w
  BY <1>1, <1>3, AppendProperties
<1>5. \A i \in 1 .. Len(queue[n]) : queue[n][i] # w
  BY <1>4, <1>8 DEF In
<1>6. Once'
  <2>. SUFFICES ASSUME NEW m \in Notes, NEW i \in DOMAIN queue'[m], NEW j \in DOMAIN queue'[m],
                       queue'[m][i] = queue'[m][j]
               PROVE  i = j
    BY DEF Once
  <2>1. CASE m # n
    BY <1>3, <2>1 DEF Once
  <2>2. CASE m = n
    <3>1. i \in 1 .. Len(queue[n]) + 1 /\ j \in 1 .. Len(queue[n]) + 1
      BY <1>4, <2>2
    <3>2. CASE i \in DOMAIN queue[n] /\ j \in DOMAIN queue[n]
      <4>1. queue[n][i] = queue[n][j]
        BY <1>4, <2>2, <3>2
      <4>. QED
        BY <3>2, <4>1 DEF Once
    <3>3. CASE i = Len(queue[n]) + 1 /\ j \in 1 .. Len(queue[n])
      BY <1>4, <1>5, <2>2, <3>3
    <3>4. CASE j = Len(queue[n]) + 1 /\ i \in 1 .. Len(queue[n])
      BY <1>4, <1>5, <2>2, <3>4
    <3>5. CASE i = Len(queue[n]) + 1 /\ j = Len(queue[n]) + 1
      BY <3>5
    <3>. QED
      BY <1>4, <3>1, <3>2, <3>3, <3>4, <3>5
  <2>. QED
    BY <2>1, <2>2
<1>7. ASSUME NEW r \in Roles, NEW d \in Calls, NEW m \in Notes
      PROVE  In(r, d, m)' <=> In(r, d, m) \/ (r = by /\ d = c /\ m = n)
  <2>1. CASE m # n
    BY <1>3, <2>1 DEF In
  <2>2. CASE m = n
    <3>1. In(r, d, n)' <=> \E i \in 1 .. Len(queue[n]) + 1 : queue'[n][i] = Write(r, d)
      BY <1>4 DEF In
    <3>2. In(r, d, n) <=> \E i \in 1 .. Len(queue[n]) : queue[n][i] = Write(r, d)
      BY <1>4 DEF In
    <3>3. w = Write(r, d) <=> r = by /\ d = c
      BY WritesDiffer
    <3>. QED
      BY <1>4, <2>2, <3>1, <3>2, <3>3
  <2>. QED
    BY <2>1, <2>2
<1>. QED
  BY <1>6, <1>7

\* A step that leaves the queues alone leaves every place in them alone.
LEMMA SameQueue ==
    ASSUME UNCHANGED queue
    PROVE  (Once' <=> Once) /\ \A r, d, m : In(r, d, m)' <=> In(r, d, m)
BY DEF Once, In

-----------------------------------------------------------------------------
(* What the other steps do *)

\* A proposal arrives: a new handler waits behind the last one of its chat and path.
LEMMA ProposeDoes ==
    ASSUME Types, NEW t \in Chats, NEW c \in Calls, NEW n \in Notes, NEW p \in Proposed,
           Propose(t, c, n, p)
    PROVE  /\ c \notin Arrived /\ t \in running
           /\ call' \in [Calls -> Handlers \cup {Unused}] /\ call'[c] \in Handlers
           /\ \A d \in Calls : d # c => call'[d] = call[d]
           /\ call'[c].stage = "waiting" /\ call'[c].chat = t /\ call'[c].note = n
           /\ call'[c].prior = tail[t][n] /\ call'[c].claim = NoCall /\ call'[c].out = {}
           /\ call'[c].answer = "none"
           /\ tail' \in [Chats -> [Notes -> Calls \cup {NoCall}]]
           /\ \A u \in Chats, m \in Notes :
                 tail'[u][m] = IF u = t /\ m = n THEN c ELSE tail[u][m]
           /\ UNCHANGED <<noteVars, baseVars, running, auto, change, queue, histVars>>
<1>1. tail[t] \in [Notes -> Calls \cup {NoCall}] /\ tail[t][n] \in Calls \cup {NoCall}
      /\ seen[t][n] \in SUBSET UserText
  BY DEF Types, NoteTypes, CallTypes
<1>2. p.kind \in {"Edit", "Write"} /\ p.target \in Anchors \cup {NoCall}
  BY DEF Proposed
<1>3. NewCall(t, n, p, tail[t][n], seen[t][n]) \in Handlers
  BY <1>1, <1>2 DEF NewCall, Handlers
<1>4. call' = [call EXCEPT ![c] = NewCall(t, n, p, tail[t][n], seen[t][n])]
  BY DEF Propose
<1>5. tail' = [tail EXCEPT ![t][n] = c]
  BY DEF Propose
<1>6. c \notin Arrived /\ t \in running
      /\ UNCHANGED <<noteVars, baseVars, running, auto, change, queue, histVars>>
  BY DEF Propose, Arrived
<1>7. tail' \in [Chats -> [Notes -> Calls \cup {NoCall}]]
      /\ \A u \in Chats, m \in Notes : tail'[u][m] = IF u = t /\ m = n THEN c ELSE tail[u][m]
  BY <1>1, <1>5 DEF Types, CallTypes
<1>8. call'[c] = NewCall(t, n, p, tail[t][n], seen[t][n])
      /\ call' \in [Calls -> Handlers \cup {Unused}]
      /\ \A d \in Calls : d # c => call'[d] = call[d]
  BY <1>3, <1>4 DEF Types, CallTypes
<1>. QED
  BY <1>3, <1>6, <1>7, <1>8 DEF NewCall

\* A step that changes the entry of d only, leaving what is staged in it.
Turns(d, status, failed) ==
    /\ change' \in ChangeTypes /\ change'[d] \in Changes
    /\ change'[d].status = status /\ change'[d].failed = failed
    /\ change'[d].kind = change[d].kind /\ change'[d].after = change[d].after
    /\ change'[d].delivered = change[d].delivered
    /\ \A c \in Calls : c # d => change'[c] = change[c]

\* Accepting a pending change turns its status; any other is left as it is.
LEMMA AcceptedTurns ==
    ASSUME Types, NEW d \in Calls, change' = Accepted(d)
    PROVE  /\ change' \in ChangeTypes /\ \A c \in Calls : c # d => change'[c] = change[c]
           /\ change[d].status # "pending" => change'[d] = change[d]
           /\ change[d].status = "pending" => Turns(d, "accepted", change[d].failed)
<1>1. /\ change' \in ChangeTypes /\ \A c \in Calls : c # d => change'[c] = change[c]
      /\ change[d].status # "pending" => change'[d] = change[d]
      /\ change[d].status = "pending" => change'[d] = [change[d] EXCEPT !.status = "accepted"]
  BY AcceptedTypes DEF ChangeTypes
<1>2. ASSUME change[d].status = "pending" PROVE Turns(d, "accepted", change[d].failed)
  <2>1. change[d] \in Changes /\ change'[d] = [change[d] EXCEPT !.status = "accepted"]
    BY <1>1, <1>2 DEF Types, CallTypes, NoChange, Pruned
  <2>2. change'[d] \in Changes
    BY <2>1 DEF Changes
  <2>. QED
    BY <1>1, <2>1, <2>2 DEF Turns, Changes
<1>. QED
  BY <1>1, <1>2

\* Keep accepts a pending change and asks for its write.
LEMMA KeepDoes ==
    ASSUME Types, NEW c \in Calls, Keep(c)
    PROVE  /\ Yielded /\ change[c].status = "pending" /\ Turns(c, "accepted", change[c].failed)
           /\ Ask("applier", c)
           /\ crossed' = IF call[c].stage = "done" THEN crossed ELSE crossed \cup {c}
           /\ UNCHANGED <<noteVars, baseVars, chatVars, call, landed>>
BY AcceptedTurns DEF Keep

\* Reject turns a pending change to rejected and writes nothing.
LEMMA RejectDoes ==
    ASSUME Types, NEW c \in Calls, Reject(c)
    PROVE  /\ Yielded /\ change[c].status = "pending" /\ Turns(c, "rejected", change[c].failed)
           /\ crossed' = IF call[c].stage = "done" THEN crossed ELSE crossed \cup {c}
           /\ UNCHANGED <<noteVars, baseVars, chatVars, call, queue, landed>>
<1>1. change[c] \in Changes
  BY DEF Reject, Types, CallTypes, NoChange, Pruned
<1>2. [change[c] EXCEPT !.status = "rejected"] \in Changes
  BY <1>1 DEF Changes
<1>3. change' = [change EXCEPT ![c] = [change[c] EXCEPT !.status = "rejected"]]
  BY DEF Reject, Types, CallTypes
<1>4. change' \in ChangeTypes /\ change'[c] = [change[c] EXCEPT !.status = "rejected"]
      /\ \A d \in Calls : d # c => change'[d] = change[d]
  BY <1>2, <1>3 DEF Types, CallTypes, ChangeTypes
<1>5. Turns(c, "rejected", change[c].failed)
  BY <1>1, <1>2, <1>4 DEF Turns, Changes
<1>. QED
  BY <1>5 DEF Reject

\* The applier writes an accepted change on its turn, or marks it as failed.
LEMMA ApplyDoes ==
    ASSUME Types, NEW c \in Arrived, ApplyAccepted(c)
    PROVE  LET n == NoteOf(c) IN
           /\ c \in Calls /\ c \in Stored /\ Turn("applier", c) /\ n \in loaded
           /\ \/ /\ Applicable(c) /\ body' = [body EXCEPT ![n] = Applied(c)]
                 /\ Applied(c) \in SUBSET Pieces
                 /\ landed' = landed \cup {c} /\ UNCHANGED change
              \/ /\ ~Applicable(c) /\ Turns(c, change[c].status, TRUE)
                 /\ UNCHANGED <<body, landed>>
           /\ UNCHANGED <<loaded, conflict, baseVars, chatVars, call, crossed>>
<1>1. c \in Calls /\ c \in Stored /\ Turn("applier", c)
      /\ UNCHANGED <<loaded, conflict, baseVars, chatVars, call, crossed>>
  BY DEF ApplyAccepted, Arrived
<1>2. NoteOf(c) \in loaded /\ change[c] \in Changes
  BY <1>1, TurnTypes, InHandlers
<1>3. Applied(c) \in SUBSET Pieces
  <2>1. body[NoteOf(c)] \in SUBSET Pieces
    BY <1>2, BodyTypes
  <2>2. Replaced(body[NoteOf(c)], c) \in SUBSET Pieces
    BY <2>1, FieldTypes
  <2>. QED
    BY <1>2, <2>1, <2>2 DEF Applied, Changes
<1>4. ASSUME change' = [change EXCEPT ![c].failed = TRUE] PROVE Turns(c, change[c].status, TRUE)
  <2>1. [change[c] EXCEPT !.failed = TRUE] \in Changes
    BY <1>2 DEF Changes
  <2>2. change' = [change EXCEPT ![c] = [change[c] EXCEPT !.failed = TRUE]]
    BY <1>1, <1>4 DEF Types, CallTypes
  <2>3. change' \in ChangeTypes /\ change'[c] = [change[c] EXCEPT !.failed = TRUE]
        /\ \A d \in Calls : d # c => change'[d] = change[d]
    BY <1>1, <2>1, <2>2 DEF Types, CallTypes, ChangeTypes
  <2>. QED
    BY <1>2, <2>1, <2>3 DEF Turns, Changes
<1>. QED
  BY <1>1, <1>2, <1>3, <1>4 DEF ApplyAccepted

\* Pruning drops the entry of a decided change that no write waits for.
LEMMA PruneDoes ==
    ASSUME Types, NEW c \in Calls, PruneDecided(c)
    PROVE  /\ Yielded /\ change[c].status \in {"accepted", "rejected"} /\ ~Asked(c)
           /\ change' \in ChangeTypes /\ change'[c] = Pruned
           /\ \A d \in Calls : d # c => change'[d] = change[d]
           /\ UNCHANGED <<noteVars, baseVars, chatVars, call, queue, histVars>>
<1>1. change' = [change EXCEPT ![c] = Pruned]
  BY DEF PruneDecided, Pruned
<1>. QED
  BY <1>1 DEF PruneDecided, Types, CallTypes, ChangeTypes

\* What is staged, and what was decided, stays; entries are only marked.
SameEntries ==
    /\ change' \in ChangeTypes
    /\ \A c \in Calls :
          /\ change[c] \notin Changes => change'[c] = change[c]
          /\ change[c] \in Changes =>
                /\ change'[c] \in Changes /\ change'[c].status = change[c].status
                /\ change'[c].kind = change[c].kind /\ change'[c].after = change[c].after
                /\ change'[c].failed = change[c].failed

\* A prompt marks outcomes as delivered and clears the tails of its chat, no more.
LEMMA PromptDoes ==
    ASSUME Types, NEW t \in Chats, NEW open \in SUBSET Notes, NEW mentioned \in SUBSET Notes,
           Prompt(t, open, mentioned)
    PROVE  /\ SameEntries /\ t \notin running /\ running' = running \cup {t}
           /\ tail' \in [Chats -> [Notes -> Calls \cup {NoCall}]]
           /\ \A u \in Chats, n \in Notes : tail'[u][n] \in {NoCall, tail[u][n]}
           /\ base' \in [Notes -> Bodies] /\ seen' \in [Chats -> [Notes -> SUBSET UserText]]
           /\ UNCHANGED <<noteVars, stale, auto, call, queue, histVars>>
<1>1. change' = [c \in Calls |-> IF c \in Reported(t) THEN [change[c] EXCEPT !.delivered = TRUE]
                                 ELSE change[c]]
  BY DEF Prompt
<1>2. \A c \in Reported(t) : c \in Calls /\ change[c] \in Changes
  BY InHandlers DEF Reported, Stored
<1>3. \A c \in Calls : change[c] \in Changes =>
          LET e == [change[c] EXCEPT !.delivered = TRUE] IN
          /\ e \in Changes /\ e.status = change[c].status /\ e.kind = change[c].kind
          /\ e.after = change[c].after /\ e.failed = change[c].failed
  BY DEF Changes
<1>4. ASSUME NEW c \in Calls
      PROVE  /\ change[c] \notin Changes => change'[c] = change[c]
             /\ change[c] \in Changes =>
                   /\ change'[c] \in Changes /\ change'[c].status = change[c].status
                   /\ change'[c].kind = change[c].kind /\ change'[c].after = change[c].after
                   /\ change'[c].failed = change[c].failed
  BY <1>1, <1>2, <1>3
<1>5. \A c \in Calls : change'[c] \in Changes \cup {NoChange, Pruned}
  BY <1>4 DEF Types, CallTypes
<1>6. SameEntries
  BY <1>1, <1>4, <1>5 DEF SameEntries, ChangeTypes
<1>7. tail' = [tail EXCEPT ![t] = [n \in Notes |-> NoCall]]
  BY DEF Prompt
<1>8. tail' \in [Chats -> [Notes -> Calls \cup {NoCall}]]
      /\ \A u \in Chats, n \in Notes : tail'[u][n] \in {NoCall, tail[u][n]}
  BY <1>7 DEF Types, CallTypes
<1>9. base' = [n \in Notes |-> IF n \in Sent(t, open, mentioned) THEN body[n] ELSE base[n]]
  BY DEF Prompt, Compose
<1>10. base' \in [Notes -> Bodies]
  BY <1>9 DEF Types, NoteTypes
<1>11. seen' = [seen EXCEPT ![t] = [n \in Notes |-> IF n \in Sent(t, open, mentioned)
                                          THEN seen[t][n] \cup (body[n] \cap UserText)
                                          ELSE seen[t][n]]]
  BY DEF Prompt, With, Types, NoteTypes
<1>12. seen' \in [Chats -> [Notes -> SUBSET UserText]]
  BY <1>11 DEF Types, NoteTypes
<1>. QED
  BY <1>6, <1>8, <1>10, <1>12 DEF Prompt, Compose

\* A prompt that never leaves moves the bases, and nothing of the calls.
LEMMA PromptFailsDoes ==
    ASSUME Types, NEW t \in Chats, NEW open \in SUBSET Notes, NEW mentioned \in SUBSET Notes,
           PromptFails(t, open, mentioned)
    PROVE  /\ base' \in [Notes -> Bodies]
           /\ UNCHANGED <<noteVars, stale, seen, chatVars, call, change, queue, histVars>>
<1>1. base' = [n \in Notes |-> IF n \in Sent(t, open, mentioned) THEN body[n] ELSE base[n]]
  BY DEF PromptFails, Compose
<1>. QED
  BY <1>1 DEF PromptFails, Types, NoteTypes

\* Steps on the notes alone.
NoteStep ==
    \/ \E n \in Notes : Load(n) \/ ConflictChanges(n)
    \/ \E n \in Notes, u \in UserText : UserTypes(n, u)
    \/ \E n \in Notes, x \in Anchors : UserDeletes(n, x)

\* What the user and other programs do to a note leaves the text of calls as it is.
LEMMA NoteStepDoes ==
    ASSUME Types, NoteStep
    PROVE  /\ body' \in [Notes -> Bodies] /\ loaded \subseteq loaded' /\ loaded' \subseteq Notes
           /\ conflict' \subseteq loaded' /\ \A n \in loaded' : body'[n] # NoBody
           /\ \A n \in Notes : /\ body[n] # NoBody => body'[n] # NoBody
                               /\ body'[n] \cap Calls = body[n] \cap Calls
           /\ \A n \in conflict' \ conflict : CreatedHere(n) => NewConflicts
           /\ UNCHANGED <<baseVars, chatVars, call, change, queue, histVars>>
<1>1. CASE \E n \in Notes : Load(n)
  BY <1>1 DEF Load, Types, NoteTypes
<1>2. CASE \E n \in Notes : ConflictChanges(n)
  BY <1>2 DEF ConflictChanges, OnNote, Types, NoteTypes
<1>3. ASSUME NEW n \in loaded, NEW b \in SUBSET Pieces, body' = [body EXCEPT ![n] = b],
             b \cap Calls = body[n] \cap Calls, UNCHANGED <<loaded, conflict>>
      PROVE  /\ body' \in [Notes -> Bodies] /\ \A m \in loaded' : body'[m] # NoBody
             /\ loaded' \subseteq Notes /\ conflict' \subseteq loaded'
             /\ \A m \in Notes : /\ body[m] # NoBody => body'[m] # NoBody
                                 /\ body'[m] \cap Calls = body[m] \cap Calls
  BY <1>3, NotNoBody DEF Types, NoteTypes
<1>4. CASE \E n \in Notes, u \in UserText : UserTypes(n, u)
  <2>1. PICK n \in Notes, u \in UserText : UserTypes(n, u)
    BY <1>4
  <2>2. n \in loaded /\ body' = [body EXCEPT ![n] = body[n] \cup {u}]
           /\ UNCHANGED <<loaded, conflict>>
        /\ UNCHANGED <<baseVars, chatVars, call, change, queue, histVars>>
    BY <2>1 DEF UserTypes, OnNote
  <2>3. body[n] \cup {u} \in SUBSET Pieces /\ (body[n] \cup {u}) \cap Calls = body[n] \cap Calls
    BY <2>2, BodyTypes, NamesAssumption DEF Pieces
  <2>. QED
    BY <1>3, <2>2, <2>3
<1>5. CASE \E n \in Notes, x \in Anchors : UserDeletes(n, x)
  <2>1. PICK n \in Notes, x \in Anchors : UserDeletes(n, x)
    BY <1>5
  <2>2. n \in loaded /\ body' = [body EXCEPT ![n] = body[n] \ {x}]
           /\ UNCHANGED <<loaded, conflict>>
        /\ UNCHANGED <<baseVars, chatVars, call, change, queue, histVars>>
    BY <2>1 DEF UserDeletes, OnNote
  <2>3. body[n] \ {x} \in SUBSET Pieces /\ (body[n] \ {x}) \cap Calls = body[n] \cap Calls
    BY <2>2, BodyTypes, NamesAssumption
  <2>. QED
    BY <1>3, <2>2, <2>3
<1>. QED
  BY <1>1, <1>2, <1>3, <1>4, <1>5 DEF NoteStep

\* Steps that leave the calls, the changes and the queues alone.
QuietStep ==
    \/ NoteStep
    \/ \E t \in Chats : EndTurn(t)
    \/ \E t \in Chats, open, mentioned \in SUBSET Notes : PromptFails(t, open, mentioned)

\* A quiet step keeps the types, and the text of calls in every note.
LEMMA QuietDoes ==
    ASSUME Types, QuietStep \/ UNCHANGED vars
    PROVE  /\ Types' /\ loaded \subseteq loaded'
           /\ \A n \in Notes : /\ body[n] # NoBody => body'[n] # NoBody
                               /\ body'[n] \cap Calls = body[n] \cap Calls
           /\ \A n \in conflict' \ conflict : CreatedHere(n) => NewConflicts
           /\ running' \subseteq running
           /\ UNCHANGED <<auto, tail, call, change, queue, histVars>>
<1>1. CASE NoteStep
  BY <1>1, NoteStepDoes DEF Types, NoteTypes, CallTypes, baseVars, chatVars, histVars
<1>2. CASE \E t \in Chats : EndTurn(t)
  BY <1>2 DEF EndTurn, Types, NoteTypes, CallTypes, baseVars, noteVars, histVars
<1>3. CASE \E t \in Chats, open, mentioned \in SUBSET Notes : PromptFails(t, open, mentioned)
  BY <1>3, PromptFailsDoes DEF Types, NoteTypes, CallTypes, noteVars, chatVars, histVars
<1>4. CASE UNCHANGED vars
  BY <1>4 DEF Types, NoteTypes, CallTypes, vars, noteVars, baseVars, chatVars, histVars
<1>. QED
  BY <1>1, <1>2, <1>3, <1>4 DEF QuietStep

\* A call is turned down before it gets a card.
Refuse(c) ==
    /\ c \in Arrived /\ call[c].stage = "waiting" /\ PriorDone(c)
    /\ Moves(c, "done", "refused", Claimed(c), call[c].out)
    /\ UNCHANGED <<noteVars, baseVars, chatVars, change, queue, histVars>>

\* The three ways to be turned down before a card are one.
LEMMA RefuseDoes ==
    ASSUME Types, NEW c \in Calls,
           \/ MergeDeclined(c) \/ MergeUnplaced(c)
           \/ /\ Unclaimed(c) /\ Finish(c, "refused", NoCall)
              /\ UNCHANGED <<change, queue, noteVars, baseVars, chatVars, histVars>>
    PROVE  Refuse(c)
<1>1. /\ c \in Arrived /\ call[c].stage = "waiting" /\ PriorDone(c)
      /\ Finish(c, "refused", Claimed(c))
      /\ UNCHANGED <<noteVars, baseVars, chatVars, change, queue, histVars>>
  BY DEF MergeDeclined, MergeUnplaced, Merging, Unclaimed, Arrived
<1>2. Moves(c, "done", "refused", Claimed(c), call[c].out)
  BY <1>1, ClaimedTypes, FinishTypes DEF Answers
<1>. QED
  BY <1>1, <1>2 DEF Refuse

\* What the user and the applier do with a change.
ChangeStep(c) == Keep(c) \/ Reject(c) \/ ApplyAccepted(c) \/ PruneDecided(c)

\* The steps of the program by what they do to calls, changes and queues.
LEMMA NextCases ==
    ASSUME Types, [Next]_vars
    PROVE  \/ QuietStep \/ UNCHANGED vars
           \/ \E t \in Chats, c \in Calls, n \in Notes, p \in Proposed : Propose(t, c, n, p)
           \/ \E t \in Chats, open, mentioned \in SUBSET Notes : Prompt(t, open, mentioned)
           \/ \E c \in Calls : \/ Refuse(c) \/ MergeStaged(c) \/ FinishMerge(c)
                               \/ GuardedWrite(c) \/ ChangeStep(c)
                               \/ \E kind \in {"add", "whole", "range"}, claim \in {c, NoCall} :
                                     GetsCard(c, kind, claim)
<1>1. CASE UserStep
  BY <1>1 DEF UserStep, QuietStep, NoteStep, ChangeStep
<1>2. CASE \E t \in Chats, c \in Calls, n \in Notes, p \in Proposed : Propose(t, c, n, p)
  BY <1>2
<1>3. CASE \E c \in Calls : Handler(c) \/ ApplyAccepted(c) \/ PruneDecided(c)
  <2>1. PICK c \in Calls : Handler(c) \/ ApplyAccepted(c) \/ PruneDecided(c)
    BY <1>3
  <2>2. CASE ApplyAccepted(c) \/ PruneDecided(c)
    BY <2>2 DEF ChangeStep
  <2>3. CASE MergeDeclined(c) \/ MergeUnplaced(c)
    BY <2>3, RefuseDoes
  <2>4. CASE Create(c) \/ Open(c)
    BY <2>4, OpenDoes, RefuseDoes
  <2>5. CASE MergeStaged(c) \/ FinishMerge(c) \/ GuardedWrite(c)
    BY <2>5
  <2>. QED
    BY <2>1, <2>2, <2>3, <2>4, <2>5 DEF Handler
<1>4. CASE \E n \in Notes : Load(n)
  BY <1>4 DEF QuietStep, NoteStep
<1>. QED
  BY <1>1, <1>2, <1>3, <1>4 DEF Next

\* What the types of the next state need: entries have handlers, merges have a target.
Grounded == /\ \A c \in Stored : c \in Arrived
            /\ \A c \in Calls : call[c].stage = "merging" => call[c].claim # NoCall

\* Every step keeps the types.
LEMMA TypesNext ==
    ASSUME Types, Grounded, [Next]_vars
    PROVE  Types'
<1>. USE DEF ChangeTypes
<1>1. CASE QuietStep \/ UNCHANGED vars
  BY <1>1, QuietDoes
<1>2. ASSUME NEW t \in Chats, NEW c \in Calls, NEW n \in Notes, NEW p \in Proposed,
             Propose(t, c, n, p)
      PROVE  Types'
  BY <1>2, ProposeDoes DEF Types, NoteTypes, CallTypes, noteVars, baseVars, histVars
<1>3. ASSUME NEW t \in Chats, NEW open \in SUBSET Notes, NEW mentioned \in SUBSET Notes,
             Prompt(t, open, mentioned)
      PROVE  Types'
  <2>1. /\ change' \in [Calls -> Changes \cup {NoChange, Pruned}] /\ running' = running \cup {t}
        /\ tail' \in [Chats -> [Notes -> Calls \cup {NoCall}]]
        /\ base' \in [Notes -> Bodies] /\ seen' \in [Chats -> [Notes -> SUBSET UserText]]
    BY <1>3, PromptDoes DEF SameEntries
  <2>2. UNCHANGED <<body, loaded, conflict, stale, auto, call, queue, landed, crossed>>
    BY <1>3, PromptDoes DEF noteVars, histVars
  <2>3. NoteTypes'
    BY <2>1, <2>2 DEF Types, NoteTypes
  <2>4. CallTypes'
    BY <2>1, <2>2 DEF Types, CallTypes
  <2>. QED
    BY <2>3, <2>4 DEF Types
<1>4. ASSUME NEW c \in Calls, Refuse(c) PROVE Types'
  BY <1>4 DEF Refuse, Moves, Types, NoteTypes, CallTypes, noteVars, baseVars, chatVars, histVars
<1>5. ASSUME NEW c \in Calls, MergeStaged(c) PROVE Types'
  <2>1. call' \in [Calls -> Handlers \cup {Unused}]
    BY <1>5, MergeStagedDoes DEF Moves
  <2>2. /\ change' \in [Calls -> Changes \cup {NoChange, Pruned}]
            /\ queue' \in [Notes -> Seq(Writes)]
        /\ UNCHANGED <<noteVars, baseVars, chatVars, histVars>>
    BY <1>5, MergeStagedDoes
  <2>. QED
    BY <2>1, <2>2 DEF Types, NoteTypes, CallTypes, noteVars, baseVars, chatVars, histVars
<1>6. ASSUME NEW c \in Calls, FinishMerge(c) PROVE Types'
  <2>1. c \in Arrived /\ Turn("handler", c) /\ NoteOf(c) \in loaded
            /\ call[c].claim \in Calls \cup {NoCall}
        /\ UNCHANGED <<loaded, conflict, baseVars, chatVars, crossed>>
    BY <1>6, FinishMergeDoes
  <2>2. queue' \in [Notes -> Seq(Writes)] /\ NoteOf(c) \in Notes
    BY <2>1, TurnTypes
  <2>3. call' \in [Calls -> Handlers \cup {Unused}]
    BY <1>6, FinishMergeDoes DEF Moves
  <2>4. CASE UNCHANGED <<body, change, landed>>
    BY <2>1, <2>2, <2>3, <2>4 DEF Types, NoteTypes, CallTypes, baseVars, chatVars
  <2>5. CASE /\ body' = [body EXCEPT ![NoteOf(c)] = call[c].out]
            /\ call[c].out \in SUBSET Pieces
             /\ change' = Accepted(call[c].claim) /\ landed' = landed \cup {c, call[c].claim}
    <3>1. call[c].claim \in Calls
      BY <1>6, <2>1, FinishMergeDoes DEF Grounded
    <3>2. change' \in [Calls -> Changes \cup {NoChange, Pruned}] /\ landed' \subseteq Calls
      BY <2>5, <3>1, AcceptedTypes DEF Types, CallTypes
    <3>3. body' \in [Notes -> Bodies] /\ (\A m \in loaded' : body'[m] # NoBody)
      BY <2>1, <2>2, <2>5, WrittenTypes
    <3>. QED
      BY <2>1, <2>2, <2>3, <3>2, <3>3 DEF Types, NoteTypes, CallTypes, baseVars, chatVars
  <2>. QED
    BY <1>6, <2>4, <2>5, FinishMergeDoes
<1>7. ASSUME NEW c \in Calls, NEW kind \in {"add", "whole", "range"}, NEW claim \in {c, NoCall},
             GetsCard(c, kind, claim)
      PROVE  Types'
  <2>1. c \in Arrived /\ NoteOf(c) \in Notes
    BY <1>7, FieldTypes DEF GetsCard, Unclaimed, Arrived
  <2>2. Stage(c, kind, claim) /\ UNCHANGED <<loaded, conflict, baseVars, chatVars, histVars>>
    BY <1>7 DEF GetsCard
  <2>3. /\ change' \in [Calls -> Changes \cup {NoChange, Pruned}]
            /\ queue' \in [Notes -> Seq(Writes)]
        /\ call' \in [Calls -> Handlers \cup {Unused}]
    BY <2>1, <2>2, StagedTypes DEF Moves
  <2>4. UNCHANGED body \/ body' = [body EXCEPT ![NoteOf(c)] = {}]
    BY <1>7 DEF GetsCard
  <2>5. body' \in [Notes -> Bodies] /\ (\A m \in loaded' : body'[m] # NoBody)
    BY <2>1, <2>2, <2>4, WrittenTypes DEF Types, NoteTypes
  <2>. QED
    BY <2>2, <2>3, <2>5 DEF Types, NoteTypes, CallTypes, baseVars, chatVars, histVars
<1>8. ASSUME NEW c \in Calls, GuardedWrite(c) PROVE Types'
  <2>1. c \in Arrived /\ Turn("handler", c) /\ NoteOf(c) \in loaded
        /\ UNCHANGED <<loaded, conflict, chatVars, crossed>>
    BY <1>8, GuardedWriteDoes
  <2>2. queue' \in [Notes -> Seq(Writes)] /\ NoteOf(c) \in Notes
    BY <2>1, TurnTypes
  <2>3. call' \in [Calls -> Handlers \cup {Unused}]
    BY <1>8, GuardedWriteDoes DEF Moves
  <2>4. CASE UNCHANGED <<body, change, landed>>
    BY <1>8, <2>1, <2>2, <2>3, <2>4, GuardedWriteBases DEF Types, NoteTypes, CallTypes, chatVars
  <2>5. CASE /\ body' = [body EXCEPT ![NoteOf(c)] = Content(c)] /\ Content(c) \in SUBSET Pieces
             /\ change' = Accepted(c) /\ landed' = landed \cup {c}
    <3>2. change' \in [Calls -> Changes \cup {NoChange, Pruned}] /\ landed' \subseteq Calls
      BY <2>5, AcceptedTypes DEF Types, CallTypes
    <3>3. body' \in [Notes -> Bodies] /\ (\A m \in loaded' : body'[m] # NoBody)
      BY <2>1, <2>2, <2>5, WrittenTypes
    <3>. QED
      BY <1>8, <2>1, <2>2, <2>3, <3>2, <3>3, GuardedWriteBases DEF Types, NoteTypes, CallTypes,
         chatVars
  <2>. QED
    BY <1>8, <2>4, <2>5, GuardedWriteDoes
<1>9. ASSUME NEW c \in Calls, Keep(c) PROVE Types'
  <2>1. c \in Arrived
    BY <1>9 DEF Keep, Grounded, Stored
  <2>2. queue' \in [Notes -> Seq(Writes)]
    BY <1>9, <2>1, AskTypes, KeepDoes
  <2>. QED
    BY ZenonT(30), <1>9, <2>2, KeepDoes DEF Turns, Types, NoteTypes, CallTypes, noteVars, baseVars, chatVars
<1>10. ASSUME NEW c \in Calls, Reject(c) PROVE Types'
  BY <1>10, RejectDoes DEF Turns, Types, NoteTypes, CallTypes, noteVars, baseVars, chatVars
<1>11. ASSUME NEW c \in Calls, ApplyAccepted(c) PROVE Types'
  <2>1. c \in Arrived
    BY <1>11 DEF ApplyAccepted, Grounded
  <2>2. Turn("applier", c) /\ NoteOf(c) \in loaded
        /\ UNCHANGED <<loaded, conflict, baseVars, chatVars, call, crossed>>
    BY <1>11, <2>1, ApplyDoes
  <2>3. queue' \in [Notes -> Seq(Writes)] /\ NoteOf(c) \in Notes
    BY <2>1, <2>2, TurnTypes
  <2>4. CASE body' = [body EXCEPT ![NoteOf(c)] = Applied(c)] /\ Applied(c) \in SUBSET Pieces
             /\ landed' = landed \cup {c} /\ UNCHANGED change
    <3>1. body' \in [Notes -> Bodies] /\ (\A m \in loaded' : body'[m] # NoBody)
      BY <2>2, <2>3, <2>4, WrittenTypes
    <3>. QED
      BY <2>2, <2>3, <2>4, <3>1 DEF Types, NoteTypes, CallTypes, baseVars, chatVars
  <2>5. CASE Turns(c, change[c].status, TRUE) /\ UNCHANGED <<body, landed>>
    BY <2>2, <2>3, <2>5 DEF Turns, Types, NoteTypes, CallTypes, baseVars, chatVars
  <2>. QED
    BY <1>11, <2>1, <2>4, <2>5, ApplyDoes
<1>12. ASSUME NEW c \in Calls, PruneDecided(c) PROVE Types'
  BY <1>12, PruneDoes DEF Types, NoteTypes, CallTypes, noteVars, baseVars, chatVars, histVars
<1>. QED
  BY <1>1, <1>2, <1>3, <1>4, <1>5, <1>6, <1>7, <1>8, <1>9, <1>10, <1>11, <1>12, NextCases
     DEF ChangeStep

-----------------------------------------------------------------------------
(* Nothing dangles *)

\* A write of c waits for the note of c.
Has(by, c) == In(by, c, NoteOf(c))

\* A queued write is its handler's, past waiting, or that of an accepted change.
QueueOK ==
    /\ Once
    /\ \A n \in Notes, by \in Roles, c \in Calls : In(by, c, n) =>
          /\ c \in Arrived /\ NoteOf(c) = n
          /\ by = "handler" => call[c].stage \in {"writing", "merging"}
          /\ by = "applier" => change[c].status = "accepted"

\* The tail of a path is a call of this chat for this path.
TailOK ==
    \A t \in Chats, n \in Notes : tail[t][n] # NoCall =>
        /\ tail[t][n] \in Arrived /\ NoteOf(tail[t][n]) = n
        /\ call[tail[t][n]].chat = t

\* What the stage of a handler says of its entry, its claim and its turn.
Stages(c) ==
    /\ call[c].stage \in {"none", "waiting", "merging"} => change[c] = NoChange
    /\ call[c].stage = "waiting" => call[c].claim = NoCall
    /\ call[c].stage = "writing" => call[c].kind = "Write" /\ change[c] # NoChange
    /\ call[c].stage = "merging" => call[c].claim # NoCall
    /\ call[c].stage \in {"writing", "merging"} =>
          body[NoteOf(c)] # NoBody /\ Has("handler", c)
    /\ c \in Stored /\ change[c].kind = "add" => call[c].claim = c

\* Of the same chat and for the same note.
Akin(c, d) ==
    d \in Arrived /\ NoteOf(d) = NoteOf(c) /\ call[d].chat = call[c].chat

\* A call comes after one of its kin, and its claim is a change that creates the note.
Relates(c) ==
    /\ call[c].prior # NoCall => Akin(c, call[c].prior)
    /\ call[c].claim # NoCall =>
          LET d == call[c].claim IN
          /\ Akin(c, d) /\ call[d].claim = d /\ body[NoteOf(c)] # NoBody
          /\ change[d] # NoChange /\ (d \in Stored => change[d].kind = "add")
          /\ d # c => call[d].stage = "done" /\ change[c] = NoChange

\* Nothing dangles.
WellFormed ==
    /\ QueueOK /\ TailOK
    /\ \A c \in Calls : Stages(c)
    /\ \A c \in Arrived : Relates(c)

\* Where nothing dangles, the types of the next state have what they need.
LEMMA WellGrounded == ASSUME Types, WellFormed PROVE Grounded
BY InHandlers DEF WellFormed, Stages, Grounded, Arrived, Stored, Unused, NoChange

\* What no step undoes.
Grows ==
    /\ \A n \in Notes : body[n] # NoBody => body'[n] # NoBody
    /\ \A d \in Arrived :
          /\ d \in Arrived' /\ call'[d].note = call[d].note /\ call'[d].chat = call[d].chat
          /\ call'[d].kind = call[d].kind /\ call'[d].prior = call[d].prior
          /\ call[d].claim # NoCall => call'[d].claim = call[d].claim
          /\ call[d].stage = "done" => call'[d].stage = "done"
    /\ \A d \in Calls : change[d] # NoChange =>
          /\ change'[d] # NoChange
          /\ d \in Stored' => d \in Stored /\ change'[d].kind = change[d].kind

\* What a call relates to stays, if its claim does and it gets no entry.
LEMMA RelatesKept ==
    ASSUME Types, Types', WellFormed, Grows, NEW d \in Arrived, call'[d].claim = call[d].claim,
           call[d].claim \notin {NoCall, d} => change'[d] = NoChange
    PROVE  Relates(d)'
<1>1. Relates(d) /\ d \in Calls /\ NoteOf(d) \in Notes
  BY FieldTypes DEF WellFormed
<1>2. call[d].prior # NoCall => call[d].prior \in Arrived
  BY <1>1 DEF Relates, Akin
<1>3. call[d].claim # NoCall => call[d].claim \in Arrived /\ call[d].claim \in Calls
  BY <1>1, FieldTypes DEF Relates, Akin
<1>4. call'[d].prior # NoCall => Akin(d, call[d].prior)'
  BY <1>1, <1>2 DEF Relates, Akin, Grows, NoteOf
<1>5. ASSUME call[d].claim # NoCall
      PROVE  LET e == call[d].claim IN
             /\ e \in Arrived' /\ NoteOf(e)' = NoteOf(d)' /\ call'[e].chat = call'[d].chat
             /\ call'[e].claim = e /\ body'[NoteOf(d)'] # NoBody
             /\ change'[e] # NoChange /\ (e \in Stored' => change'[e].kind = "add")
             /\ e # d => call'[e].stage = "done" /\ change'[d] = NoChange
  BY <1>1, <1>3, <1>5 DEF Relates, Akin, Grows, NoteOf
<1>. QED
  BY <1>4, <1>5 DEF Relates, Akin, Grows

\* What a stage says stays true of a handler that does not move.
LEMMA StagesKept ==
    ASSUME Types, Types', WellFormed, Grows, NEW d \in Calls, call'[d] = call[d],
           change[d] = NoChange => change'[d] = NoChange,
           d \in Arrived /\ Has("handler", d) => Has("handler", d)'
    PROVE  Stages(d)'
<1>1. Stages(d)
  BY DEF WellFormed
<1>2. d \in Arrived => NoteOf(d) \in Notes
  BY FieldTypes
<1>3. call[d].stage \in {"writing", "merging"} => d \in Arrived
  BY DEF Arrived
<1>4. d \in Stored => change[d] # NoChange
  BY DEF Stored, NoChange
<1>5. d \in Stored' => change'[d] # NoChange
  BY DEF Stored, NoChange
<1>. QED
  BY <1>1, <1>2, <1>3, <1>4, <1>5 DEF Stages, Grows, NoteOf

\* At first there is nothing to dangle.
LEMMA WellInit == Init => WellFormed
BY InHandlers, TypesInit DEF Init, WellFormed, QueueOK, TailOK, Once, In, Stages, Relates,
   Arrived, Unused, NoChange, Stored

\* The queues stay in order if what is queued keeps its reason, or is asked for with one.
LEMMA QueueKept ==
    ASSUME Types, WellFormed, Grows, Once',
           \A n \in Notes, by \in Roles, d \in Calls : In(by, d, n)' =>
               \/ /\ In(by, d, n)
                  /\ by = "handler" => call'[d].stage = call[d].stage
                  /\ by = "applier" => change'[d].status = change[d].status
               \/ /\ d \in Arrived' /\ call'[d].note = n
                  /\ by = "handler" => call'[d].stage \in {"writing", "merging"}
                  /\ by = "applier" => change'[d].status = "accepted"
    PROVE  QueueOK'
<1>1. QueueOK
  BY DEF WellFormed
<1>. SUFFICES ASSUME NEW n \in Notes, NEW by \in Roles, NEW d \in Calls, In(by, d, n)'
             PROVE  /\ d \in Arrived' /\ call'[d].note = n
                    /\ by = "handler" => call'[d].stage \in {"writing", "merging"}
                    /\ by = "applier" => change'[d].status = "accepted"
  BY DEF QueueOK, NoteOf
<1>. QED
  BY <1>1 DEF QueueOK, Grows, NoteOf

\* The tails stay in order when they are only cleared.
LEMMA TailKept ==
    ASSUME WellFormed, Grows, \A t \in Chats, n \in Notes : tail'[t][n] \in {NoCall, tail[t][n]}
    PROVE  TailOK'
BY DEF WellFormed, TailOK, Grows, NoteOf

\* A quiet step leaves nothing dangling, and undoes nothing.
LEMMA WellQuiet ==
    ASSUME Types, WellFormed, QuietStep \/ UNCHANGED vars
    PROVE  WellFormed' /\ Grows
<1>1. /\ Types' /\ UNCHANGED <<tail, call, change, queue>>
      /\ \A n \in Notes : body[n] # NoBody => body'[n] # NoBody
  BY QuietDoes
<1>2. Grows
  BY <1>1 DEF Grows, Arrived, Stored
<1>3. QueueOK'
  BY <1>1, <1>2, QueueKept, SameQueue DEF WellFormed, QueueOK
<1>4. TailOK'
  BY <1>1, <1>2, TailKept
<1>5. \A d \in Calls : Has("handler", d) => Has("handler", d)'
  BY <1>1 DEF Has, In, NoteOf
<1>6. \A d \in Calls : Stages(d)'
  BY <1>1, <1>2, <1>5, StagesKept
<1>7. \A d \in Arrived : Relates(d)'
  BY <1>1, <1>2, RelatesKept DEF WellFormed, Relates
<1>. QED
  BY <1>1, <1>2, <1>3, <1>4, <1>6, <1>7 DEF WellFormed, Arrived

\* Neither does the arrival of a proposal.
LEMMA WellPropose ==
    ASSUME Types, Types', WellFormed, NEW t \in Chats, NEW c \in Calls, NEW n \in Notes,
           NEW p \in Proposed, Propose(t, c, n, p)
    PROVE  WellFormed' /\ Grows
<1>1. /\ c \notin Arrived
      /\ \A d \in Calls : d # c => call'[d] = call[d]
      /\ call'[c].stage = "waiting" /\ call'[c].chat = t /\ call'[c].note = n
      /\ call'[c].prior = tail[t][n] /\ call'[c].claim = NoCall
      /\ \A u \in Chats, m \in Notes : tail'[u][m] = IF u = t /\ m = n THEN c ELSE tail[u][m]
      /\ UNCHANGED <<body, change, queue>>
  BY ProposeDoes DEF noteVars
<1>2. \A d \in Arrived : d # c /\ d \in Calls
  BY <1>1 DEF Arrived
<1>3. Grows
  BY <1>1, <1>2 DEF Grows, Arrived, Stored
<1>4. QueueOK'
  <2>1. \A m \in Notes, by \in Roles, d \in Calls : In(by, d, m)' =>
           /\ In(by, d, m) /\ call'[d] = call[d] /\ change'[d] = change[d]
    BY <1>1, <1>2, SameQueue DEF WellFormed, QueueOK
  <2>. QED
    BY <1>1, <1>3, <2>1, QueueKept, SameQueue DEF WellFormed, QueueOK
<1>5. TailOK'
  BY <1>1, <1>2 DEF WellFormed, TailOK, NoteOf, Arrived
<1>6. \A d \in Calls : d # c => Stages(d)'
  <2>1. \A d \in Calls : d # c => (Has("handler", d) => Has("handler", d)')
    BY <1>1 DEF Has, In, NoteOf
  <2>. QED
    BY <1>1, <1>3, <2>1, StagesKept
<1>7. Stages(c)'
  <2>1. change[c] = NoChange
    BY <1>1 DEF WellFormed, Stages, Arrived
  <2>. QED
    BY <1>1, <2>1 DEF Stages, Stored, NoChange
<1>8. \A d \in Arrived : Relates(d)'
  BY <1>1, <1>2, <1>3, RelatesKept DEF WellFormed, Relates
<1>9. Relates(c)'
  <2>1. tail[t][n] # NoCall =>
           tail[t][n] \in Arrived /\ NoteOf(tail[t][n]) = n /\ call[tail[t][n]].chat = t
    BY DEF WellFormed, TailOK
  <2>. QED
    BY <1>1, <1>2, <2>1 DEF Relates, Akin, NoteOf, Arrived
<1>10. \A d \in Arrived' : d \in Arrived \/ d = c
  BY <1>1 DEF Arrived
<1>. QED
  BY <1>3, <1>4, <1>5, <1>6, <1>7, <1>8, <1>9, <1>10 DEF WellFormed

\* Neither does a prompt.
LEMMA WellPrompt ==
    ASSUME Types, Types', WellFormed, NEW t \in Chats, NEW open \in SUBSET Notes,
           NEW mentioned \in SUBSET Notes, Prompt(t, open, mentioned)
    PROVE  WellFormed' /\ Grows
<1>1. /\ SameEntries /\ UNCHANGED <<body, call, queue>>
      /\ \A u \in Chats, n \in Notes : tail'[u][n] \in {NoCall, tail[u][n]}
  BY PromptDoes DEF noteVars
<1>2. \A d \in Calls : /\ change[d] = NoChange <=> change'[d] = NoChange
                       /\ d \in Stored <=> d \in Stored'
                       /\ change'[d].status = change[d].status
                       /\ d \in Stored => change'[d].kind = change[d].kind
  BY <1>1, InHandlers DEF SameEntries, Changes, NoChange, Pruned, Types, CallTypes, Stored
<1>3. Grows
  BY <1>1, <1>2 DEF Grows, Arrived
<1>4. QueueOK'
  BY <1>1, <1>2, <1>3, QueueKept, SameQueue DEF WellFormed, QueueOK
<1>5. \A d \in Calls : Has("handler", d) => Has("handler", d)'
  BY <1>1 DEF Has, In, NoteOf
<1>6. \A d \in Calls : Stages(d)'
  BY <1>1, <1>2, <1>3, <1>5, StagesKept
<1>7. \A d \in Arrived : Relates(d)'
  <2>1. \A d \in Arrived : d \in Calls
            /\ (call[d].claim \notin {NoCall, d} => change[d] = NoChange)
    BY FieldTypes DEF WellFormed, Relates
  <2>. QED
    BY <1>1, <1>2, <1>3, <2>1, RelatesKept
<1>. QED
  BY <1>1, <1>3, <1>4, <1>6, <1>7, TailKept DEF WellFormed, Arrived

\* A call that waits has a claim of its path's, if it has one.
LEMMA ClaimedIs ==
    ASSUME Types, WellFormed, NEW c \in Arrived, PriorDone(c), Claimed(c) # NoCall
    PROVE  LET d == Claimed(c) IN
           /\ d \in Calls /\ Akin(c, d) /\ call[d].claim = d /\ body[NoteOf(c)] # NoBody
           /\ change[d] # NoChange /\ (d \in Stored => change[d].kind = "add")
           /\ call[d].stage = "done"
<1>1. /\ call[c].prior \in Arrived /\ call[call[c].prior].stage = "done"
      /\ call[call[c].prior].claim = Claimed(c) /\ Claimed(c) \in Calls
  BY ClaimedTypes
<1>2. Akin(c, call[c].prior) /\ Relates(call[c].prior)
  BY <1>1, NamesAssumption, FieldTypes DEF WellFormed, Relates
<1>. QED
  BY <1>1, <1>2 DEF Relates, Akin

\* A waiting call takes over the claim of its path.
LEMMA NewClaim ==
    ASSUME Types, Types', WellFormed, Grows, NEW c \in Arrived, call[c].stage = "waiting",
           PriorDone(c), NEW e, e = Claimed(c), call'[c].claim = e, change'[c] = NoChange
    PROVE  Relates(c)'
<1>1. Relates(c) /\ c \in Calls /\ NoteOf(c) \in Notes
  BY FieldTypes DEF WellFormed
<1>2. call'[c].prior # NoCall => Akin(c, call[c].prior)'
  BY <1>1 DEF Relates, Akin, Grows, NoteOf
<1>3. ASSUME e # NoCall
      PROVE  /\ e \in Arrived' /\ NoteOf(e)' = NoteOf(c)' /\ call'[e].chat = call'[c].chat
             /\ call'[e].claim = e /\ body'[NoteOf(c)'] # NoBody
             /\ change'[e] # NoChange /\ (e \in Stored' => change'[e].kind = "add")
             /\ call'[e].stage = "done"
  <2>1. /\ e \in Calls /\ Akin(c, e) /\ call[e].claim = e
        /\ body[NoteOf(c)] # NoBody /\ change[e] # NoChange
        /\ (e \in Stored => change[e].kind = "add")
        /\ call[e].stage = "done"
    BY <1>3, ClaimedIs
  <2>2. /\ e \in Arrived /\ NoteOf(e) = NoteOf(c) /\ call[e].chat = call[c].chat
    BY <2>1 DEF Akin
  <2>3. /\ e \in Arrived' /\ NoteOf(e)' = NoteOf(e) /\ call'[e].chat = call[e].chat
        /\ NoteOf(c)' = NoteOf(c) /\ call'[c].chat = call[c].chat
        /\ call'[e].claim = e /\ call'[e].stage = "done"
    BY <1>3, <2>1, <2>2 DEF Grows, NoteOf
  <2>4. /\ body'[NoteOf(c)] # NoBody /\ change'[e] # NoChange
        /\ (e \in Stored' => change'[e].kind = "add")
    BY <1>1, <2>1 DEF Grows
  <2>. QED
    BY <2>2, <2>3, <2>4
<1>. QED
  BY <1>2, <1>3 DEF Relates, Akin, Grows

\* Neither does a refusal: the tail resolves to the claim of its path.
LEMMA WellRefuse ==
    ASSUME Types, Types', WellFormed, NEW c \in Calls, Refuse(c)
    PROVE  WellFormed' /\ Grows
<1>1. /\ c \in Arrived /\ call[c].stage = "waiting" /\ PriorDone(c)
      /\ Moves(c, "done", "refused", Claimed(c), call[c].out)
      /\ UNCHANGED <<body, tail, change, queue>>
  BY DEF Refuse, noteVars, chatVars
<1>2. /\ change[c] = NoChange /\ call[c].claim = NoCall
  BY <1>1 DEF WellFormed, Stages
<1>3. Grows
  BY <1>1, <1>2 DEF Moves, Grows, Arrived, Stored
<1>4. QueueOK'
  <2>1. \A n \in Notes : ~In("handler", c, n)
    BY <1>1 DEF WellFormed, QueueOK, Roles
  <2>2. \A n \in Notes, by \in Roles, d \in Calls : In(by, d, n)' =>
           In(by, d, n) /\ (by = "handler" => call'[d].stage = call[d].stage)
    BY <1>1, <2>1, SameQueue DEF Moves
  <2>. QED
    BY <1>1, <1>3, <2>2, QueueKept, SameQueue DEF WellFormed, QueueOK
<1>5. TailOK'
  BY <1>1, <1>3, TailKept
<1>6. \A d \in Calls : d # c => Stages(d)'
  <2>1. \A d \in Calls : d # c => call'[d] = call[d]
            /\ (Has("handler", d) => Has("handler", d)')
    BY <1>1 DEF Moves, Has, In, NoteOf
  <2>. QED
    BY <1>1, <1>3, <2>1, StagesKept
<1>7. Stages(c)'
  BY <1>1, <1>2 DEF Moves, Stages, Stored, NoChange
<1>8. \A d \in Arrived : d # c => Relates(d)'
  <2>1. \A d \in Arrived : d \in Calls
            /\ (call[d].claim \notin {NoCall, d} => change[d] = NoChange)
    BY FieldTypes DEF WellFormed, Relates
  <2>2. \A d \in Arrived : d # c => call'[d].claim = call[d].claim
    BY <1>1, <2>1 DEF Moves
  <2>. QED
    BY <1>1, <1>3, <2>1, <2>2, RelatesKept
<1>9. Relates(c)'
  BY <1>1, <1>2, <1>3, NewClaim DEF Moves
<1>10. \A d \in Arrived' : d \in Arrived
  BY <1>1 DEF Moves, Arrived
<1>. QED
  BY <1>3, <1>4, <1>5, <1>6, <1>7, <1>8, <1>9, <1>10 DEF WellFormed

\* When the handler of c moves, the others are as they were.
LEMMA OthersKept ==
    ASSUME Types, Types', WellFormed, Grows, NEW c \in Arrived,
           NEW stage, NEW answer, NEW claim, NEW out, Moves(c, stage, answer, claim, out),
           stage # "none",
           \A d \in Calls : d # c => /\ change[d] = NoChange => change'[d] = NoChange
                                     /\ d \in Arrived /\ Has("handler", d) => Has("handler", d)'
    PROVE  /\ \A d \in Calls : d # c => Stages(d)'
           /\ \A d \in Arrived : d # c => Relates(d)'
           /\ \A d \in Arrived' : d \in Arrived
<1>1. \A d \in Calls : d # c => call'[d] = call[d]
  BY DEF Moves
<1>2. \A d \in Arrived : d \in Calls
          /\ (call[d].claim \notin {NoCall, d} => change[d] = NoChange)
  BY FieldTypes DEF WellFormed, Relates
<1>. QED
  BY <1>1, <1>2, StagesKept, RelatesKept DEF Arrived

\* A waiting handler has no entry, no claim and no write queued.
LEMMA HandlerAsked ==
    ASSUME Types, WellFormed, NEW c \in Arrived, call[c].stage = "waiting"
    PROVE  /\ \A n \in Notes : ~In("handler", c, n) /\ ~In("applier", c, n)
           /\ change[c] = NoChange /\ call[c].claim = NoCall
<1>1. change[c] = NoChange /\ call[c].claim = NoCall
  BY DEF WellFormed, Stages, Arrived
<1>. QED
  BY <1>1 DEF WellFormed, QueueOK, Roles, NoChange, Arrived

\* A merge leaves nothing dangling: the handler that asks for the write has its turn ahead.
LEMMA WellMergeStaged ==
    ASSUME Types, Types', WellFormed, NEW c \in Calls, MergeStaged(c)
    PROVE  WellFormed' /\ Grows
<1>. PICK e \in Calls : e = Claimed(c)
  BY MergeStagedDoes
<1>1. /\ c \in Arrived /\ call[c].stage = "waiting" /\ PriorDone(c) /\ e \in Stored
      /\ UNCHANGED <<noteVars, chatVars>>
      /\ \A d \in Calls : d # e => change'[d] = change[d]
  BY MergeStagedDoes DEF Stored
<1>2. change'[e] \in Changes /\ change'[e].status = change[e].status
          /\ change'[e].kind = change[e].kind
  <2>1. change[e] \in Changes
    BY <1>1, InHandlers
  <2>2. change'[e] = [change[e] EXCEPT !.after = Replaced(change[e].after, c)]
            \/ change'[e] = change[e]
    BY MergeStagedDoes
  <2>3. change'[e] \in Changes \cup {NoChange, Pruned}
    BY DEF Types, CallTypes
  <2>4. change'[e].status = change[e].status /\ change'[e].kind = change[e].kind
    BY <2>1, <2>2 DEF Changes
  <2>. QED
    BY <2>1, <2>3, <2>4 DEF Changes, NoChange, Pruned
<1>3. /\ \A n \in Notes : ~In("handler", c, n)
      /\ change[c] = NoChange /\ call[c].claim = NoCall
  BY <1>1, HandlerAsked
<1>4. c # e /\ e # NoCall
  BY <1>1, <1>3, NamesAssumption DEF Stored, NoChange
<1>5. \/ Moves(c, "done", "queued", e, call[c].out) /\ UNCHANGED queue
      \/ Moves(c, "merging", call[c].answer, e, Replaced(change[e].after, c))
             /\ Ask("handler", c)
  BY MergeStagedDoes
<1>6. PICK stage \in {"done", "merging"}, answer \in Answers, out \in SUBSET Pieces :
          /\ Moves(c, stage, answer, e, out)
          /\ stage = "done" => UNCHANGED queue
          /\ stage = "merging" => Ask("handler", c)
  <2>1. call[c].answer \in Answers /\ call[c].out \in SUBSET Pieces
        /\ Replaced(change[e].after, c) \in SUBSET Pieces
    BY <1>1, InHandlers, FieldTypes, MergeStagedDoes DEF Handlers, Answers
  <2>. QED
    BY <1>5, <2>1 DEF Answers
<1>7. \A d \in Calls : /\ change[d] = NoChange <=> change'[d] = NoChange
                       /\ d \in Stored <=> d \in Stored'
                       /\ change'[d].status = change[d].status
                       /\ d \in Stored => change'[d].kind = change[d].kind
  BY <1>1, <1>2 DEF Stored, NoChange, Changes
<1>8. Grows
  BY <1>1, <1>3, <1>6, <1>7 DEF Grows, Moves, Arrived, noteVars
<1>9. /\ Once'
      /\ \A r \in Roles, d \in Calls, m \in Notes :
            In(r, d, m)' <=> In(r, d, m)
                  \/ (stage = "merging" /\ r = "handler" /\ d = c /\ m = NoteOf(c))
  <2>1. CASE stage = "done"
    BY <1>6, <2>1, SameQueue DEF WellFormed, QueueOK
  <2>2. CASE stage = "merging"
    <3>1. Ask("handler", c) /\ ~In("handler", c, NoteOf(c)) /\ Once
      BY <1>1, <1>3, <1>6, <2>2, FieldTypes DEF WellFormed, QueueOK
    <3>. QED
      BY <1>1, <2>2, <3>1, AskDoes DEF Roles
  <2>. QED
    BY <2>1, <2>2
<1>10. NoteOf(c) \in Notes /\ \A d \in Calls : NoteOf(d)' = NoteOf(d)
  BY <1>1, <1>6, FieldTypes DEF Moves, NoteOf
<1>11. QueueOK'
  <2>1. \A n \in Notes, by \in Roles, d \in Calls : In(by, d, n)' =>
               \/ /\ In(by, d, n)
                  /\ by = "handler" => call'[d].stage = call[d].stage
                  /\ by = "applier" => change'[d].status = change[d].status
               \/ /\ d \in Arrived' /\ call'[d].note = n
                  /\ by = "handler" => call'[d].stage \in {"writing", "merging"}
                  /\ by = "applier" => change'[d].status = "accepted"
    BY <1>1, <1>3, <1>6, <1>7, <1>9, <1>10 DEF Moves, NoteOf, Arrived
  <2>. QED
    BY <1>8, <1>9, <2>1, QueueKept
<1>12. TailOK'
  BY <1>1, <1>8, TailKept DEF chatVars
<1>13. \A d \in Arrived : Has("handler", d) => Has("handler", d)'
  BY <1>9, <1>10, FieldTypes DEF Has, Roles
<1>14. /\ \A d \in Calls : d # c => Stages(d)'
       /\ \A d \in Arrived : d # c => Relates(d)'
       /\ \A d \in Arrived' : d \in Arrived
  BY <1>1, <1>6, <1>7, <1>8, <1>13, OthersKept
<1>15. Relates(c)'
  BY <1>1, <1>3, <1>6, <1>7, <1>8, NewClaim DEF Moves
<1>16. Stages(c)'
  <2>1. body[NoteOf(c)] # NoBody
    BY <1>1, <1>4, ClaimedIs
  <2>2. stage = "merging" => Has("handler", c)'
    BY <1>9, <1>10 DEF Has, Roles
  <2>3. body'[NoteOf(c)'] # NoBody
    BY <1>1, <1>10, <2>1 DEF noteVars
  <2>. QED
    BY <1>3, <1>4, <1>6, <1>7, <2>2, <2>3 DEF Moves, Stages, Stored, NoChange
<1>. QED
  BY <1>8, <1>11, <1>12, <1>14, <1>15, <1>16 DEF WellFormed

\* Accepting a change.
Accepts(d) ==
    \A c \in Calls : /\ change[c] = NoChange <=> change'[c] = NoChange
                     /\ c \in Stored <=> c \in Stored'
                     /\ c \in Stored => /\ change'[c].kind = change[c].kind
                                        /\ change'[c].after = change[c].after
                                        /\ change'[c].failed = change[c].failed
                     /\ \/ change'[c].status = change[c].status
                        \/ c = d /\ change[c].status = "pending"
                               /\ change'[c].status = "accepted"

\* What Accepted does, in the terms that the later lemmas need.
LEMMA AcceptsIs ==
    ASSUME Types, NEW d \in Calls, UNCHANGED change \/ change' = Accepted(d)
    PROVE  Accepts(d)
<1>1. CASE UNCHANGED change
  BY <1>1 DEF Accepts, Stored
<1>2. CASE change' = Accepted(d)
  <2>1. CASE change[d].status = "pending"
    <3>1. Turns(d, "accepted", change[d].failed)
      BY <1>2, <2>1, AcceptedTurns
    <3>2. change[d] # NoChange /\ change'[d] # NoChange
      BY <2>1, <3>1 DEF Turns, Changes, NoChange
    <3>. QED
      BY <2>1, <3>1, <3>2 DEF Turns, Accepts, Stored
  <2>2. CASE change[d].status # "pending"
    <3>1. \A c \in Calls : change'[c] = change[c]
      BY <1>2, <2>2, AcceptedTurns
    <3>. QED
      BY <3>1 DEF Accepts, Stored
  <2>. QED
    BY <2>1, <2>2
<1>. QED
  BY <1>1, <1>2

\* A handler that had its turn ends, whatever became of its write: nothing dangles.
LEMMA WellSettle ==
    ASSUME Types, Types', WellFormed, NEW c \in Arrived, NEW answer, NEW out, NEW d \in Calls,
           call[c].stage \in {"writing", "merging"}, Turn("handler", c),
           Moves(c, "done", answer, call[c].claim, out), Accepts(d),
           \A n \in Notes : body[n] # NoBody => body'[n] # NoBody, UNCHANGED tail
    PROVE  WellFormed' /\ Grows
<1>1. c \in Calls /\ NoteOf(c) \in Notes /\ Stages(c) /\ Relates(c)
  BY FieldTypes DEF WellFormed
<1>2. Grows
  BY DEF Accepts, Grows, Moves, Arrived
<1>3. /\ Once'
      /\ \A r \in Roles, e \in Calls, m \in Notes :
            In(r, e, m)' <=> In(r, e, m) /\ ~(r = "handler" /\ e = c /\ m = NoteOf(c))
  BY TurnDoes DEF WellFormed, QueueOK, Roles
<1>4. QueueOK'
  <2>1. \A n \in Notes, by \in Roles, e \in Calls : In(by, e, n) =>
           /\ NoteOf(e) = n /\ (by = "applier" => change[e].status = "accepted")
    BY DEF WellFormed, QueueOK
  <2>2. \A e \in Calls : change[e].status = "accepted" => change'[e].status = "accepted"
    BY DEF Accepts
  <2>3. \A n \in Notes, by \in Roles, e \in Calls : In(by, e, n)' =>
               /\ In(by, e, n)
               /\ by = "handler" => call'[e].stage = call[e].stage
               /\ by = "applier" => change'[e].status = change[e].status
    BY <1>3, <2>1, <2>2 DEF Moves
  <2>. QED
    BY <1>2, <1>3, <2>3, QueueKept
<1>5. TailOK'
  BY <1>2, TailKept
<1>6. \A e \in Arrived : e # c => (Has("handler", e) => Has("handler", e)')
  BY <1>3, FieldTypes DEF Has, Roles, Moves, NoteOf
<1>7. /\ \A e \in Calls : e # c => Stages(e)'
      /\ \A e \in Arrived : e # c => Relates(e)'
      /\ \A e \in Arrived' : e \in Arrived
  BY <1>2, <1>6, OthersKept DEF Accepts
<1>8. Relates(c)'
  <2>1. call[c].claim \notin {NoCall, c} => change[c] = NoChange
    BY <1>1 DEF Relates
  <2>. QED
    <3>1. call'[c].claim = call[c].claim
      BY DEF Moves
    <3>2. call[c].claim \notin {NoCall, c} => change'[c] = NoChange
      BY <1>1, <2>1 DEF Accepts
    <3>. QED
      BY <1>2, <3>1, <3>2, RelatesKept
<1>9. Stages(c)'
  BY <1>1 DEF Moves, Stages, Accepts
<1>. QED
  BY <1>2, <1>4, <1>5, <1>7, <1>8, <1>9 DEF WellFormed

\* The direct write of a merged body leaves nothing dangling.
LEMMA WellFinishMerge ==
    ASSUME Types, Types', WellFormed, NEW c \in Calls, FinishMerge(c)
    PROVE  WellFormed' /\ Grows
<1>1. /\ c \in Arrived /\ call[c].stage = "merging" /\ Turn("handler", c)
      /\ NoteOf(c) \in loaded /\ UNCHANGED <<loaded, conflict, tail>>
  BY FinishMergeDoes DEF chatVars
<1>2. call[c].claim \in Calls
  BY <1>1, WellGrounded, FinishMergeDoes DEF Grounded
<1>3. PICK d \in Calls : d = call[c].claim
  BY <1>2
<1>4. /\ \E answer \in Answers : Moves(c, "done", answer, call[c].claim, call[c].out)
      /\ UNCHANGED change \/ change' = Accepted(d)
      /\ UNCHANGED body \/ (body' = [body EXCEPT ![NoteOf(c)] = call[c].out]
             /\ call[c].out \in SUBSET Pieces)
  BY <1>3, FinishMergeDoes DEF Answers
<1>5. Accepts(d)
  BY <1>4, AcceptsIs
<1>6. \A n \in Notes : body[n] # NoBody => body'[n] # NoBody
  BY <1>1, <1>4, NotNoBody DEF Types, NoteTypes
<1>. QED
  BY <1>1, <1>4, <1>5, <1>6, WellSettle

\* The guarded write leaves nothing dangling.
LEMMA WellGuardedWrite ==
    ASSUME Types, Types', WellFormed, NEW c \in Calls, GuardedWrite(c)
    PROVE  WellFormed' /\ Grows
<1>1. /\ c \in Arrived /\ call[c].stage = "writing" /\ Turn("handler", c)
      /\ NoteOf(c) \in loaded /\ UNCHANGED <<loaded, conflict, tail>>
  BY GuardedWriteDoes DEF chatVars
<1>4. /\ \E answer \in Answers : Moves(c, "done", answer, call[c].claim, call[c].out)
      /\ UNCHANGED change \/ change' = Accepted(c)
      /\ UNCHANGED body \/ (body' = [body EXCEPT ![NoteOf(c)] = Content(c)]
             /\ Content(c) \in SUBSET Pieces)
  BY GuardedWriteDoes DEF Answers
<1>5. Accepts(c)
  BY <1>4, AcceptsIs
<1>6. \A n \in Notes : body[n] # NoBody => body'[n] # NoBody
  BY <1>1, <1>4, NotNoBody DEF Types, NoteTypes
<1>. QED
  BY <1>1, <1>4, <1>5, <1>6, WellSettle

\* A step on the entry of one change; the calls stay.
LEMMA WellChange ==
    ASSUME Types, Types', WellFormed, NEW c \in Stored, UNCHANGED <<tail, call>>,
           \A n \in Notes : body[n] # NoBody => body'[n] # NoBody, change'[c] # NoChange,
           change'[c].kind = change[c].kind \/ c \notin Stored',
           \A d \in Calls : d # c => change'[d] = change[d], QueueOK',
           \A d \in Arrived : Has("handler", d) => Has("handler", d)'
    PROVE  WellFormed' /\ Grows
<1>1. c \in Calls /\ change[c] # NoChange
  BY DEF Stored, NoChange
<1>2. Grows
  BY <1>1 DEF Grows, Arrived, Stored
<1>3. TailOK'
  BY <1>2, TailKept
<1>4. \A d \in Calls : Stages(d)'
  BY <1>1, <1>2, StagesKept
<1>5. \A d \in Arrived : Relates(d)'
  <2>1. \A d \in Arrived : d \in Calls
            /\ (call[d].claim \notin {NoCall, d} => change[d] = NoChange)
    BY FieldTypes DEF WellFormed, Relates
  <2>. QED
    BY <1>1, <1>2, <2>1, RelatesKept
<1>. QED
  BY <1>2, <1>3, <1>4, <1>5 DEF WellFormed, Arrived

\* Where the writes of a call are queued.
LEMMA NotAsked ==
    ASSUME Types, WellFormed, NEW c \in Arrived, NEW n \in Notes, NEW by \in Roles, In(by, c, n)
    PROVE  Asked(c) /\ n = NoteOf(c)
BY DEF WellFormed, QueueOK, In, Asked, Write, Arrived

\* Keep, Reject, the applier and the pruning leave nothing dangling.
LEMMA WellChangeStep ==
    ASSUME Types, Types', WellFormed, NEW c \in Calls, ChangeStep(c)
    PROVE  WellFormed' /\ Grows
<1>1. c \in Stored /\ c \in Arrived /\ change[c] \in Changes
  BY WellGrounded, InHandlers DEF ChangeStep, Keep, Reject, ApplyAccepted, PruneDecided, Stored,
     Grounded
<1>2. NoteOf(c) \in Notes /\ Once
  BY <1>1, FieldTypes DEF WellFormed, QueueOK
<1>3. CASE Keep(c)
  <2>1. /\ change[c].status = "pending" /\ Turns(c, "accepted", change[c].failed)
        /\ Ask("applier", c) /\ UNCHANGED <<body, tail, call>>
    BY <1>3, KeepDoes DEF noteVars, chatVars
  <2>2. ~In("applier", c, NoteOf(c))
    BY <1>2, <2>1 DEF WellFormed, QueueOK, Roles
  <2>3. /\ Once'
        /\ \A r \in Roles, d \in Calls, m \in Notes :
              In(r, d, m)' <=> In(r, d, m) \/ (r = "applier" /\ d = c /\ m = NoteOf(c))
    BY <1>1, <1>2, <2>1, <2>2, AskDoes DEF Roles
  <2>4. QueueOK'
    BY <1>1, <2>1, <2>3 DEF WellFormed, QueueOK, Turns, NoteOf, Arrived
  <2>5. \A d \in Arrived : Has("handler", d) => Has("handler", d)'
    BY <2>1, <2>3, FieldTypes DEF Has, Roles, NoteOf
  <2>. QED
    BY <1>1, <2>1, <2>4, <2>5, WellChange DEF Turns, Changes, NoChange
<1>4. CASE Reject(c)
  <2>1. /\ change[c].status = "pending" /\ Turns(c, "rejected", change[c].failed)
        /\ UNCHANGED <<body, tail, call, queue>>
    BY <1>4, RejectDoes DEF noteVars, chatVars
  <2>2. QueueOK'
    BY <2>1, SameQueue DEF WellFormed, QueueOK, Turns, NoteOf, Arrived
  <2>3. \A d \in Arrived : Has("handler", d) => Has("handler", d)'
    BY <2>1 DEF Has, In, NoteOf
  <2>. QED
    BY <1>1, <2>1, <2>2, <2>3, WellChange DEF Turns, Changes, NoChange
<1>5. CASE ApplyAccepted(c)
  <2>1. /\ Turn("applier", c) /\ UNCHANGED <<tail, call>>
        /\ change'[c] \in Changes /\ change'[c].status = change[c].status
        /\ change'[c].kind = change[c].kind
        /\ \A d \in Calls : d # c => change'[d] = change[d]
    BY <1>1, <1>5, ApplyDoes DEF Turns, chatVars
  <2>2. \A n \in Notes : body[n] # NoBody => body'[n] # NoBody
    BY <1>1, <1>2, <1>5, ApplyDoes, NotNoBody DEF Types, NoteTypes
  <2>3. /\ Once'
        /\ \A r \in Roles, d \in Calls, m \in Notes :
              In(r, d, m)' <=> In(r, d, m) /\ ~(r = "applier" /\ d = c /\ m = NoteOf(c))
    BY <1>1, <1>2, <2>1, TurnDoes DEF Roles
  <2>4. QueueOK'
    BY <1>1, <2>1, <2>3 DEF WellFormed, QueueOK, NoteOf, Arrived
  <2>5. \A d \in Arrived : Has("handler", d) => Has("handler", d)'
    BY <2>1, <2>3, FieldTypes DEF Has, Roles, NoteOf
  <2>. QED
    BY <1>1, <2>1, <2>2, <2>4, <2>5, WellChange DEF Changes, NoChange
<1>6. CASE PruneDecided(c)
  <2>1. /\ ~Asked(c) /\ change'[c] = Pruned /\ UNCHANGED <<body, tail, call, queue>>
        /\ \A d \in Calls : d # c => change'[d] = change[d]
    BY <1>6, PruneDoes DEF noteVars, chatVars
  <2>2. \A n \in Notes, by \in Roles : ~In(by, c, n)
    BY <1>1, <2>1, NotAsked
  <2>3. QueueOK'
    BY <2>1, <2>2, SameQueue DEF WellFormed, QueueOK, NoteOf, Arrived
  <2>4. \A d \in Arrived : Has("handler", d) => Has("handler", d)'
    BY <2>1 DEF Has, In, NoteOf
  <2>5. c \notin Stored' /\ change'[c] # NoChange
    BY <2>1 DEF Stored, Pruned, NoChange
  <2>. QED
    BY <1>1, <2>1, <2>3, <2>4, <2>5, WellChange
<1>. QED
  BY <1>3, <1>4, <1>5, <1>6 DEF ChangeStep

\* How a call gets a card of its own, and its handler goes on.
GetsCardAs(c, kind, claim, stage, answer, by) ==
    /\ c \in Arrived /\ call[c].stage = "waiting" /\ PriorDone(c)
    /\ Moves(c, stage, answer, claim, call[c].out)
    /\ change'[c] \in Changes /\ change'[c].kind = kind /\ change'[c].after = Content(c)
    /\ ~change'[c].failed /\ change'[c].status \in {"pending", "accepted"}
    /\ change'[c].status = "accepted" <=> by = "applier"
    /\ \A d \in Calls : d # c => change'[d] = change[d]
    /\ \/ stage = "done" /\ by = "none" /\ UNCHANGED queue /\ call[c].chat \notin auto
          /\ answer # "refused"
       \/ stage = "done" /\ by = "applier" /\ Ask("applier", c) /\ answer # "refused"
       \/ stage = "writing" /\ by = "handler" /\ Ask("handler", c) /\ call[c].kind = "Write"
          /\ answer = call[c].answer
    /\ UNCHANGED <<loaded, conflict, auto, running, tail, landed, crossed>>
    /\ \/ kind = "add" /\ claim = c /\ body[NoteOf(c)] = NoBody
           /\ body' = [body EXCEPT ![NoteOf(c)] = {}]
       \/ kind \in {"whole", "range"} /\ claim = NoCall /\ NoteOf(c) \in loaded
              /\ UNCHANGED body

\* Staging a proposal is one of the three ways on, told apart by who asks for a write.
LEMMA CardsAre ==
    ASSUME Types, NEW c \in Calls, NEW kind \in {"add", "whole", "range"},
           NEW claim \in {c, NoCall},
           GetsCard(c, kind, claim)
    PROVE  \E stage \in {"done", "writing"}, answer \in Answers,
              by \in {"none", "applier", "handler"} :
                  GetsCardAs(c, kind, claim, stage, answer, by)
<1>1. /\ c \in Arrived /\ call[c].stage = "waiting" /\ PriorDone(c) /\ Stage(c, kind, claim)
      /\ UNCHANGED <<loaded, conflict, auto, running, tail, landed, crossed>>
  BY DEF GetsCard, Unclaimed, Arrived, chatVars, histVars
<1>. DEFINE status == IF call[c].chat \in auto /\ call[c].kind = "Edit" THEN "accepted"
                ELSE "pending"
<1>2. change'[c] \in Changes /\ change'[c] = Staged(kind, Content(c), status)
      /\ \A d \in Calls : d # c => change'[d] = change[d]
  BY <1>1, StagedTypes
<1>. HIDE DEF status
<1>3. change'[c].kind = kind /\ change'[c].after = Content(c)
      /\ ~change'[c].failed /\ change'[c].status = status
  BY <1>2 DEF Staged
<1>4. /\ \/ /\ call[c].chat \notin auto /\ UNCHANGED queue
            /\ Moves(c, "done", "queued", claim, call[c].out)
         \/ /\ call[c].chat \in auto /\ call[c].kind = "Write" /\ Ask("handler", c)
            /\ Moves(c, "writing", call[c].answer, claim, call[c].out)
         \/ /\ call[c].chat \in auto /\ call[c].kind = "Edit" /\ Ask("applier", c)
            /\ Moves(c, "done", "applied", claim, call[c].out)
  BY <1>1, StagedTypes
<1>5. \/ /\ kind = "add" /\ claim = c /\ body[NoteOf(c)] = NoBody
         /\ body' = [body EXCEPT ![NoteOf(c)] = {}]
      \/ /\ kind \in {"whole", "range"} /\ claim = NoCall /\ NoteOf(c) \in loaded
         /\ UNCHANGED body
  BY DEF GetsCard
<1>6. CASE call[c].chat \notin auto /\ UNCHANGED queue
           /\ Moves(c, "done", "queued", claim, call[c].out)
  <2>1. GetsCardAs(c, kind, claim, "done", "queued", "none")
    BY <1>1, <1>2, <1>3, <1>5, <1>6 DEF GetsCardAs, status
  <2>. QED
    BY <2>1 DEF Answers
<1>7. CASE call[c].chat \in auto /\ call[c].kind = "Write" /\ Ask("handler", c)
           /\ Moves(c, "writing", call[c].answer, claim, call[c].out)
  <2>1. call[c].answer \in Answers
    BY <1>1, InHandlers DEF Handlers, Answers
  <2>2. GetsCardAs(c, kind, claim, "writing", call[c].answer, "handler")
    BY <1>1, <1>2, <1>3, <1>5, <1>7, <2>1 DEF GetsCardAs, status
  <2>. QED
    BY <2>1, <2>2
<1>8. CASE call[c].chat \in auto /\ call[c].kind = "Edit" /\ Ask("applier", c)
           /\ Moves(c, "done", "applied", claim, call[c].out)
  <2>1. GetsCardAs(c, kind, claim, "done", "applied", "applier")
    BY <1>1, <1>2, <1>3, <1>5, <1>8 DEF GetsCardAs, status
  <2>. QED
    BY <2>1 DEF Answers
<1>. QED
  BY <1>4, <1>6, <1>7, <1>8

\* A call that gets a card leaves nothing dangling.
LEMMA WellCards ==
    ASSUME Types, Types', WellFormed, NEW c \in Calls, NEW kind \in {"add", "whole", "range"},
           NEW claim \in {c, NoCall}, NEW stage \in {"done", "writing"}, NEW answer \in Answers,
           NEW by \in {"none", "applier", "handler"},
           GetsCardAs(c, kind, claim, stage, answer, by)
    PROVE  WellFormed' /\ Grows
<1>1. /\ c \in Arrived /\ call[c].stage = "waiting" /\ PriorDone(c)
      /\ Moves(c, stage, answer, claim, call[c].out)
      /\ change'[c] \in Changes /\ change'[c].kind = kind
      /\ change'[c].status = "accepted" <=> by = "applier"
      /\ \A d \in Calls : d # c => change'[d] = change[d]
      /\ UNCHANGED tail
  BY DEF GetsCardAs
<1>2. \/ stage = "done" /\ by = "none" /\ UNCHANGED queue
      \/ stage = "done" /\ by = "applier" /\ Ask("applier", c)
      \/ stage = "writing" /\ by = "handler" /\ Ask("handler", c) /\ call[c].kind = "Write"
  BY DEF GetsCardAs
<1>3. /\ UNCHANGED loaded
      /\ \/ kind = "add" /\ claim = c /\ body' = [body EXCEPT ![NoteOf(c)] = {}]
         \/ kind # "add" /\ claim = NoCall /\ NoteOf(c) \in loaded /\ UNCHANGED body
  BY DEF GetsCardAs
<1>4. /\ \A n \in Notes : ~In("handler", c, n) /\ ~In("applier", c, n)
      /\ change[c] = NoChange /\ call[c].claim = NoCall
  BY <1>1, HandlerAsked
<1>5. NoteOf(c) \in Notes /\ Once /\ c # NoCall /\ \A d \in Calls : NoteOf(d)' = NoteOf(d)
  BY <1>1, FieldTypes, NamesAssumption DEF WellFormed, QueueOK, Moves, NoteOf
<1>6. body'[NoteOf(c)] # NoBody /\ \A n \in Notes : body[n] # NoBody => body'[n] # NoBody
  BY <1>3, <1>5, NotNoBody DEF Types, NoteTypes
<1>7. change'[c] # NoChange /\ \A d \in Calls : d # c => (d \in Stored <=> d \in Stored')
  BY <1>1 DEF Stored, Changes, NoChange
<1>8. Grows
  BY <1>1, <1>4, <1>6, <1>7 DEF Grows, Moves, Arrived
<1>9. /\ Once'
      /\ \A r \in Roles, d \in Calls, m \in Notes :
            In(r, d, m)' <=> In(r, d, m) \/ (by # "none" /\ r = by /\ d = c /\ m = NoteOf(c))
  <2>1. CASE by = "none"
    BY <1>2, <1>5, <2>1, SameQueue
  <2>2. CASE by = "applier"
    BY <1>1, <1>2, <1>4, <1>5, <2>2, AskDoes DEF Roles
  <2>3. CASE by = "handler"
    BY <1>1, <1>2, <1>4, <1>5, <2>3, AskDoes DEF Roles
  <2>. QED
    BY <2>1, <2>2, <2>3
<1>10. QueueOK'
  <2>1. \A n \in Notes, r \in Roles, d \in Calls : In(r, d, n)' =>
               \/ /\ In(r, d, n)
                  /\ r = "handler" => call'[d].stage = call[d].stage
                  /\ r = "applier" => change'[d].status = change[d].status
               \/ /\ d \in Arrived' /\ call'[d].note = n
                  /\ r = "handler" => call'[d].stage \in {"writing", "merging"}
                  /\ r = "applier" => change'[d].status = "accepted"
    <3>. SUFFICES ASSUME NEW n \in Notes, NEW r \in Roles, NEW d \in Calls, In(r, d, n)'
                 PROVE  \/ d # c /\ In(r, d, n)
                        \/ d = c /\ n = NoteOf(c) /\ r = by
      BY <1>1, <1>2, <1>5 DEF Moves, NoteOf, Arrived
    <3>. QED
      BY <1>4, <1>9 DEF Roles
  <2>. QED
    BY <1>8, <1>9, <2>1, QueueKept
<1>11. TailOK'
  BY <1>1, <1>8, TailKept
<1>12. \A d \in Arrived : Has("handler", d) => Has("handler", d)'
  BY <1>5, <1>9, FieldTypes DEF Has, Roles
<1>13. /\ \A d \in Calls : d # c => Stages(d)'
       /\ \A d \in Arrived : d # c => Relates(d)'
       /\ \A d \in Arrived' : d \in Arrived
  BY <1>1, <1>8, <1>12, OthersKept
<1>14. Relates(c)'
  <2>1. call[c].prior # NoCall => Akin(c, call[c].prior)'
    <3>. SUFFICES ASSUME call[c].prior # NoCall PROVE Akin(c, call[c].prior)'
      OBVIOUS
    <3>1. Akin(c, call[c].prior)
      BY <1>1 DEF WellFormed, Relates
    <3>. QED
      BY <1>1, <1>8, <3>1 DEF Akin, Grows, NoteOf
  <2>2. claim = c => kind = "add"
    BY <1>3, <1>5
  <2>3. /\ c \in Arrived' /\ NoteOf(c)' = NoteOf(c) /\ call'[c].claim = claim
        /\ call'[c].prior = call[c].prior
    BY <1>1 DEF Moves, Arrived, NoteOf
  <2>. QED
    BY <1>1, <1>6, <1>7, <2>1, <2>2, <2>3 DEF Relates, Akin
<1>15. Stages(c)'
  <2>1. stage = "writing" => Has("handler", c)'
    BY <1>2, <1>5, <1>9 DEF Has, Roles
  <2>2. body'[NoteOf(c)'] # NoBody
    BY <1>5, <1>6
  <2>. QED
    BY <1>1, <1>2, <1>3, <1>7, <2>1, <2>2 DEF Moves, Stages
<1>. QED
  BY <1>8, <1>10, <1>11, <1>13, <1>14, <1>15 DEF WellFormed

\* Every step keeps the types, leaves nothing dangling, and undoes nothing.
LEMMA WellNext ==
    ASSUME Types, WellFormed, [Next]_vars
    PROVE  Types' /\ WellFormed' /\ Grows
<1>1. Types'
  BY WellGrounded, TypesNext
<1>2. CASE QuietStep \/ UNCHANGED vars
  BY <1>1, <1>2, WellQuiet
<1>3. CASE \E t \in Chats, c \in Calls, n \in Notes, p \in Proposed : Propose(t, c, n, p)
  BY <1>1, <1>3, WellPropose
<1>4. CASE \E t \in Chats, open, mentioned \in SUBSET Notes : Prompt(t, open, mentioned)
  BY <1>1, <1>4, WellPrompt
<1>5. ASSUME NEW c \in Calls, Refuse(c) \/ MergeStaged(c) \/ FinishMerge(c) \/ GuardedWrite(c)
                              \/ ChangeStep(c)
      PROVE  WellFormed' /\ Grows
  BY <1>1, <1>5, WellRefuse, WellMergeStaged, WellFinishMerge, WellGuardedWrite, WellChangeStep
<1>6. ASSUME NEW c \in Calls, NEW kind \in {"add", "whole", "range"}, NEW claim \in {c, NoCall},
             GetsCard(c, kind, claim)
      PROVE  WellFormed' /\ Grows
  BY <1>1, <1>6, CardsAre, WellCards
<1>. QED
  BY <1>1, <1>2, <1>3, <1>4, <1>5, <1>6, NextCases

\* TypeOK is what the types and the order of the queues and claims come to.
LEMMA TypesTrue ==
    ASSUME Types, WellFormed
    PROVE  TypeOK
<1>1. /\ body \in [Notes -> (SUBSET Pieces) \cup {NoBody}]
      /\ loaded \subseteq Notes /\ conflict \subseteq loaded
      /\ base \in [Notes -> (SUBSET Pieces) \cup {NoBody}] /\ stale \in [Notes -> Nat]
      /\ running \subseteq Chats /\ auto \subseteq Chats
  BY DEF Types, NoteTypes, CallTypes, Bodies
<1>2. \A c \in Calls : c \in Stored => c \in Arrived
  BY WellGrounded DEF Grounded
<1>3. ASSUME NEW w \in Queued
      PROVE  IF w.by = "handler" THEN call[w.of].stage \in {"writing", "merging"}
             ELSE change[w.of].status = "accepted"
  <2>5. PICK n \in Notes : w \in {queue[n][i] : i \in DOMAIN queue[n]}
    BY <1>3 DEF Queued
  <2>1. PICK i \in DOMAIN queue[n] : w = queue[n][i]
    BY <2>5
  <2>2. w \in Writes
    BY <2>1 DEF Types, CallTypes
  <2>3. w.by \in Roles /\ w.of \in Calls /\ w = Write(w.by, w.of)
    BY <2>2 DEF Writes, Roles, Write
  <2>4. In(w.by, w.of, n)
    BY <2>1, <2>3 DEF In
  <2>. QED
    BY <2>3, <2>4 DEF WellFormed, QueueOK, Roles
<1>4. ASSUME NEW c \in Calls, call[c].stage \in {"writing", "merging"}
      PROVE  Write("handler", c) \in Queued
  <2>1. c \in Arrived /\ Has("handler", c)
    BY <1>4 DEF WellFormed, Stages, Arrived
  <2>. QED
    BY <2>1, FieldTypes DEF Has, In, Queued
<1>5. \A c \in Arrived : call[c].claim # NoCall => NoteOf(call[c].claim) = NoteOf(c)
  BY DEF WellFormed, Relates, Akin
<1>. QED
  BY <1>1, <1>2, <1>3, <1>4, <1>5 DEF TypeOK

\* The domains hold, and nothing dangles: a queued write has a handler that waits for it or
\* an accepted change, a handler past waiting has its turn ahead, and claims stay on their
\* note (agent/chat/index.ts, state/pendingChangesApplier.ts).
THEOREM ProposalsTyped == Spec => []TypeOK
<1>1. Init => Types /\ WellFormed
  BY TypesInit, WellInit
<1>2. Types /\ WellFormed /\ [Next]_vars => (Types /\ WellFormed)'
  BY WellNext
<1>3. Types /\ WellFormed => TypeOK
  BY TypesTrue
<1>. QED
  BY <1>1, <1>2, <1>3, PTL DEF Spec

-----------------------------------------------------------------------------
(* Every blocked call gets its verdict *)

\* Handlers wait for earlier ones only.
Ranked ==
    \E rank \in [Calls -> Nat] :
        \A c \in Arrived : call[c].prior # NoCall => rank[call[c].prior] < rank[c]

\* Only the arrival of a proposal brings a handler; what the model knew of it is fixed.
LEMMA CallsKept ==
    ASSUME Types, WellFormed, [Next]_vars,
           ~\E t \in Chats, c \in Calls, n \in Notes, p \in Proposed : Propose(t, c, n, p)
    PROVE  \A c \in Arrived' : c \in Arrived /\ call'[c].knows = call[c].knows
<1>1. ASSUME UNCHANGED call
      PROVE  \A c \in Arrived' : c \in Arrived /\ call'[c].knows = call[c].knows
  BY <1>1 DEF Arrived
<1>2. ASSUME NEW c \in Arrived, NEW stage, NEW answer, NEW claim, NEW out,
             Moves(c, stage, answer, claim, out)
      PROVE  \A d \in Arrived' : d \in Arrived /\ call'[d].knows = call[d].knows
  BY <1>2 DEF Moves, Arrived
<1>3. CASE QuietStep \/ UNCHANGED vars
  BY <1>1, <1>3, QuietDoes
<1>4. CASE \E t \in Chats, open, mentioned \in SUBSET Notes : Prompt(t, open, mentioned)
  BY <1>1, <1>4 DEF Prompt
<1>5. ASSUME NEW c \in Calls, Refuse(c) \/ MergeStaged(c) \/ FinishMerge(c) \/ GuardedWrite(c)
      PROVE  \A d \in Arrived' : d \in Arrived /\ call'[d].knows = call[d].knows
  BY <1>2, <1>5, MergeStagedDoes, FinishMergeDoes, GuardedWriteDoes DEF Refuse
<1>6. ASSUME NEW c \in Calls, NEW kind \in {"add", "whole", "range"}, NEW claim \in {c, NoCall},
             GetsCard(c, kind, claim)
      PROVE  \A d \in Arrived' : d \in Arrived /\ call'[d].knows = call[d].knows
  BY <1>2, <1>6, CardsAre DEF GetsCardAs
<1>7. ASSUME NEW c \in Calls, ChangeStep(c)
      PROVE  \A d \in Arrived' : d \in Arrived /\ call'[d].knows = call[d].knows
  BY <1>1, <1>7 DEF ChangeStep, Keep, Reject, ApplyAccepted, PruneDecided
<1>. QED
  BY <1>3, <1>4, <1>5, <1>6, <1>7, NextCases

\* A new handler waits for one that had arrived before it.
LEMMA PriorsArrived ==
    ASSUME Types, WellFormed, [Next]_vars
    PROVE  \A c \in Arrived' : c \in Arrived \/ call'[c].prior = NoCall
               \/ call'[c].prior \in Arrived
<1>1. ASSUME NEW t \in Chats, NEW c \in Calls, NEW n \in Notes, NEW p \in Proposed,
             Propose(t, c, n, p)
      PROVE  \A d \in Arrived' : d \in Arrived \/ call'[d].prior = NoCall
                 \/ call'[d].prior \in Arrived
  BY <1>1, ProposeDoes DEF Arrived, WellFormed, TailOK
<1>. QED
  BY <1>1, CallsKept

\* A new handler ranks above the one it waits for.
LEMMA RankedNext ==
    ASSUME Types, WellFormed, [Next]_vars, Ranked
    PROVE  Ranked'
<1>1. PICK rank \in [Calls -> Nat] :
          \A c \in Arrived : call[c].prior # NoCall => rank[call[c].prior] < rank[c]
  BY DEF Ranked
<1>2. Types' /\ WellFormed' /\ Grows
  BY WellNext
<1>. DEFINE rank2 == [c \in Calls |-> IF c \in Arrived THEN rank[c]
                                      ELSE IF call'[c].prior \in Arrived
                                        THEN rank[call'[c].prior] + 1
                                      ELSE 0]
<1>3. \A c \in Arrived : c \in Calls
  BY DEF Arrived
<1>4. rank2 \in [Calls -> Nat]
  BY <1>3
<1>5. \A c \in Arrived : /\ c \in Arrived' /\ call'[c].prior = call[c].prior
                         /\ call[c].prior # NoCall => call[c].prior \in Arrived
  BY <1>2 DEF Grows, WellFormed, Relates, Akin
<1>6. ASSUME NEW c \in Arrived', call'[c].prior # NoCall
      PROVE  rank2[call'[c].prior] < rank2[c]
  <2>1. CASE c \in Arrived
    BY <1>1, <1>3, <1>5, <1>6, <2>1
  <2>2. CASE c \notin Arrived
    <3>1. call'[c].prior \in Arrived /\ c \in Calls
      BY <1>6, <2>2, PriorsArrived DEF Arrived
    <3>. QED
      BY <1>3, <2>2, <3>1
  <2>. QED
    BY <2>1, <2>2
<1>. HIDE DEF rank2
<1>. QED
  BY <1>4, <1>6 DEF Ranked

\* A set of numbers that is not empty has a least one.
LEMMA LeastNat ==
    ASSUME NEW T \in SUBSET Nat, T # {}
    PROVE  \E x \in T : \A y \in T : ~(y < x)
<1>1. PICK x \in T : \A y \in T : ~(<<y, x>> \in OpToRel(<, Nat))
  BY NatLessThanWellFounded, WFMin
<1>. QED
  BY <1>1 DEF OpToRel

\* Once nobody can go on, no handler on a loaded note is open: an open one of least rank
\* waits for none that is open, so that it could go on.
LEMMA NoneOpen ==
    ASSUME Types, WellFormed, Ranked, Yielded, NEW e \in Arrived,
           NoteOf(e) \in loaded \/ body[NoteOf(e)] = NoBody
    PROVE  call[e].stage = "done"
<1>1. PICK rank \in [Calls -> Nat] :
          \A c \in Arrived : call[c].prior # NoCall => rank[call[c].prior] < rank[c]
  BY DEF Ranked
<1>. SUFFICES ASSUME call[e].stage # "done" PROVE FALSE
  OBVIOUS
<1>. DEFINE Undone == {c \in Arrived : /\ call[c].stage # "done"
                                       /\ NoteOf(c) \in loaded \/ body[NoteOf(c)] = NoBody}
<1>2. PICK c \in Undone : \A d \in Undone : ~(rank[d] < rank[c])
  <2>. DEFINE T == {rank[d] : d \in Undone}
  <2>1. T \in SUBSET Nat /\ T # {}
    BY DEF Arrived
  <2>2. PICK x \in T : \A y \in T : ~(y < x)
    BY <2>1, LeastNat
  <2>. QED
    BY <2>2
<1>3. c \in Calls /\ call[c] \in Handlers /\ NoteOf(c) \in Notes /\ call[c].stage # "done"
      /\ (NoteOf(c) \in loaded \/ body[NoteOf(c)] = NoBody)
  BY FieldTypes
<1>4. CASE call[c].stage = "waiting"
  <2>1. PriorDone(c)
    <3>. SUFFICES ASSUME call[c].prior # NoCall PROVE call[call[c].prior].stage = "done"
      BY DEF PriorDone
    <3>1. call[c].prior \in Arrived /\ NoteOf(call[c].prior) = NoteOf(c)
      BY DEF WellFormed, Relates, Akin
    <3>. QED
      BY <1>1, <1>2, <3>1
  <2>2. CanGoOn(c)
    BY <1>3, <1>4, <2>1 DEF CanGoOn
  <2>. QED
    BY <1>3, <2>2 DEF Yielded
<1>5. CASE call[c].stage \in {"writing", "merging"}
  <2>1. body[NoteOf(c)] # NoBody /\ Has("handler", c)
    BY <1>3, <1>5 DEF WellFormed, Stages
  <2>2. queue[NoteOf(c)] = <<>>
    BY <1>3, <2>1 DEF Yielded
  <2>. QED
    BY <2>1, <2>2 DEF Has, In
<1>. QED
  BY <1>3, <1>4, <1>5 DEF Handlers

\* NobodyLeftWaiting is what the ranks and the queues come to.
LEMMA NobodyWaits ==
    ASSUME Types, WellFormed, Ranked
    PROVE  NobodyLeftWaiting
BY NoneOpen, FieldTypes DEF NobodyLeftWaiting

\* At first there is no handler to rank.
LEMMA RankedInit == Init => Ranked
<1>1. [c \in Calls |-> 0] \in [Calls -> Nat]
  OBVIOUS
<1>2. Init => Arrived = {}
  BY DEF Init, Arrived, Unused
<1>. QED
  BY <1>1, <1>2 DEF Ranked

\* "A lost ack must not wedge the turn": once nothing is being loaded and no handler can go
\* on, every blocked tool call has its verdict, whatever was merged, refused or rejected.
THEOREM NobodyIsLeftWaiting == Spec => []NobodyLeftWaiting
<1>. DEFINE I == Types /\ WellFormed /\ Ranked
<1>1. Init => I
  BY TypesInit, WellInit, RankedInit
<1>2. I /\ [Next]_vars => I'
  BY WellNext, RankedNext
<1>3. I => NobodyLeftWaiting
  BY NobodyWaits
<1>. QED
  BY <1>1, <1>2, <1>3, PTL DEF Spec

-----------------------------------------------------------------------------
(* What is accepted lands *)

\* An accepted change was written, is marked as failed, or its write is asked for.
AcceptedHasTurn ==
    \A c \in Stored : change[c].status = "accepted" /\ ~change[c].failed =>
        c \in landed \/ Has("applier", c)

\* The turn of a handler's write takes no write of the applier's away.
LEMMA TurnOfHandler ==
    ASSUME Types, WellFormed, NEW c \in Arrived, Turn("handler", c), Grows
    PROVE  \A d \in Arrived : Has("applier", d) => Has("applier", d)'
<1>1. \A d \in Arrived : NoteOf(d)' = NoteOf(d) /\ NoteOf(d) \in Notes /\ d \in Calls
  BY FieldTypes DEF Grows, NoteOf
<1>2. \A r \in Roles, d \in Calls, m \in Notes :
         In(r, d, m)' <=> In(r, d, m) /\ ~(r = "handler" /\ d = c /\ m = NoteOf(c))
  BY TurnDoes DEF WellFormed, QueueOK, Roles
<1>. QED
  BY <1>1, <1>2 DEF Has, Roles

\* Where no write takes its turn, every write that is asked for stays so.
LEMMA EntriesStay ==
    ASSUME Types, WellFormed, Grows,
           \/ UNCHANGED queue
           \/ \E c \in Arrived, by \in Roles : Ask(by, c) /\ ~In(by, c, NoteOf(c))
    PROVE  \A d \in Arrived, r \in Roles : Has(r, d) => Has(r, d)'
<1>1. \A d \in Arrived : NoteOf(d)' = NoteOf(d) /\ NoteOf(d) \in Notes /\ d \in Calls
  BY FieldTypes DEF Grows, NoteOf
<1>2. CASE UNCHANGED queue
  BY <1>1, <1>2, SameQueue DEF Has
<1>3. CASE \E c \in Arrived, by \in Roles : Ask(by, c) /\ ~In(by, c, NoteOf(c))
  BY <1>1, <1>3, AskDoes DEF Has, WellFormed, QueueOK
<1>. QED
  BY <1>2, <1>3

\* A change that stays as it is keeps its turn; one that is accepted has to get one.
LEMMA AcceptedQuiet ==
    ASSUME Types, WellFormed, Grows, AcceptedHasTurn,
           \A d \in Arrived : Has("applier", d) => Has("applier", d)',
           landed \subseteq landed',
           \A c \in Stored' : \/ /\ c \in Stored /\ change'[c].failed = change[c].failed
                                 /\ change'[c].status = change[c].status
                              \/ change'[c].status # "accepted"
                              \/ c \in landed' \/ Has("applier", c)' \/ change'[c].failed
    PROVE  AcceptedHasTurn'
<1>1. \A c \in Stored : c \in Arrived
  BY WellGrounded DEF Grounded
<1>. QED
  BY <1>1 DEF AcceptedHasTurn

\* Every step keeps the turns of the accepted changes.
LEMMA AcceptedNext ==
    ASSUME Types, WellFormed, [Next]_vars, AcceptedHasTurn
    PROVE  AcceptedHasTurn'
<1>1. Grows /\ Types'
  BY WellNext
<1>2. ASSUME UNCHANGED <<change, queue, landed>>
      PROVE  AcceptedHasTurn'
  BY <1>1, <1>2, EntriesStay, AcceptedQuiet DEF Roles, Stored
<1>3. CASE QuietStep \/ UNCHANGED vars
  BY <1>2, <1>3, QuietDoes DEF histVars
<1>4. CASE \E t \in Chats, c \in Calls, n \in Notes, p \in Proposed : Propose(t, c, n, p)
  BY <1>2, <1>4, ProposeDoes DEF histVars
<1>5. ASSUME NEW t \in Chats, NEW open \in SUBSET Notes, NEW mentioned \in SUBSET Notes,
             Prompt(t, open, mentioned)
      PROVE  AcceptedHasTurn'
  <2>1. SameEntries /\ UNCHANGED <<queue, landed>>
    BY <1>5, PromptDoes DEF histVars
  <2>2. \A c \in Stored' : /\ c \in Stored /\ change'[c].failed = change[c].failed
                           /\ change'[c].status = change[c].status
    BY <2>1, InHandlers DEF SameEntries, Stored
  <2>. QED
    BY <1>1, <2>1, <2>2, EntriesStay, AcceptedQuiet DEF Roles
<1>6. ASSUME NEW c \in Calls, Refuse(c) PROVE AcceptedHasTurn'
  BY <1>2, <1>6 DEF Refuse, histVars
<1>7. ASSUME NEW c \in Calls, MergeStaged(c) PROVE AcceptedHasTurn'
  <2>. PICK e \in Calls : e = Claimed(c)
    BY <1>7, MergeStagedDoes
  <2>1. /\ c \in Arrived /\ call[c].stage = "waiting" /\ e \in Stored
        /\ UNCHANGED landed /\ \A d \in Calls : d # e => change'[d] = change[d]
        /\ UNCHANGED queue \/ Ask("handler", c)
    BY <1>7, MergeStagedDoes DEF Stored, histVars
  <2>2. change'[e].status = change[e].status /\ change'[e].failed = change[e].failed
    <3>1. change[e] \in Changes
      BY <2>1, InHandlers
    <3>2. change'[e] = [change[e] EXCEPT !.after = Replaced(change[e].after, c)]
              \/ change'[e] = change[e]
      BY <1>7, MergeStagedDoes
    <3>. QED
      BY <3>1, <3>2 DEF Changes
  <2>3. ~In("handler", c, NoteOf(c))
    BY <2>1, HandlerAsked, FieldTypes
  <2>4. \A d \in Arrived : Has("applier", d) => Has("applier", d)'
    BY <1>1, <2>1, <2>3, EntriesStay DEF Roles
  <2>. QED
    BY <1>1, <2>1, <2>2, <2>4, AcceptedQuiet DEF Stored
<1>8. ASSUME NEW c \in Arrived, NEW d \in Calls, Turn("handler", c), Accepts(d),
             landed \subseteq landed',
             d \in landed' \/ (UNCHANGED change)
      PROVE  AcceptedHasTurn'
  <2>1. \A e \in Arrived : Has("applier", e) => Has("applier", e)'
    BY <1>1, <1>8, TurnOfHandler
  <2>2. \A e \in Stored' : \/ /\ e \in Stored /\ change'[e].failed = change[e].failed
                              /\ change'[e].status = change[e].status
                           \/ e \in landed'
    BY <1>8 DEF Accepts, Stored
  <2>. QED
    BY <1>1, <1>8, <2>1, <2>2, AcceptedQuiet
<1>9. ASSUME NEW c \in Calls, FinishMerge(c) PROVE AcceptedHasTurn'
  <2>1. c \in Arrived /\ Turn("handler", c) /\ call[c].claim \in Calls
    BY <1>9, WellGrounded, FinishMergeDoes DEF Grounded
  <2>2. \/ UNCHANGED <<change, landed>>
        \/ change' = Accepted(call[c].claim) /\ landed' = landed \cup {c, call[c].claim}
    BY <1>9, FinishMergeDoes
  <2>3. Accepts(call[c].claim)
    BY <2>1, <2>2, AcceptsIs
  <2>. QED
    BY <1>8, <2>1, <2>2, <2>3
<1>10. ASSUME NEW c \in Calls, GuardedWrite(c) PROVE AcceptedHasTurn'
  <2>1. c \in Arrived /\ Turn("handler", c)
    BY <1>10, GuardedWriteDoes
  <2>2. UNCHANGED <<change, landed>> \/ (change' = Accepted(c) /\ landed' = landed \cup {c})
    BY <1>10, GuardedWriteDoes
  <2>3. Accepts(c)
    BY <2>2, AcceptsIs
  <2>. QED
    BY <1>8, <1>10, <2>1, <2>2, <2>3
<1>11. ASSUME NEW c \in Calls, NEW kind \in {"add", "whole", "range"},
              NEW claim \in {c, NoCall},
              NEW stage \in {"done", "writing"}, NEW answer \in Answers,
              NEW by \in {"none", "applier", "handler"},
              GetsCardAs(c, kind, claim, stage, answer, by)
       PROVE  AcceptedHasTurn'
  <2>1. /\ c \in Arrived /\ call[c].stage = "waiting" /\ UNCHANGED landed
        /\ change'[c].status = "accepted" <=> by = "applier"
        /\ \A d \in Calls : d # c => change'[d] = change[d]
        /\ by = "none" => UNCHANGED queue
        /\ by # "none" => Ask(by, c)
    BY <1>11 DEF GetsCardAs
  <2>2. /\ ~In("handler", c, NoteOf(c)) /\ ~In("applier", c, NoteOf(c))
    BY <2>1, HandlerAsked, FieldTypes
  <2>3. \A d \in Arrived : Has("applier", d) => Has("applier", d)'
    BY <1>1, <2>1, <2>2, EntriesStay DEF Roles
  <2>4. by = "applier" => Has("applier", c)'
    <3>1. PICK n \in Notes : n = NoteOf(c) /\ n = NoteOf(c)'
      BY <1>1, <2>1, FieldTypes DEF Grows, NoteOf
    <3>2. by = "applier" => In("applier", c, n)'
      BY <2>1, <2>2, <3>1, AskDoes, FieldTypes DEF Roles, WellFormed, QueueOK
    <3>. QED
      BY <3>1, <3>2 DEF Has
  <2>. QED
    BY <1>1, <2>1, <2>3, <2>4, AcceptedQuiet DEF Stored
<1>12. ASSUME NEW c \in Calls, Keep(c) PROVE AcceptedHasTurn'
  <2>1. /\ c \in Arrived /\ NoteOf(c) \in Notes
    BY <1>12, WellGrounded, FieldTypes DEF Keep, Grounded, Stored
  <2>2. /\ Turns(c, "accepted", change[c].failed) /\ Ask("applier", c)
        /\ UNCHANGED <<call, landed>>
        /\ ~In("applier", c, NoteOf(c))
    BY <1>12, <2>1, KeepDoes DEF WellFormed, QueueOK, Roles
  <2>3. \A d \in Arrived : Has("applier", d) => Has("applier", d)'
    BY <1>1, <2>1, <2>2, EntriesStay DEF Roles
  <2>4. Has("applier", c)'
    BY <2>1, <2>2, AskDoes DEF Has, Roles, WellFormed, QueueOK, NoteOf
  <2>. QED
    BY <1>1, <2>2, <2>3, <2>4, AcceptedQuiet DEF Turns, Stored
<1>13. ASSUME NEW c \in Calls, Reject(c) PROVE AcceptedHasTurn'
  <2>1. Turns(c, "rejected", change[c].failed) /\ UNCHANGED <<queue, landed>>
    BY <1>13, RejectDoes
  <2>. QED
    BY <1>1, <2>1, EntriesStay, AcceptedQuiet DEF Turns, Stored, Roles
<1>14. ASSUME NEW c \in Calls, ApplyAccepted(c) PROVE AcceptedHasTurn'
  <2>1. c \in Arrived /\ NoteOf(c) \in Notes /\ c \in Stored
    BY <1>14, WellGrounded, FieldTypes DEF ApplyAccepted, Grounded
  <2>2. /\ Turn("applier", c) /\ UNCHANGED call
        /\ \A d \in Calls : d # c => change'[d] = change[d]
        /\ landed \subseteq landed' /\ (c \in landed' \/ change'[c].failed)
    BY <1>14, <2>1, ApplyDoes DEF Turns
  <2>3. \A d \in Arrived : d # c => (Has("applier", d) => Has("applier", d)')
    BY <2>1, <2>2, TurnDoes, FieldTypes DEF Has, Roles, WellFormed, QueueOK, NoteOf
  <2>4. \A d \in Stored : d \in Arrived
    BY WellGrounded DEF Grounded
  <2>. QED
    BY <2>1, <2>2, <2>3, <2>4 DEF AcceptedHasTurn, Stored
<1>15. ASSUME NEW c \in Calls, PruneDecided(c) PROVE AcceptedHasTurn'
  <2>1. /\ change'[c] = Pruned /\ UNCHANGED <<queue, landed>>
        /\ \A d \in Calls : d # c => change'[d] = change[d]
    BY <1>15, PruneDoes DEF histVars
  <2>. QED
    BY <1>1, <2>1, EntriesStay, AcceptedQuiet DEF Stored, Pruned, Roles
<1>16. ASSUME NEW c \in Calls, NEW kind \in {"add", "whole", "range"},
              NEW claim \in {c, NoCall},
              GetsCard(c, kind, claim)
       PROVE  AcceptedHasTurn'
  BY <1>11, <1>16, CardsAre
<1>. QED
  BY <1>3, <1>4, <1>5, <1>6, <1>7, <1>9, <1>10, <1>12, <1>13, <1>14, <1>15, <1>16, NextCases
     DEF ChangeStep

-----------------------------------------------------------------------------
(* Whose text is where *)

\* A call that has no card yet, or whose edit was turned down.
Unplaced(x) ==
    \/ call[x].stage \in {"none", "waiting"}
    \/ call[x].kind = "Edit" /\ call[x].answer = "refused"

\* The change that carries the text of the call x.
Root(x) == IF change[x] = NoChange THEN call[x].claim ELSE x

\* Text of this change may be in a note.
Stands(d) == d \in crossed \/ change[d].status \in {"accepted", "pruned"}

\* A call with an entry is placed.
Carded == \A c \in Calls : change[c] # NoChange => ~Unplaced(c)

\* A handler that is under way has answered nothing, and a waiting one has written nothing.
Fresh(c) ==
    /\ call[c].stage = "waiting" => call[c].out = {}
    /\ call[c].stage # "done" => call[c].answer = "none"

\* Text of a call in an entry, in a merged body or in a note belongs to the change that
\* carries it; in a note, that change stands.
Texts ==
    /\ \A d \in Stored : \A x \in change[d].after \cap Calls : ~Unplaced(x) /\ Root(x) = d
    /\ \A e \in Arrived : \A x \in call[e].out \cap Calls :
          ~Unplaced(x) /\ Root(x) = call[e].claim
    /\ \A n \in Notes : \A x \in body[n] \cap Calls :
          ~Unplaced(x) /\ Root(x) \in Calls /\ Stands(Root(x))

\* A pending change of a chat in acceptEdits mode is on a loaded note once its handler ended.
AutoLoaded(d) ==
    change[d].status = "pending" /\ call[d].stage = "done" /\ call[d].chat \in auto
        => NoteOf(d) \in loaded

\* What a handler merges into stands, or is pending on a loaded note (so that nobody decides).
MergeStands(e) ==
    call[e].stage = "merging" =>
        \/ Stands(call[e].claim)
        \/ change[call[e].claim].status = "pending" /\ NoteOf(e) \in loaded

\* A change that was rejected while its handler was under way is recorded as such.
Crosses(c) == change[c].status = "rejected" /\ call[c].stage # "done" => c \in crossed

\* The invariant behind the decisions.
Decided ==
    /\ Carded /\ Texts
    /\ \A c \in Arrived : Fresh(c) /\ AutoLoaded(c) /\ MergeStands(c) /\ Crosses(c)

\* At first no text of a call is anywhere.
LEMMA DecidedInit == Init => Decided
<1>. SUFFICES ASSUME Init PROVE Decided
  OBVIOUS
<1>1. Arrived = {} /\ Stored = {} /\ \A c \in Calls : change[c] = NoChange
  BY DEF Init, Arrived, Stored, Unused, NoChange
<1>2. \A n \in Notes : body[n] \cap Calls = {}
  BY NamesAssumption DEF Init, NoBody
<1>. QED
  BY <1>1, <1>2 DEF Decided, Carded, Texts

\* What was placed stays so, and what stands stays.
Lasting ==
    /\ \A x \in Calls : ~Unplaced(x) => ~Unplaced(x)' /\ Root(x)' = Root(x)
    /\ \A d \in Calls : Stands(d) => Stands(d)'
    /\ \A c \in Calls : change'[c] # NoChange => ~Unplaced(c)'

\* What a step must not do for what was placed, and what stands, to last.
LEMMA LastingKept ==
    ASSUME Types, Carded, crossed \subseteq crossed',
           \A x \in Calls : call[x].stage \notin {"none", "waiting"} =>
               /\ call'[x].stage \notin {"none", "waiting"} /\ call'[x].kind = call[x].kind
               /\ call'[x].claim = call[x].claim
               /\ change'[x] = NoChange <=> change[x] = NoChange
               /\ \/ call'[x].answer = call[x].answer \/ call'[x].answer # "refused"
                  \/ call[x].kind # "Edit",
           \A x \in Calls : change'[x] # NoChange /\ change[x] = NoChange => ~Unplaced(x)',
           \A x \in Calls : \/ change[x].status \notin {"accepted", "pruned"}
                            \/ change'[x].status \in {"accepted", "pruned"}
    PROVE  Lasting
BY DEF Lasting, Carded, Unplaced, Root, Stands

\* Text stays where it belongs if what a step adds belongs there.
LEMMA TextsKept ==
    ASSUME Types, Types', Texts, Lasting,
           \A d \in Stored' : \A x \in change'[d].after \cap Calls :
               \/ d \in Stored /\ x \in change[d].after
               \/ ~Unplaced(x)' /\ Root(x)' = d,
           \A e \in Arrived' : \A x \in call'[e].out \cap Calls :
               \/ e \in Arrived /\ x \in call[e].out /\ call'[e].claim = call[e].claim
               \/ ~Unplaced(x)' /\ Root(x)' = call'[e].claim,
           \A n \in Notes : \A x \in body'[n] \cap Calls :
               \/ x \in body[n]
               \/ ~Unplaced(x)' /\ Root(x)' \in Calls
                      /\ (\E d \in Calls : d = Root(x)' /\ Stands(d)')
    PROVE  Texts'
<1>1. \A d \in Stored' : \A x \in change'[d].after \cap Calls : ~Unplaced(x)' /\ Root(x)' = d
  BY DEF Texts, Lasting
<1>2. \A e \in Arrived' : \A x \in call'[e].out \cap Calls :
          ~Unplaced(x)' /\ Root(x)' = call'[e].claim
  BY DEF Texts, Lasting
<1>3. ASSUME NEW n \in Notes, NEW x \in body'[n] \cap Calls
      PROVE  ~Unplaced(x)' /\ \E d \in Calls : d = Root(x)' /\ Stands(d)'
  BY <1>3 DEF Texts, Lasting
<1>4. ASSUME NEW x, NEW d \in Calls, d = Root(x)', Stands(d)'
      PROVE  Stands(Root(x))'
  BY <1>4 DEF Stands
<1>. QED
  BY <1>1, <1>2, <1>3, <1>4 DEF Texts

\* A quiet step moves no text of a call.
LEMMA DecidedQuiet ==
    ASSUME Types, WellFormed, Decided, QuietStep \/ UNCHANGED vars
    PROVE  Decided'
<1>1. /\ Types' /\ loaded \subseteq loaded'
      /\ \A n \in Notes : body'[n] \cap Calls = body[n] \cap Calls
      /\ UNCHANGED <<auto, call, change, crossed>>
  BY QuietDoes DEF histVars
<1>2. Lasting
  BY <1>1, LastingKept DEF Decided
<1>3. Texts'
  <2>1. \A n \in Notes : \A x \in body'[n] \cap Calls : x \in body[n]
    BY <1>1
  <2>2. \A d \in Stored' : d \in Stored /\ change'[d].after = change[d].after
    BY <1>1 DEF Stored
  <2>3. \A d \in Arrived' : d \in Arrived /\ call'[d].out = call[d].out
            /\ call'[d].claim = call[d].claim
    BY <1>1 DEF Arrived
  <2>. QED
    BY <1>1, <1>2, <2>1, <2>2, <2>3, TextsKept DEF Decided
<1>4. \A c \in Arrived' : c \in Arrived /\ (Fresh(c) => Fresh(c)')
          /\ (AutoLoaded(c) => AutoLoaded(c)')
                          /\ (Crosses(c) => Crosses(c)') /\ (MergeStands(c) => MergeStands(c)')
  BY <1>1 DEF Arrived, Fresh, AutoLoaded, Crosses, MergeStands, Stands, NoteOf
<1>. QED
  BY <1>2, <1>3, <1>4 DEF Decided, Lasting, Carded

\* The conditions on a single call stay, if the step decides nothing behind its back.
LEMMA PointsKept ==
    ASSUME Types, WellFormed, Lasting, Decided, loaded \subseteq loaded', UNCHANGED auto,
           crossed \subseteq crossed', NEW e \in Arrived, call'[e] = call[e],
           change'[e].status = "pending" => change[e].status = "pending",
           change'[e].status = "rejected" =>
               change[e].status = "rejected" \/ call[e].stage = "done" \/ e \in crossed',
           \A d \in Calls : d = call[e].claim /\ call[e].stage = "merging"
                            /\ change[d].status = "pending" /\ NoteOf(e) \in loaded
                                => change'[d].status \in {"pending", "accepted"}
    PROVE  Fresh(e)' /\ AutoLoaded(e)' /\ MergeStands(e)' /\ Crosses(e)'
<1>1. Fresh(e) /\ AutoLoaded(e) /\ MergeStands(e) /\ Crosses(e) /\ e \in Calls
  BY FieldTypes DEF Decided
<1>2. Fresh(e)' /\ AutoLoaded(e)' /\ Crosses(e)'
  BY <1>1 DEF Fresh, AutoLoaded, Crosses, NoteOf
<1>3. MergeStands(e)'
  <2>. SUFFICES ASSUME call[e].stage = "merging" PROVE MergeStands(e)'
    BY DEF MergeStands
  <2>1. PICK d \in Calls : d = call[e].claim
    BY <1>1, WellGrounded, FieldTypes DEF Grounded
  <2>2. Stands(d) \/ (change[d].status = "pending" /\ NoteOf(e) \in loaded)
    BY <1>1, <2>1 DEF MergeStands
  <2>3. Stands(d)' \/ (change'[d].status = "pending" /\ NoteOf(e)' \in loaded')
    BY <2>1, <2>2 DEF Lasting, Stands, NoteOf
  <2>4. call'[e].claim = d
    BY <2>1
  <2>. QED
    BY <2>3, <2>4 DEF MergeStands, Stands
<1>. QED
  BY <1>2, <1>3

\* A proposal that arrives has no text anywhere.
LEMMA DecidedPropose ==
    ASSUME Types, Types', WellFormed, Grows, Decided, NEW t \in Chats, NEW c \in Calls,
           NEW n \in Notes, NEW p \in Proposed, Propose(t, c, n, p)
    PROVE  Decided'
<1>1. /\ c \notin Arrived /\ \A d \in Calls : d # c => call'[d] = call[d]
      /\ call'[c].stage = "waiting" /\ call'[c].out = {} /\ call'[c].answer = "none"
      /\ UNCHANGED <<body, loaded, auto, change, crossed>>
  BY ProposeDoes DEF noteVars, histVars
<1>2. call[c].stage = "none" /\ change[c] = NoChange /\ \A d \in Arrived : d # c /\ d \in Calls
  BY <1>1 DEF Arrived, WellFormed, Stages
<1>3. Lasting
  BY <1>1, <1>2, LastingKept DEF Decided
<1>4. Texts'
  <2>1. \A d \in Stored' : d \in Stored /\ change'[d].after = change[d].after
    BY <1>1 DEF Stored
  <2>2. \A d \in Arrived' :
          \/ /\ d \in Arrived /\ call'[d].out = call[d].out
             /\ call'[d].claim = call[d].claim
          \/ call'[d].out = {}
    BY <1>1 DEF Arrived
  <2>. QED
    BY <1>1, <1>3, <2>1, <2>2, TextsKept DEF Decided
<1>5. \A d \in Arrived : Fresh(d)' /\ AutoLoaded(d)' /\ MergeStands(d)' /\ Crosses(d)'
  BY <1>1, <1>2, <1>3, PointsKept
<1>6. Fresh(c)' /\ AutoLoaded(c)' /\ MergeStands(c)' /\ Crosses(c)'
  BY <1>1, <1>2 DEF Fresh, AutoLoaded, MergeStands, Crosses, NoChange
<1>7. \A d \in Arrived' : d \in Arrived \/ d = c
  BY <1>1 DEF Arrived
<1>. QED
  BY <1>3, <1>4, <1>5, <1>6, <1>7 DEF Decided, Lasting, Carded

\* A prompt decides nothing.
LEMMA DecidedPrompt ==
    ASSUME Types, Types', WellFormed, Grows, Decided, NEW t \in Chats,
           NEW open \in SUBSET Notes,
           NEW mentioned \in SUBSET Notes, Prompt(t, open, mentioned)
    PROVE  Decided'
<1>1. /\ SameEntries /\ UNCHANGED <<body, loaded, auto, call, crossed>>
  BY PromptDoes DEF noteVars, histVars
<1>2. \A d \in Calls : /\ change[d] = NoChange <=> change'[d] = NoChange
                       /\ d \in Stored <=> d \in Stored'
                       /\ change'[d].status = change[d].status
                       /\ d \in Stored => change'[d].after = change[d].after
  BY <1>1, InHandlers DEF SameEntries, Changes, NoChange, Pruned, Types, CallTypes, Stored
<1>3. Lasting
  BY <1>1, <1>2, LastingKept DEF Decided
<1>4. Texts'
  <2>1. \A d \in Stored' : d \in Stored /\ change'[d].after = change[d].after
    BY <1>2 DEF Stored
  <2>2. \A d \in Arrived' : d \in Arrived /\ call'[d].out = call[d].out
            /\ call'[d].claim = call[d].claim
    BY <1>1 DEF Arrived
  <2>. QED
    BY <1>1, <1>3, <2>1, <2>2, TextsKept DEF Decided
<1>5. \A d \in Arrived : d \in Calls
  BY DEF Arrived
<1>6. \A d \in Arrived : Fresh(d)' /\ AutoLoaded(d)' /\ MergeStands(d)' /\ Crosses(d)'
  BY <1>1, <1>2, <1>3, <1>5, PointsKept
<1>. QED
  BY <1>1, <1>3, <1>4, <1>6 DEF Decided, Lasting, Carded, Arrived

\* A refused edit was not placed, and never will be.
LEMMA DecidedRefuse ==
    ASSUME Types, Types', WellFormed, Grows, Decided, NEW c \in Calls, Refuse(c)
    PROVE  Decided'
<1>1. /\ c \in Arrived /\ call[c].stage = "waiting"
      /\ Moves(c, "done", "refused", Claimed(c), call[c].out)
      /\ UNCHANGED <<body, loaded, auto, change, crossed>>
  BY DEF Refuse, noteVars, chatVars, histVars
<1>2. change[c] = NoChange /\ call[c].claim = NoCall /\ call[c].out = {}
  BY <1>1 DEF WellFormed, Stages, Decided, Fresh
<1>3. Lasting
  BY <1>1, <1>2, LastingKept DEF Decided, Moves
<1>4. Texts'
  <2>1. \A d \in Stored' : d \in Stored /\ change'[d].after = change[d].after
    BY <1>1 DEF Stored
  <2>2. \A d \in Arrived' :
          \/ /\ d \in Arrived /\ call'[d].out = call[d].out
             /\ call'[d].claim = call[d].claim
          \/ call'[d].out = {}
    BY <1>1, <1>2 DEF Moves, Arrived
  <2>. QED
    BY <1>1, <1>3, <2>1, <2>2, TextsKept DEF Decided
<1>5. \A d \in Arrived : d \in Calls
  BY DEF Arrived
<1>6. \A d \in Arrived : d # c => Fresh(d)' /\ AutoLoaded(d)' /\ MergeStands(d)' /\ Crosses(d)'
  BY <1>1, <1>3, <1>5, PointsKept DEF Moves
<1>7. Fresh(c)' /\ AutoLoaded(c)' /\ MergeStands(c)' /\ Crosses(c)'
  BY <1>1, <1>2 DEF Moves, Fresh, AutoLoaded, MergeStands, Crosses, NoChange
<1>8. \A d \in Arrived' : d \in Arrived
  BY <1>1 DEF Moves, Arrived
<1>. QED
  BY <1>3, <1>4, <1>6, <1>7, <1>8 DEF Decided, Lasting, Carded

\* A merged body carries the text of the change it is merged into, which was not rejected.
LEMMA DecidedMergeStaged ==
    ASSUME Types, Types', WellFormed, Grows, Decided, NEW c \in Calls, MergeStaged(c)
    PROVE  Decided'
<1>. PICK e \in Calls : e = Claimed(c)
  BY MergeStagedDoes
<1>1. /\ c \in Arrived /\ call[c].stage = "waiting" /\ PriorDone(c) /\ e \in Stored
      /\ change[e].status # "rejected"
      /\ UNCHANGED <<body, loaded, auto, crossed>>
      /\ \A d \in Calls : d # e => change'[d] = change[d]
  BY MergeStagedDoes DEF noteVars, chatVars, histVars, Stored
<1>2. change[c] = NoChange /\ call[c].claim = NoCall /\ call[c].out = {}
          /\ call[c].answer = "none"
  BY <1>1 DEF WellFormed, Stages, Decided, Fresh
<1>3. c # e /\ e # NoCall /\ e \in Arrived
  BY <1>1, <1>2, NamesAssumption, WellGrounded DEF Stored, NoChange, Grounded
<1>. DEFINE merged == Replaced(change[e].after, c)
<1>4. change[e] \in Changes /\ merged \cap Calls \subseteq change[e].after \cup {c}
  BY <1>1, InHandlers, NamesAssumption DEF Replaced, Content
<1>5. change'[e] \in Changes /\ change'[e].status = change[e].status
      /\ change'[e].after \in {change[e].after, merged}
  <2>1. change'[e] = [change[e] EXCEPT !.after = merged] \/ change'[e] = change[e]
    BY MergeStagedDoes
  <2>2. merged \in SUBSET Pieces
    BY MergeStagedDoes
  <2>. HIDE DEF merged
  <2>. QED
    BY <1>4, <2>1, <2>2 DEF Changes
<1>6. PICK stage \in {"done", "merging"}, answer \in {"none", "queued"}, out \in {{}, merged} :
          /\ Moves(c, stage, answer, e, out)
          /\ stage = "merging" =>
                answer = "none" /\ (change[e].status # "pending" \/ call[c].chat \in auto)
  BY <1>2, MergeStagedDoes
<1>. HIDE DEF merged
<1>7. \A d \in Calls : /\ change[d] = NoChange <=> change'[d] = NoChange
                       /\ d \in Stored <=> d \in Stored'
                       /\ change'[d].status = change[d].status
  BY <1>1, <1>4, <1>5 DEF Stored, NoChange, Changes
<1>8. Lasting
  <2>1. \A x \in Calls : change'[x] # NoChange /\ change[x] = NoChange => ~Unplaced(x)'
    BY <1>7
  <2>2. \A x \in Calls : call[x].stage \notin {"none", "waiting"} => x # c /\ call'[x] = call[x]
    BY <1>1, <1>6 DEF Moves
  <2>. QED
    BY <1>1, <1>7, <2>1, <2>2, LastingKept DEF Decided
<1>9. ~Unplaced(c)' /\ Root(c)' = e
  BY <1>2, <1>6, <1>7 DEF Moves, Unplaced, Root
<1>10. \A x \in merged \cap Calls : ~Unplaced(x)' /\ Root(x)' = e
  BY <1>1, <1>4, <1>8, <1>9 DEF Decided, Texts, Lasting
<1>11. Texts'
  <2>1. \A d \in Stored' : \A x \in change'[d].after \cap Calls :
           \/ d \in Stored /\ x \in change[d].after
           \/ ~Unplaced(x)' /\ Root(x)' = d
    BY <1>1, <1>5, <1>7, <1>10 DEF Stored
  <2>2. \A d \in Arrived' : \A x \in call'[d].out \cap Calls :
           \/ d \in Arrived /\ x \in call[d].out /\ call'[d].claim = call[d].claim
           \/ ~Unplaced(x)' /\ Root(x)' = call'[d].claim
    BY <1>1, <1>6, <1>10 DEF Moves, Arrived
  <2>. QED
    BY <1>1, <1>8, <2>1, <2>2, TextsKept DEF Decided
<1>12. \A d \in Arrived : d # c => Fresh(d)' /\ AutoLoaded(d)' /\ MergeStands(d)' /\ Crosses(d)'
  <2>1. \A d \in Arrived : d \in Calls /\ (d # c => call'[d] = call[d])
    BY <1>6 DEF Moves, Arrived
  <2>. QED
    BY <1>1, <1>7, <1>8, <2>1, PointsKept
<1>13. Fresh(c)' /\ AutoLoaded(c)' /\ MergeStands(c)' /\ Crosses(c)'
  <2>1. change'[c].status = "none"
    BY <1>2, <1>7 DEF NoChange
  <2>2. stage = "merging" => Stands(e)'
            \/ (change'[e].status = "pending" /\ NoteOf(c)' \in loaded')
    <3>1. Akin(c, e) /\ call[e].stage = "done"
      BY <1>1, <1>3, ClaimedIs
    <3>2. change[e].status = "pending" /\ call[c].chat \in auto => NoteOf(c) \in loaded
      BY <1>3, <3>1 DEF Akin, Decided, AutoLoaded
    <3>3. change[e].status \in {"pending", "accepted"}
      BY <1>1, <1>4 DEF Changes
    <3>. QED
      BY <1>1, <1>6, <1>7, <3>2, <3>3 DEF Stands, Moves, NoteOf
  <2>3. call'[c].claim = e
    BY <1>6 DEF Moves
  <2>4. MergeStands(c)'
    BY <1>6, <2>2, <2>3 DEF Moves, MergeStands, Stands, NoteOf
  <2>. QED
    BY <1>6, <2>1, <2>4 DEF Moves, Fresh, AutoLoaded, Crosses
<1>14. \A d \in Arrived' : d \in Arrived
  BY <1>1, <1>6 DEF Moves, Arrived
<1>. QED
  BY <1>8, <1>11, <1>12, <1>13, <1>14 DEF Decided, Lasting, Carded

\* A handler that had its turn writes text that stands, or nothing.
LEMMA DecidedSettle ==
    ASSUME Types, Types', WellFormed, Grows, Decided, NEW c \in Arrived, NEW d \in Calls,
           NEW answer, call[c].stage \in {"writing", "merging"},
           Moves(c, "done", answer, call[c].claim, call[c].out), Accepts(d),
           answer # "refused" \/ call[c].kind = "Write", NoteOf(c) \in loaded,
           UNCHANGED <<loaded, auto, crossed>>,
           \/ UNCHANGED body
           \/ \E out \in SUBSET Pieces :
                 /\ body' = [body EXCEPT ![NoteOf(c)] = out] /\ Stands(d)'
                 /\ \A x \in out \cap Calls : ~Unplaced(x) /\ Root(x) = d
    PROVE  Decided'
<1>1. c \in Calls /\ NoteOf(c) \in Notes
  BY FieldTypes
<1>2. \A x \in Calls : /\ change[x] = NoChange <=> change'[x] = NoChange
                       /\ x \in Stored <=> x \in Stored'
                       /\ x \in Stored => change'[x].after = change[x].after
                       /\ \/ change'[x].status = change[x].status
                          \/ change[x].status = "pending" /\ change'[x].status = "accepted"
  BY DEF Accepts
<1>3. Lasting
  BY <1>1, <1>2, LastingKept DEF Decided, Moves
<1>4. \A n \in Notes : \A x \in body'[n] \cap Calls :
         x \in body[n] \/ (~Unplaced(x) /\ Root(x) = d /\ Stands(d)')
  BY <1>1 DEF Types, NoteTypes
<1>5. Texts'
  <2>1. \A x \in Stored' : x \in Stored /\ change'[x].after = change[x].after
    BY <1>2 DEF Stored
  <2>2. \A x \in Arrived' : x \in Arrived /\ call'[x].out = call[x].out
            /\ call'[x].claim = call[x].claim
    BY <1>1 DEF Moves, Arrived
  <2>3. \A n \in Notes : \A x \in body'[n] \cap Calls :
           \/ x \in body[n]
           \/ ~Unplaced(x)' /\ Root(x)' \in Calls
                  /\ (\E e \in Calls : e = Root(x)' /\ Stands(e)')
    BY <1>3, <1>4 DEF Lasting
  <2>. QED
    BY <1>3, <2>1, <2>2, <2>3, TextsKept DEF Decided
<1>6. \A e \in Arrived : e # c => Fresh(e)' /\ AutoLoaded(e)' /\ MergeStands(e)' /\ Crosses(e)'
  <2>1. \A e \in Arrived : e \in Calls /\ (e # c => call'[e] = call[e])
    BY DEF Moves, Arrived
  <2>. QED
    BY <1>2, <1>3, <2>1, PointsKept
<1>7. Fresh(c)' /\ AutoLoaded(c)' /\ MergeStands(c)' /\ Crosses(c)'
  BY <1>1 DEF Moves, Fresh, AutoLoaded, MergeStands, Crosses, NoteOf
<1>8. \A e \in Arrived' : e \in Arrived
  BY <1>1 DEF Moves, Arrived
<1>. QED
  BY <1>3, <1>5, <1>6, <1>7, <1>8 DEF Decided, Lasting, Carded

\* The direct write of a merged body accepts the change whose text it writes.
LEMMA DecidedFinishMerge ==
    ASSUME Types, Types', WellFormed, Grows, Decided, NEW c \in Calls, FinishMerge(c)
    PROVE  Decided'
<1>1. /\ c \in Arrived /\ call[c].stage = "merging" /\ NoteOf(c) \in loaded
      /\ UNCHANGED <<loaded, auto, crossed>> /\ call[c].out \in SUBSET Pieces
  BY FinishMergeDoes, FieldTypes DEF chatVars
<1>. PICK d \in Calls : d = call[c].claim
  BY <1>1, WellGrounded, FieldTypes DEF Grounded
<1>2. PICK answer \in {"queued", "applied"} :
         /\ Moves(c, "done", answer, call[c].claim, call[c].out)
         /\ \/ UNCHANGED <<body, change>>
            \/ body' = [body EXCEPT ![NoteOf(c)] = call[c].out] /\ change' = Accepted(d)
  BY FinishMergeDoes
<1>3. Accepts(d)
  BY <1>2, AcceptsIs
<1>4. \A x \in call[c].out \cap Calls : ~Unplaced(x) /\ Root(x) = d
  BY <1>1 DEF Decided, Texts
<1>5. change' = Accepted(d) => Stands(d)'
  <2>1. Stands(d) \/ change[d].status = "pending"
    BY <1>1 DEF Decided, MergeStands
  <2>. QED
    BY <1>1, <2>1, AcceptedTurns DEF Turns, Stands
<1>. QED
  BY <1>1, <1>2, <1>3, <1>4, <1>5, DecidedSettle

\* The guarded write accepts the change whose text it writes.
LEMMA DecidedGuardedWrite ==
    ASSUME Types, Types', WellFormed, Grows, Decided, NEW c \in Calls, GuardedWrite(c)
    PROVE  Decided'
<1>1. /\ c \in Arrived /\ call[c].stage = "writing" /\ NoteOf(c) \in loaded
      /\ UNCHANGED <<loaded, auto, crossed>> /\ Content(c) \in SUBSET Pieces
  BY GuardedWriteDoes, FieldTypes DEF chatVars
<1>2. call[c].kind = "Write" /\ change[c] # NoChange
  BY <1>1 DEF WellFormed, Stages
<1>3. PICK answer \in Answers :
         /\ Moves(c, "done", answer, call[c].claim, call[c].out)
         /\ \/ UNCHANGED <<body, change>>
            \/ body' = [body EXCEPT ![NoteOf(c)] = Content(c)] /\ change' = Accepted(c)
  BY GuardedWriteDoes DEF Answers
<1>4. Accepts(c)
  BY <1>3, AcceptsIs
<1>5. \A x \in Content(c) \cap Calls : ~Unplaced(x) /\ Root(x) = c
  BY <1>1, <1>2, NamesAssumption DEF Content, Unplaced, Root
<1>6. change' = Accepted(c) => Stands(c)'
  <2>1. change[c] \in Changes \cup {Pruned}
    BY <1>2 DEF Types, CallTypes
  <2>2. Stands(c) \/ change[c].status = "pending"
    BY <1>1, <2>1 DEF Decided, Crosses, Stands, Changes, Pruned
  <2>. QED
    BY <1>1, <2>2, AcceptedTurns DEF Turns, Stands
<1>7. \/ UNCHANGED body
      \/ \E out \in SUBSET Pieces :
            /\ body' = [body EXCEPT ![NoteOf(c)] = out] /\ Stands(c)'
            /\ \A x \in out \cap Calls : ~Unplaced(x) /\ Root(x) = c
  BY <1>1, <1>3, <1>5, <1>6
<1>8. Moves(c, "done", answer, call[c].claim, call[c].out)
  BY <1>3
<1>. QED
  BY <1>1, <1>2, <1>4, <1>7, <1>8, DecidedSettle

\* A call that gets a card carries its own text, and writes nothing yet.
LEMMA DecidedCards ==
    ASSUME Types, Types', WellFormed, Grows, Decided, NEW c \in Calls,
           NEW kind \in {"add", "whole", "range"}, NEW claim \in {c, NoCall},
           NEW stage \in {"done", "writing"}, NEW answer \in Answers,
           NEW by \in {"none", "applier", "handler"},
           GetsCardAs(c, kind, claim, stage, answer, by)
    PROVE  Decided'
<1>1. /\ c \in Arrived /\ call[c].stage = "waiting" /\ UNCHANGED <<loaded, auto, crossed>>
      /\ Moves(c, stage, answer, claim, call[c].out)
      /\ change'[c] \in Changes /\ change'[c].after = Content(c)
      /\ \A d \in Calls : d # c => change'[d] = change[d]
      /\ NoteOf(c) \in Notes
  BY FieldTypes DEF GetsCardAs
<1>2. change[c] = NoChange /\ call[c].out = {} /\ call[c].answer = "none"
  BY <1>1 DEF WellFormed, Stages, Decided, Fresh
<1>3. change'[c] # NoChange /\ change'[c].status \in {"pending", "accepted"}
  BY DEF GetsCardAs, NoChange
<1>4. ~Unplaced(c)' /\ Root(c)' = c
  <2>1. answer # "refused" \/ call[c].kind = "Write"
    BY DEF GetsCardAs
  <2>. QED
    BY <1>1, <1>3, <2>1 DEF Moves, Unplaced, Root
<1>5. Lasting
  BY <1>1, <1>2, <1>4, LastingKept DEF Decided, Moves, NoChange
<1>6. Texts'
  <2>1. \A d \in Stored' : \A x \in change'[d].after \cap Calls :
           \/ d \in Stored /\ x \in change[d].after
           \/ ~Unplaced(x)' /\ Root(x)' = d
    BY <1>1, <1>4, NamesAssumption DEF Stored, Content
  <2>2. \A d \in Arrived' :
          \/ /\ d \in Arrived /\ call'[d].out = call[d].out
             /\ call'[d].claim = call[d].claim
          \/ call'[d].out = {}
    BY <1>1, <1>2 DEF Moves, Arrived
  <2>3. \A n \in Notes : \A x \in body'[n] : x \in body[n]
    BY <1>1 DEF GetsCardAs, Types, NoteTypes
  <2>. QED
    BY <1>1, <1>5, <2>1, <2>2, <2>3, TextsKept DEF Decided
<1>7. \A d \in Arrived : d # c => Fresh(d)' /\ AutoLoaded(d)' /\ MergeStands(d)' /\ Crosses(d)'
  <2>1. \A d \in Arrived : d \in Calls /\ (d # c => call'[d] = call[d])
    BY <1>1 DEF Moves, Arrived
  <2>2. \A d \in Calls : change[d].status = "pending" => d # c
    BY <1>2 DEF NoChange
  <2>. QED
    BY <1>1, <1>5, <2>1, <2>2, PointsKept
<1>8. Fresh(c)' /\ AutoLoaded(c)' /\ MergeStands(c)' /\ Crosses(c)'
  <2>1. stage = "writing" => answer = "none"
    BY <1>2 DEF GetsCardAs
  <2>2. change'[c].status = "pending" /\ stage = "done" => call[c].chat \notin auto
    BY DEF GetsCardAs
  <2>. QED
    BY <1>1, <1>3, <2>1, <2>2 DEF Moves, Fresh, AutoLoaded, MergeStands, Crosses
<1>9. \A d \in Arrived' : d \in Arrived
  BY <1>1 DEF Moves, Arrived
<1>. QED
  BY <1>5, <1>6, <1>7, <1>8, <1>9 DEF Decided, Lasting, Carded

\* A decision on one change keeps the text of calls where it belongs.
LEMMA DecidedChange ==
    ASSUME Types, Types', WellFormed, Grows, Decided, NEW c \in Calls, c \in Stored,
           UNCHANGED <<loaded, auto, call>>, crossed \subseteq crossed',
           \A d \in Calls : d # c => change'[d] = change[d],
           change'[c] # NoChange, c \in Stored' => change'[c].after = change[c].after,
           change[c].status = "accepted" => change'[c].status \in {"accepted", "pruned"},
           change'[c].status = "pending" => change[c].status = "pending",
           change'[c].status = "rejected" =>
               change[c].status = "rejected" \/ call[c].stage = "done" \/ c \in crossed',
           \A e \in Arrived : call[e].stage = "merging" /\ call[e].claim = c
                              /\ change[c].status = "pending" /\ NoteOf(e) \in loaded
                                  => change'[c].status \in {"pending", "accepted"},
           \A n \in Notes : \A x \in body'[n] \cap Calls :
               x \in body[n] \/ ((x = c \/ x \in change[c].after) /\ Stands(c)')
    PROVE  Decided'
<1>1. change[c] # NoChange /\ change[c].status # "pruned"
  BY DEF Stored, NoChange
<1>2. \A x \in Calls : change'[x] = NoChange <=> change[x] = NoChange
  BY <1>1
<1>3. Lasting
  BY <1>1, <1>2, LastingKept DEF Decided
<1>4. Texts'
  <2>1. \A d \in Stored' : d \in Stored /\ change'[d].after = change[d].after
    BY DEF Stored
  <2>2. \A d \in Arrived' : d \in Arrived /\ call'[d].out = call[d].out
            /\ call'[d].claim = call[d].claim
    BY DEF Arrived
  <2>3. \A x \in Calls : x = c \/ x \in change[c].after => ~Unplaced(x) /\ Root(x) = c
    BY <1>1 DEF Decided, Carded, Texts, Root
  <2>4. \A n \in Notes : \A x \in body'[n] \cap Calls :
           \/ x \in body[n]
           \/ ~Unplaced(x)' /\ Root(x)' \in Calls
                  /\ (\E e \in Calls : e = Root(x)' /\ Stands(e)')
    BY <1>3, <2>3 DEF Lasting
  <2>. QED
    BY <1>3, <2>1, <2>2, <2>4, TextsKept DEF Decided
<1>5. \A e \in Arrived : Fresh(e)' /\ AutoLoaded(e)' /\ MergeStands(e)' /\ Crosses(e)'
  <2>1. \A e \in Arrived : e \in Calls
    BY DEF Arrived
  <2>. QED
    BY <1>3, <2>1, PointsKept
<1>. QED
  BY <1>3, <1>4, <1>5 DEF Decided, Lasting, Carded, Arrived

\* Keep, Reject, the applier and the pruning keep the text of calls where it belongs.
LEMMA DecidedChangeStep ==
    ASSUME Types, Types', WellFormed, Grows, Decided, NEW c \in Calls, ChangeStep(c)
    PROVE  Decided'
<1>1. c \in Stored /\ c \in Arrived /\ change[c] \in Changes
  BY WellGrounded, InHandlers DEF ChangeStep, Keep, Reject, ApplyAccepted, PruneDecided, Stored,
     Grounded
<1>2. ASSUME Yielded, NEW e \in Arrived, call[e].stage = "merging", NoteOf(e) \in loaded
      PROVE  FALSE
  BY <1>2, FieldTypes DEF WellFormed, Stages, Has, In, Yielded
<1>3. CASE Keep(c)
  <2>1. /\ Turns(c, "accepted", change[c].failed) /\ crossed \subseteq crossed'
        /\ UNCHANGED <<body, loaded, auto, call>>
    BY <1>3, KeepDoes DEF noteVars, chatVars
  <2>2. change'[c] # NoChange
    BY <2>1 DEF Turns, Changes, NoChange
  <2>. QED
    BY <1>1, <2>1, <2>2, DecidedChange DEF Turns
<1>4. CASE Reject(c)
  <2>1. /\ Turns(c, "rejected", change[c].failed) /\ crossed \subseteq crossed' /\ Yielded
        /\ UNCHANGED <<body, loaded, auto, call>>
        /\ change[c].status = "pending" /\ (call[c].stage = "done" \/ c \in crossed')
    BY <1>4, RejectDoes DEF noteVars, chatVars
  <2>2. change'[c] # NoChange
    BY <2>1 DEF Turns, Changes, NoChange
  <2>3. \A e \in Arrived : ~(call[e].stage = "merging" /\ NoteOf(e) \in loaded)
    BY <1>2, <2>1
  <2>4. change'[c].after = change[c].after /\ \A d \in Calls : d # c => change'[d] = change[d]
    BY <2>1 DEF Turns
  <2>. QED
    BY <1>1, <2>1, <2>2, <2>3, <2>4, DecidedChange
<1>5. CASE ApplyAccepted(c)
  <2>1. /\ UNCHANGED <<loaded, auto, call, crossed>> /\ Turn("applier", c)
            /\ NoteOf(c) \in Notes
        /\ \/ body' = [body EXCEPT ![NoteOf(c)] = Applied(c)] /\ UNCHANGED change
           \/ Turns(c, change[c].status, TRUE) /\ UNCHANGED body
    BY <1>1, <1>5, ApplyDoes, FieldTypes DEF chatVars
  <2>2. Stands(c)
    BY <1>1, <2>1, TurnDoes DEF WellFormed, QueueOK, Roles, Stands
  <2>3. Stands(c)'
    BY <2>1, <2>2 DEF Stands, Turns
  <2>4. change'[c] # NoChange /\ change'[c].status = change[c].status
        /\ change'[c].after = change[c].after
        /\ \A d \in Calls : d # c => change'[d] = change[d]
    BY <1>1, <2>1 DEF Turns, Changes, NoChange
  <2>5. Applied(c) \cap Calls \subseteq body[NoteOf(c)] \cup {c} \cup change[c].after
    BY <1>1, NamesAssumption DEF Applied, Replaced, Content, Changes
  <2>6. \A n \in Notes : \A x \in body'[n] \cap Calls :
           x \in body[n] \/ ((x = c \/ x \in change[c].after) /\ Stands(c)')
    BY <2>1, <2>3, <2>5 DEF Types, NoteTypes
  <2>. QED
    BY <1>1, <2>1, <2>4, <2>6, DecidedChange
<1>6. CASE PruneDecided(c)
  <2>1. /\ change'[c] = Pruned /\ UNCHANGED <<body, loaded, auto, call, crossed>>
        /\ change[c].status \in {"accepted", "rejected"}
        /\ \A d \in Calls : d # c => change'[d] = change[d]
    BY <1>6, PruneDoes DEF noteVars, chatVars, histVars
  <2>. QED
    BY <1>1, <2>1, DecidedChange DEF Pruned, NoChange, Stored
<1>. QED
  BY <1>3, <1>4, <1>5, <1>6 DEF ChangeStep

\* Every step keeps the text of calls where it belongs.
LEMMA DecidedNext ==
    ASSUME Types, WellFormed, Decided, [Next]_vars
    PROVE  Decided'
<1>1. Types' /\ Grows
  BY WellNext
<1>2. CASE QuietStep \/ UNCHANGED vars
  BY <1>2, DecidedQuiet
<1>3. CASE \E t \in Chats, c \in Calls, n \in Notes, p \in Proposed : Propose(t, c, n, p)
  BY <1>1, <1>3, DecidedPropose
<1>4. CASE \E t \in Chats, open, mentioned \in SUBSET Notes : Prompt(t, open, mentioned)
  BY <1>1, <1>4, DecidedPrompt
<1>5. ASSUME NEW c \in Calls, Refuse(c) \/ MergeStaged(c) \/ FinishMerge(c) \/ GuardedWrite(c)
                              \/ ChangeStep(c)
      PROVE  Decided'
  BY <1>1, <1>5, DecidedRefuse, DecidedMergeStaged, DecidedFinishMerge, DecidedGuardedWrite,
     DecidedChangeStep
<1>6. ASSUME NEW c \in Calls, NEW kind \in {"add", "whole", "range"}, NEW claim \in {c, NoCall},
             GetsCard(c, kind, claim)
      PROVE  Decided'
  BY <1>1, <1>6, CardsAre, DecidedCards
<1>. QED
  BY <1>2, <1>3, <1>4, <1>5, <1>6, NextCases

\* Text in a note is of a change that stands, so none is of one that was rejected in time.
LEMMA RejectedHolds == ASSUME Types, WellFormed, Decided PROVE RejectedStaysOut
<1>. SUFFICES ASSUME NEW c \in Stored \ crossed, change[c].status = "rejected",
                     NEW x \in change[c].after \cap Calls, x \in body[NoteOf(c)]
              PROVE  FALSE
  BY DEF RejectedStaysOut, Text
<1>1. c \in Calls /\ NoteOf(c) \in Notes
  BY WellGrounded, FieldTypes DEF Grounded
<1>2. Root(x) = c
  BY DEF Decided, Texts
<1>3. Stands(Root(x))
  BY <1>1 DEF Decided, Texts
<1>. QED
  BY <1>2, <1>3 DEF Stands

\* DecisionsStand is what the turns and the texts come to.
LEMMA DecisionsHold ==
    ASSUME Types, WellFormed, AcceptedHasTurn, Decided
    PROVE  DecisionsStand
<1>1. AcceptedLands
  <2>. SUFFICES ASSUME NEW c \in Stored, Has("applier", c) PROVE Asked(c)
    BY DEF AcceptedLands, AcceptedHasTurn
  <2>1. c \in Arrived /\ NoteOf(c) \in Notes
    BY WellGrounded, FieldTypes DEF Grounded
  <2>. QED
    BY <2>1, NotAsked DEF Has, Roles
<1>2. RefusedStaysOut
  BY FieldTypes DEF RefusedStaysOut, Decided, Texts, Unplaced, Arrived
<1>. QED
  BY <1>1, <1>2, RejectedHolds DEF DecisionsStand

\* What was decided about a proposal is what becomes of it: what was rejected stays out of
\* the notes, what was accepted is written, about to be or marked as failed, and an edit
\* that was refused is in no note, for any number of chats, notes and calls.
THEOREM DecisionsAlwaysStand == Spec => []DecisionsStand
<1>. DEFINE I == Types /\ WellFormed /\ AcceptedHasTurn /\ Decided
<1>1. Init => I
  <2>1. Init => AcceptedHasTurn
    BY DEF Init, AcceptedHasTurn, Stored, NoChange
  <2>. QED
    BY <2>1, TypesInit, WellInit, DecidedInit
<1>2. I /\ [Next]_vars => I'
  BY WellNext, AcceptedNext, DecidedNext
<1>3. I => DecisionsStand
  BY DecisionsHold
<1>. QED
  BY <1>1, <1>2, <1>3, PTL DEF Spec

-----------------------------------------------------------------------------
(* What the outcome note says *)

\* The text of the call c is in no note.
Clear(c) == \A n \in Notes : c \notin body[n]

\* A change that failed is not in its note, and neither is one that the applier has yet to
\* write; a note that a call created has no conflict to fail on.
FailTrue(c) ==
    c \in Stored \ crossed =>
        /\ change[c].failed =>
              /\ change[c].status = "accepted" /\ change[c].kind # "add"
              /\ call[c].stage = "done" /\ ~Has("applier", c) /\ Clear(c)
        /\ Has("applier", c) => call[c].stage = "done" /\ (change[c].kind # "add" => Clear(c))
        /\ change[c].kind = "add" => NoteOf(c) \notin conflict

\* The invariant behind the outcome note.
Failures == \A c \in Calls : FailTrue(c)

\* A write of the applier's is asked for by Keep and by the acceptEdits mode only.
LEMMA NoNewTurns ==
    ASSUME Types, WellFormed, Grows, NEW c \in Arrived,
           \/ UNCHANGED queue
           \/ \E e \in Arrived, by \in Roles : Turn(by, e)
           \/ \E e \in Arrived, by \in Roles :
                 Ask(by, e) /\ ~In(by, e, NoteOf(e)) /\ (by = "handler" \/ e # c)
    PROVE  Has("applier", c)' => Has("applier", c)
<1>1. NoteOf(c)' = NoteOf(c) /\ NoteOf(c) \in Notes /\ c \in Calls
  BY FieldTypes DEF Grows, NoteOf
<1>2. CASE UNCHANGED queue
  BY <1>1, <1>2, SameQueue DEF Has
<1>3. CASE \E e \in Arrived, by \in Roles : Turn(by, e)
  BY <1>1, <1>3, TurnDoes DEF Has, WellFormed, QueueOK, Roles
<1>4. CASE \E e \in Arrived, by \in Roles :
              Ask(by, e) /\ ~In(by, e, NoteOf(e)) /\ (by = "handler" \/ e # c)
  BY <1>1, <1>4, AskDoes DEF Has, WellFormed, QueueOK, Roles
<1>. QED
  BY <1>2, <1>3, <1>4

\* What a failure means stays, if its text is not written after it.
LEMMA FailTrueKept ==
    ASSUME Types, WellFormed, Grows, Failures, NEW c \in Calls, c \in Stored, c \in Stored',
           crossed \subseteq crossed', change'[c].failed = change[c].failed,
           change[c].status = "accepted" => change'[c].status = "accepted",
           Has("applier", c)' => Has("applier", c),
           \/ ~change[c].failed /\ ~Has("applier", c)'
           \/ \A n \in Notes : /\ call[c].stage = "done" /\ change[c].kind # "add"
                              /\ c \in body'[n] /\ c \notin crossed
                                  => c \in body[n],
           NoteOf(c) \in conflict' /\ change[c].kind = "add" => NoteOf(c) \in conflict
    PROVE  FailTrue(c)'
<1>1. c \in Arrived /\ FailTrue(c)
  BY WellGrounded DEF Grounded, Failures
<1>2. change'[c].kind = change[c].kind /\ call'[c].note = call[c].note
      /\ (call[c].stage = "done" => call'[c].stage = "done")
  BY <1>1 DEF Grows, Stored, NoChange
<1>. QED
  BY <1>1, <1>2 DEF FailTrue, Clear, NoteOf

\* A change that does not create its note carries its own text only.
LEMMA OwnText ==
    ASSUME Types, WellFormed, Decided, NEW d \in Stored, change[d].kind # "add"
    PROVE  Text(d) \subseteq {d}
<1>. SUFFICES ASSUME NEW x \in change[d].after \cap Calls, x # d PROVE FALSE
  BY DEF Text
<1>1. ~Unplaced(x) /\ Root(x) = d
  BY DEF Decided, Texts
<1>2. x \in Arrived /\ call[x].claim = d /\ d # NoCall
  BY <1>1, NamesAssumption DEF Unplaced, Root, Arrived, Stored
<1>. QED
  BY <1>2 DEF WellFormed, Relates

\* Every step keeps the meaning of the failures.
LEMMA FailuresNext ==
    ASSUME Types, WellFormed, Decided, Failures, ~NewConflicts, [Next]_vars
    PROVE  Failures'
<1>1. Types' /\ WellFormed' /\ Grows
  BY WellNext
<1>2. \A c \in Stored : c \in Arrived /\ NoteOf(c) \in Notes /\ change[c] # NoChange
  BY WellGrounded, FieldTypes DEF Grounded, Stored, NoChange
<1>3. \A c \in Calls : c \notin Stored' => FailTrue(c)'
  BY DEF FailTrue
<1>4. CASE QuietStep \/ UNCHANGED vars
  <2>1. /\ \A n \in Notes : body'[n] \cap Calls = body[n] \cap Calls
        /\ \A n \in conflict' \ conflict : ~CreatedHere(n)
        /\ UNCHANGED <<call, change, queue, crossed>>
    BY <1>4, QuietDoes DEF histVars
  <2>2. ASSUME NEW c \in Calls, c \in Stored' PROVE FailTrue(c)'
    <3>1. c \in Stored
      BY <2>1, <2>2 DEF Stored
    <3>2. change[c].kind = "add" => CreatedHere(NoteOf(c))
      BY <1>2, <3>1, NamesAssumption DEF WellFormed, Stages, CreatedHere
    <3>3. Has("applier", c)' => Has("applier", c)
      BY <1>1, <1>2, <2>1, <3>1, NoNewTurns
    <3>. QED
      BY <1>1, <2>1, <2>2, <3>1, <3>2, <3>3, FailTrueKept
  <2>. QED
    BY <1>3, <2>2 DEF Failures
<1>5. ASSUME UNCHANGED <<body, conflict, queue, crossed>>,
             \A c \in Stored' : /\ c \in Stored /\ change'[c].failed = change[c].failed
                                /\ change'[c].status = change[c].status
      PROVE  Failures'
  <2>1. ASSUME NEW c \in Calls, c \in Stored' PROVE FailTrue(c)'
    <3>1. Has("applier", c)' => Has("applier", c)
      BY <1>1, <1>2, <1>5, <2>1, NoNewTurns
    <3>. QED
      BY <1>1, <1>5, <2>1, <3>1, FailTrueKept
  <2>. QED
    BY <1>3, <2>1 DEF Failures
<1>6. ASSUME NEW t \in Chats, NEW c \in Calls, NEW n \in Notes, NEW p \in Proposed,
             Propose(t, c, n, p)
      PROVE  Failures'
  BY <1>5, <1>6, ProposeDoes DEF noteVars, histVars, Stored
<1>7. ASSUME NEW t \in Chats, NEW open \in SUBSET Notes, NEW mentioned \in SUBSET Notes,
             Prompt(t, open, mentioned)
      PROVE  Failures'
  <2>1. SameEntries /\ UNCHANGED <<body, conflict, queue, crossed>>
    BY <1>7, PromptDoes DEF noteVars, histVars
  <2>2. \A c \in Stored' : /\ c \in Stored /\ change'[c].failed = change[c].failed
                           /\ change'[c].status = change[c].status
    BY <2>1, InHandlers DEF SameEntries, Stored
  <2>. QED
    BY <1>5, <2>1, <2>2
<1>8. ASSUME NEW c \in Calls, Refuse(c) PROVE Failures'
  BY <1>5, <1>8 DEF Refuse, noteVars, histVars, Stored
<1>9. ASSUME NEW c \in Calls, MergeStaged(c) PROVE Failures'
  <2>. PICK e \in Calls : e = Claimed(c)
    BY <1>9, MergeStagedDoes
  <2>1. /\ c \in Arrived /\ call[c].stage = "waiting" /\ e \in Stored
        /\ UNCHANGED <<body, conflict, crossed>>
        /\ \A d \in Calls : d # e => change'[d] = change[d]
        /\ UNCHANGED queue \/ Ask("handler", c)
    BY <1>9, MergeStagedDoes DEF Stored, noteVars, histVars
  <2>2. change'[e].status = change[e].status /\ change'[e].failed = change[e].failed
    <3>1. change[e] \in Changes
      BY <2>1, InHandlers
    <3>2. change'[e] = [change[e] EXCEPT !.after = Replaced(change[e].after, c)]
              \/ change'[e] = change[e]
      BY <1>9, MergeStagedDoes
    <3>. QED
      BY <3>1, <3>2 DEF Changes
  <2>3. ~In("handler", c, NoteOf(c))
    BY <2>1, HandlerAsked, FieldTypes
  <2>4. ASSUME NEW d \in Calls, d \in Stored' PROVE FailTrue(d)'
    <3>1. d \in Stored /\ change'[d].status = change[d].status
              /\ change'[d].failed = change[d].failed
      BY <2>1, <2>2, <2>4 DEF Stored
    <3>2. Has("applier", d)' => Has("applier", d)
      BY <1>1, <1>2, <2>1, <2>3, <3>1, NoNewTurns DEF Roles
    <3>. QED
      BY <1>1, <2>1, <2>4, <3>1, <3>2, FailTrueKept
  <2>. QED
    BY <1>3, <2>4 DEF Failures
<1>10. ASSUME NEW c \in Arrived, Turn("handler", c), NEW d \in Calls, Accepts(d),
              UNCHANGED <<conflict, crossed>>,
              \A x \in Stored, n \in Notes : call[x].stage = "done" /\ change[x].kind # "add"
                  /\ x \notin crossed /\ x \in body'[n] => x \in body[n]
       PROVE  Failures'
  <2>1. ASSUME NEW x \in Calls, x \in Stored' PROVE FailTrue(x)'
    <3>1. x \in Stored /\ change'[x].failed = change[x].failed
          /\ (change[x].status = "accepted" => change'[x].status = "accepted")
      BY <1>10, <2>1 DEF Accepts
    <3>2. Has("applier", x)' => Has("applier", x)
      BY <1>1, <1>2, <1>10, <3>1, NoNewTurns DEF Roles
    <3>. QED
      BY <1>1, <1>10, <2>1, <3>1, <3>2, FailTrueKept
  <2>. QED
    BY <1>3, <2>1 DEF Failures
<1>11. ASSUME NEW c \in Calls, FinishMerge(c) PROVE Failures'
  <2>1. /\ c \in Arrived /\ Turn("handler", c) /\ call[c].claim \in Calls
        /\ UNCHANGED <<conflict, crossed>> /\ NoteOf(c) \in Notes
    BY <1>11, WellGrounded, FinishMergeDoes, FieldTypes DEF Grounded
  <2>. PICK d \in Calls : d = call[c].claim
    BY <2>1
  <2>2. \/ UNCHANGED <<body, change>>
        \/ change' = Accepted(d) /\ body' = [body EXCEPT ![NoteOf(c)] = call[c].out]
    BY <1>11, FinishMergeDoes
  <2>3. Accepts(d)
    BY <2>2, AcceptsIs
  <2>4. \A x \in Stored, n \in Notes : change[x].kind # "add" /\ x \in body'[n] => x \in body[n]
    <3>1. \A x \in Stored : x \in call[c].out => x = d
      BY <1>2, <2>1 DEF Decided, Texts, Root, Stored
    <3>2. d \in Stored => change[d].kind = "add"
      BY <2>1, NamesAssumption DEF WellFormed, Relates
    <3>. QED
      BY <2>1, <2>2, <3>1, <3>2 DEF Types, NoteTypes
  <2>. QED
    BY <1>10, <2>1, <2>3, <2>4
<1>12. ASSUME NEW c \in Calls, GuardedWrite(c) PROVE Failures'
  <2>1. /\ c \in Arrived /\ Turn("handler", c) /\ call[c].stage = "writing"
        /\ UNCHANGED <<conflict, crossed>> /\ NoteOf(c) \in Notes
    BY <1>12, GuardedWriteDoes, FieldTypes
  <2>2. \/ UNCHANGED <<body, change>>
        \/ change' = Accepted(c) /\ body' = [body EXCEPT ![NoteOf(c)] = Content(c)]
    BY <1>12, GuardedWriteDoes
  <2>3. Accepts(c)
    BY <2>2, AcceptsIs
  <2>4. \A x \in Stored, n \in Notes : call[x].stage = "done" /\ x \in body'[n] => x \in body[n]
    <3>1. \A x \in Stored : x \in Content(c) => x = c
      BY NamesAssumption DEF Content, Stored
    <3>. QED
      BY <2>1, <2>2, <3>1 DEF Types, NoteTypes
  <2>. QED
    BY <1>10, <2>1, <2>3, <2>4
<1>13. ASSUME NEW c \in Calls, NEW kind \in {"add", "whole", "range"},
              NEW claim \in {c, NoCall},
              NEW stage \in {"done", "writing"}, NEW answer \in Answers,
              NEW by \in {"none", "applier", "handler"},
              GetsCardAs(c, kind, claim, stage, answer, by)
       PROVE  Failures'
  <2>1. /\ c \in Arrived /\ call[c].stage = "waiting" /\ UNCHANGED <<loaded, conflict, crossed>>
        /\ change'[c].kind = kind /\ ~change'[c].failed
        /\ \A d \in Calls : d # c => change'[d] = change[d]
        /\ by = "none" => UNCHANGED queue
        /\ by # "none" => Ask(by, c)
        /\ NoteOf(c) \in Notes
    BY <1>13, FieldTypes DEF GetsCardAs
  <2>2. /\ \A r \in Roles : ~In(r, c, NoteOf(c))
        /\ change[c] = NoChange
    BY <2>1, HandlerAsked, FieldTypes DEF Roles
  <2>3. \A n \in Notes : \A x \in body'[n] : x \in body[n]
    BY <1>13, <2>1 DEF GetsCardAs, Types, NoteTypes
  <2>4. ASSUME NEW d \in Calls, d \in Stored', d # c PROVE FailTrue(d)'
    <3>1. d \in Stored /\ change'[d] = change[d]
      BY <2>1, <2>4 DEF Stored
    <3>2. Has("applier", d)' => Has("applier", d)
      BY <1>1, <1>2, <2>1, <2>2, <2>4, <3>1, NoNewTurns DEF Roles
    <3>. QED
      BY <1>1, <2>1, <2>3, <2>4, <3>1, <3>2, FailTrueKept
  <2>5. FailTrue(c)'
    <3>1. NoteOf(c)' = NoteOf(c)
      BY <1>1, <2>1 DEF Grows, NoteOf
    <3>2. Has("applier", c)' => by = "applier"
      <4>1. Has("applier", c)' => In("applier", c, NoteOf(c))'
        BY DEF Has
      <4>. QED
        BY <2>1, <2>2, <3>1, SameQueue, AskDoes, FieldTypes DEF Has, Roles, WellFormed, QueueOK
    <3>3. by = "applier" => call'[c].stage = "done"
      BY <1>13 DEF GetsCardAs, Moves
    <3>4. \A n \in Notes : c \notin body'[n]
      BY <2>1, <2>3 DEF Decided, Texts, Unplaced
    <3>5. kind = "add" => NoteOf(c) \notin conflict
      BY <1>13, NamesAssumption, FieldTypes DEF GetsCardAs, Types, NoteTypes, Arrived
    <3>. QED
      BY <2>1, <3>1, <3>2, <3>3, <3>4, <3>5 DEF FailTrue, Clear
  <2>. QED
    BY <1>3, <2>4, <2>5 DEF Failures
<1>14. ASSUME NEW c \in Stored, c \in Calls, NEW status, Turns(c, status, change[c].failed),
              change[c].status = "pending", UNCHANGED <<body, conflict, call>>,
              crossed \subseteq crossed', call[c].stage = "done" \/ c \in crossed',
              UNCHANGED queue \/ Ask("applier", c)
       PROVE  Failures'
  <2>1. c \in Arrived /\ NoteOf(c) \in Notes /\ change[c] \in Changes
        /\ ~In("applier", c, NoteOf(c))
    BY <1>2, <1>14, InHandlers DEF WellFormed, QueueOK, Roles
  <2>2. ASSUME NEW d \in Calls, d \in Stored', d # c PROVE FailTrue(d)'
    <3>1. d \in Stored /\ change'[d] = change[d]
      BY <1>14, <2>2 DEF Turns, Stored
    <3>2. Has("applier", d)' => Has("applier", d)
      BY <1>1, <1>2, <1>14, <2>1, <2>2, <3>1, NoNewTurns DEF Roles
    <3>. QED
      BY <1>1, <1>14, <2>2, <3>1, <3>2, FailTrueKept
  <2>3. FailTrue(c)'
    <3>. SUFFICES ASSUME c \notin crossed' PROVE FailTrue(c)'
      BY DEF FailTrue
    <3>1. FailTrue(c) /\ c \notin crossed
      BY <1>14 DEF Failures
    <3>2. ~change'[c].failed /\ change'[c].kind = change[c].kind
      BY <1>14, <2>1, <3>1 DEF FailTrue, Turns, Changes
    <3>3. Clear(c)'
      BY <1>2, <1>14, <3>1 DEF Clear, Decided, Texts, Root, Stands
    <3>. QED
      BY <1>14, <3>1, <3>2, <3>3 DEF FailTrue, NoteOf
  <2>. QED
    BY <1>3, <2>2, <2>3 DEF Failures
<1>15. ASSUME NEW c \in Calls, Keep(c) \/ Reject(c) PROVE Failures'
  <2>1. \E status : Turns(c, status, change[c].failed)
    BY <1>15, KeepDoes, RejectDoes
  <2>2. c \in Stored /\ change[c].status = "pending" /\ UNCHANGED <<body, conflict, call>>
        /\ crossed \subseteq crossed' /\ (call[c].stage = "done" \/ c \in crossed')
        /\ (UNCHANGED queue \/ Ask("applier", c))
    BY <1>15, KeepDoes, RejectDoes DEF Stored, noteVars
  <2>. QED
    BY <1>14, <2>1, <2>2
<1>16. ASSUME NEW c \in Calls, ApplyAccepted(c) PROVE Failures'
  <2>1. c \in Arrived /\ NoteOf(c) \in Notes /\ c \in Stored /\ change[c] \in Changes
    BY <1>2, <1>16, InHandlers DEF ApplyAccepted
  <2>2. /\ Turn("applier", c) /\ UNCHANGED <<conflict, call, crossed>>
        /\ \/ body' = [body EXCEPT ![NoteOf(c)] = Applied(c)] /\ UNCHANGED change
           \/ ~Applicable(c) /\ Turns(c, change[c].status, TRUE) /\ UNCHANGED body
    BY <1>16, <2>1, ApplyDoes
  <2>3. Has("applier", c) /\ ~Has("applier", c)' /\ change[c].status = "accepted"
    <3>1. In("applier", c, NoteOf(c)) /\ ~In("applier", c, NoteOf(c))'
      BY <2>1, <2>2, TurnDoes, FieldTypes DEF WellFormed, QueueOK, Roles, NoteOf
    <3>. QED
      BY <2>1, <3>1 DEF Has, WellFormed, QueueOK, Roles
  <2>4. c \notin crossed => /\ ~change[c].failed /\ call[c].stage = "done"
                            /\ (change[c].kind # "add" => Clear(c))
                            /\ (change[c].kind = "add" => NoteOf(c) \notin conflict)
    BY <2>1, <2>3 DEF Failures, FailTrue
  <2>5. ASSUME NEW d \in Calls, d \in Stored', d # c PROVE FailTrue(d)'
    <3>1. d \in Stored /\ change'[d] = change[d]
      BY <2>2, <2>5 DEF Turns, Stored
    <3>2. Has("applier", d)' => Has("applier", d)
      BY <1>1, <1>2, <2>1, <2>2, <3>1, NoNewTurns DEF Roles
    <3>3. d \notin change[c].after
      BY <1>2, <2>1, <2>5, <3>1 DEF Decided, Texts, Root
    <3>4. d \in Applied(c) => d \in body[NoteOf(c)]
      BY <2>1, <2>5, <3>3, NamesAssumption DEF Applied, Replaced, Content, Changes
    <3>5. \A n \in Notes : d \in body'[n] => d \in body[n]
      BY <2>1, <2>2, <3>4 DEF Types, NoteTypes
    <3>. QED
      BY <1>1, <2>2, <2>5, <3>1, <3>2, <3>5, FailTrueKept
  <2>6. FailTrue(c)'
    <3>. SUFFICES ASSUME c \notin crossed PROVE FailTrue(c)'
      BY <2>2 DEF FailTrue
    <3>1. CASE UNCHANGED change
      BY <2>2, <2>3, <2>4, <3>1 DEF FailTrue, NoteOf
    <3>2. CASE ~Applicable(c) /\ Turns(c, change[c].status, TRUE) /\ UNCHANGED body
      BY <2>2, <2>3, <2>4, <3>2 DEF Applicable, Turns, FailTrue, Clear, NoteOf
    <3>. QED
      BY <2>2, <3>1, <3>2
  <2>. QED
    BY <1>3, <2>5, <2>6 DEF Failures
<1>17. ASSUME NEW c \in Calls, PruneDecided(c) PROVE Failures'
  BY <1>5, <1>17, PruneDoes DEF noteVars, histVars, Stored, Pruned
<1>18. ASSUME NEW c \in Calls, NEW kind \in {"add", "whole", "range"},
              NEW claim \in {c, NoCall},
              GetsCard(c, kind, claim)
       PROVE  Failures'
  BY <1>13, <1>18, CardsAre
<1>. QED
  BY <1>4, <1>6, <1>7, <1>8, <1>9, <1>11, <1>12, <1>15, <1>16, <1>17, <1>18, NextCases
     DEF ChangeStep

\* Only a prompt marks outcomes as delivered, those that it reports.
LEMMA OnlyPromptsDeliver ==
    ASSUME Types, WellFormed, [Next]_vars, NEW c \in Stored, c \in Stored',
           change'[c].delivered, ~change[c].delivered
    PROVE  \E t \in Chats : c \in Reported(t)
<1>1. c \in Calls /\ c \in Arrived /\ change[c] \in Changes
  BY WellGrounded, FieldTypes, InHandlers DEF Grounded
<1>. SUFFICES ASSUME ~\E t \in Chats, open \in SUBSET Notes, mentioned \in SUBSET Notes :
                         /\ Prompt(t, open, mentioned) /\ c \in Reported(t)
             PROVE  FALSE
  OBVIOUS
<1>2. ASSUME UNCHANGED change PROVE FALSE
  BY <1>2
<1>3. CASE QuietStep \/ UNCHANGED vars
  BY <1>2, <1>3, QuietDoes
<1>4. CASE \E t \in Chats, d \in Calls, n \in Notes, p \in Proposed : Propose(t, d, n, p)
  BY <1>2, <1>4, ProposeDoes
<1>5. CASE \E t \in Chats, open, mentioned \in SUBSET Notes : Prompt(t, open, mentioned)
  BY <1>1, <1>5 DEF Prompt
<1>6. ASSUME NEW d \in Calls, change' = Accepted(d) PROVE FALSE
  BY <1>1, <1>6, AcceptedTurns DEF Turns
<1>7. ASSUME NEW d \in Calls, MergeStaged(d) PROVE FALSE
  <2>. PICK e \in Calls : e = Claimed(d)
    BY <1>7, MergeStagedDoes
  <2>1. \/ change'[c] = change[c]
        \/ change'[c] = [change[c] EXCEPT !.after = Replaced(change[e].after, d)]
    BY <1>1, <1>7, MergeStagedDoes
  <2>. QED
    BY <1>1, <2>1 DEF Changes
<1>8. ASSUME NEW d \in Calls, Refuse(d) \/ FinishMerge(d) \/ GuardedWrite(d) PROVE FALSE
  <2>1. CASE Refuse(d)
    BY <1>2, <2>1 DEF Refuse
  <2>2. CASE FinishMerge(d)
    <3>1. call[d].claim \in Calls
      BY <2>2, WellGrounded, FinishMergeDoes DEF Grounded
    <3>. QED
      BY <1>2, <1>6, <2>2, <3>1, FinishMergeDoes
  <2>3. CASE GuardedWrite(d)
    BY <1>2, <1>6, <2>3, GuardedWriteDoes
  <2>. QED
    BY <1>8, <2>1, <2>2, <2>3
<1>9. ASSUME NEW d \in Calls, ChangeStep(d) PROVE FALSE
  <2>1. d \in Arrived
    BY <1>9, WellGrounded DEF ChangeStep, Keep, Reject, ApplyAccepted, PruneDecided, Stored,
       Grounded
  <2>2. CASE PruneDecided(d)
    BY <1>1, <2>2, PruneDoes DEF Stored, Pruned
  <2>3. CASE Keep(d) \/ Reject(d)
    BY <1>1, <2>3, KeepDoes, RejectDoes DEF Turns
  <2>4. CASE ApplyAccepted(d)
    BY <1>1, <2>1, <2>4, ApplyDoes DEF Turns
  <2>. QED
    BY <1>9, <2>2, <2>3, <2>4 DEF ChangeStep
<1>10. ASSUME NEW d \in Calls, NEW kind \in {"add", "whole", "range"},
              NEW claim \in {d, NoCall},
              GetsCard(d, kind, claim)
       PROVE  FALSE
  <2>1. d \in Arrived /\ call[d].stage = "waiting" /\ (c # d => change'[c] = change[c])
    BY <1>1, <1>10, CardsAre DEF GetsCardAs
  <2>. QED
    BY <2>1, HandlerAsked DEF Stored, NoChange
<1>. QED
  BY <1>3, <1>4, <1>5, <1>7, <1>8, <1>9, <1>10, NextCases

\* What a prompt reports is not in the note.
LEMMA FeedbackStep ==
    ASSUME Types, WellFormed, Decided, Failures, [Next]_vars, NEW c \in Stored \ crossed,
           c \in Stored', change'[c].delivered, ~change[c].delivered
    PROVE  Text(c) \cap body[NoteOf(c)] = {}
<1>1. c \in Calls /\ c \in Arrived /\ NoteOf(c) \in Notes /\ change[c] \in Changes
  BY WellGrounded, FieldTypes, InHandlers DEF Grounded
<1>2. \E t \in Chats : c \in Reported(t)
  BY OnlyPromptsDeliver
<1>3. CASE change[c].status = "rejected"
  BY <1>3, RejectedHolds DEF RejectedStaysOut
<1>4. CASE change[c].status = "accepted" /\ change[c].failed
  <2>1. change[c].kind # "add" /\ Clear(c)
    BY <1>1, <1>4 DEF Failures, FailTrue
  <2>. QED
    BY <1>1, <2>1, OwnText DEF Clear
<1>. QED
  BY <1>2, <1>3, <1>4 DEF Reported, DidNotLand

\* What the outcome note says is true when it is said: the changes that it lists are not in
\* their notes.  The hypothesis is needed: where other programs change a note that a call has
\* created, the conflict fails the write of the first text, and a merge that comes after the
\* user's answer to the conflict writes that text all the same.
THEOREM FeedbackIsTruthful == ASSUME ~NewConflicts PROVE Spec => FeedbackTruthful
<1>. DEFINE I == Types /\ WellFormed /\ Decided /\ Failures
<1>1. Init => I
  <2>1. Init => Failures
    BY DEF Init, Failures, FailTrue, Stored, NoChange
  <2>. QED
    BY <2>1, TypesInit, WellInit, DecidedInit
<1>2. I /\ [Next]_vars => I'
  BY WellNext, DecidedNext, FailuresNext
<1>3. I /\ [Next]_vars =>
          [\A c \in Stored \ crossed :
                c \in Stored' /\ change'[c].delivered /\ ~change[c].delivered
               => Text(c) \cap body[NoteOf(c)] = {}]_vars
  BY FeedbackStep
<1>. QED
  BY <1>1, <1>2, <1>3, PTL DEF Spec, FeedbackTruthful

-----------------------------------------------------------------------------
(* What a guarded write may drop *)

\* The user's text of a note that some chat was given, or would have been.
Given(n) == UNION {seen[u][n] \cup unsent[u][n] : u \in Chats}

\* A whole-document write whose verdict is out.
Undone(c) == c \in Arrived /\ call[c].kind = "Write" /\ call[c].stage # "done"

\* A base holds user text that was given to some chat; a Write that is out knows all that its
\* chat was given of its note, and is the only one that is out for it.
Guarded ==
    /\ unsent \in [Chats -> [Notes -> SUBSET UserText]]
    /\ \A n \in Notes : base[n] \cap UserText \subseteq Given(n)
    /\ \A c \in Calls : Undone(c) => seen[call[c].chat][NoteOf(c)] \subseteq call[c].knows
    /\ \A c, d \in Calls : Undone(c) /\ Undone(d) /\ NoteOf(c) = NoteOf(d) => c = d

\* At first there is no base and no Write.
LEMMA GuardedInit == Init => Guarded
<1>. SUFFICES ASSUME Init PROVE Guarded
  OBVIOUS
<1>1. \A c \in Calls : ~Undone(c)
  BY DEF Init, Undone, Arrived, Unused
<1>2. \A n \in Notes : base[n] \cap UserText = {}
  BY NamesAssumption DEF Init, NoBody
<1>3. unsent \in [Chats -> [Notes -> SUBSET UserText]]
  BY DEF Init
<1>. QED
  BY <1>1, <1>2, <1>3 DEF Guarded

\* A step that gives the chats of open Writes nothing new, and bases of given text only.
LEMMA GuardedKept ==
    ASSUME Types, Grows, Guarded, unsent' \in [Chats -> [Notes -> SUBSET UserText]],
           \A n \in Notes : base'[n] \cap UserText \subseteq Given(n)',
           \A c \in Arrived' : c \in Arrived /\ call'[c].knows = call[c].knows,
           \A c \in Calls : Undone(c) /\ Undone(c)' =>
               seen'[call[c].chat][NoteOf(c)] \subseteq seen[call[c].chat][NoteOf(c)]
    PROVE  Guarded'
<1>1. \A c \in Calls : Undone(c)' => /\ Undone(c) /\ NoteOf(c)' = NoteOf(c)
                                     /\ call'[c].chat = call[c].chat
                                            /\ call'[c].knows = call[c].knows
  BY DEF Undone, Grows, NoteOf
<1>. QED
  BY <1>1 DEF Guarded, NoteOf

\* A prompt carries loaded notes, and stamps their bodies as bases.
LEMMA SentLoaded ==
    ASSUME NEW t \in Chats, NEW open \in SUBSET Notes, NEW mentioned \in SUBSET Notes,
           Compose(t, open, mentioned)
    PROVE  /\ Yielded /\ Sent(t, open, mentioned) \subseteq loaded
           /\ \A n \in Notes : base'[n] = IF n \in Sent(t, open, mentioned) THEN body[n]
                                       ELSE base[n]
BY DEF Compose, Sent

\* What a chat was sent grows by the user's text of the notes that the prompt carries.
LEMMA WithIs ==
    ASSUME NEW t \in Chats, NEW S \in SUBSET Notes,
           NEW texts \in [Chats -> [Notes -> SUBSET UserText]]
    PROVE  /\ With(texts, t, S) \in [Chats -> [Notes -> SUBSET UserText]]
           /\ \A u \in Chats, n \in Notes : texts[u][n] \subseteq With(texts, t, S)[u][n]
           /\ \A n \in S : body[n] \cap UserText \subseteq With(texts, t, S)[t][n]
           /\ \A u \in Chats, n \in Notes \ S : With(texts, t, S)[u][n] = texts[u][n]
<1>. DEFINE row == [n \in Notes |-> IF n \in S THEN texts[t][n] \cup (body[n] \cap UserText)
                                    ELSE texts[t][n]]
<1>1. With(texts, t, S) = [texts EXCEPT ![t] = row]
  BY DEF With
<1>2. row \in [Notes -> SUBSET UserText]
  OBVIOUS
<1>. QED
  BY <1>1, <1>2

\* A prompt stamps loaded notes, and no Write is out on those once nobody can go on.
LEMMA GuardedPrompt ==
    ASSUME Types, Types', WellFormed, Grows, Ranked, Guarded, NEW t \in Chats,
           NEW open \in SUBSET Notes, NEW mentioned \in SUBSET Notes,
           Compose(t, open, mentioned), UNCHANGED call,
           \/ seen' = With(seen, t, Sent(t, open, mentioned)) /\ UNCHANGED unsent
           \/ unsent' = With(unsent, t, Sent(t, open, mentioned)) /\ UNCHANGED seen
    PROVE  Guarded'
<1>. DEFINE S == Sent(t, open, mentioned)
<1>1. Yielded /\ S \subseteq loaded /\ S \in SUBSET Notes
      /\ \A n \in Notes : base'[n] = IF n \in S THEN body[n] ELSE base[n]
  BY SentLoaded DEF Types, NoteTypes
<1>2. /\ seen \in [Chats -> [Notes -> SUBSET UserText]]
      /\ unsent \in [Chats -> [Notes -> SUBSET UserText]]
      /\ \/ seen' = With(seen, t, S) /\ unsent' = unsent
         \/ unsent' = With(unsent, t, S) /\ seen' = seen
  BY DEF Types, NoteTypes, Guarded
<1>. HIDE DEF S
<1>3. /\ unsent' \in [Chats -> [Notes -> SUBSET UserText]]
      /\ \A u \in Chats, n \in Notes : seen[u][n] \subseteq seen'[u][n]
             /\ unsent[u][n] \subseteq unsent'[u][n]
      /\ \A n \in S : body[n] \cap UserText \subseteq seen'[t][n] \cup unsent'[t][n]
      /\ \A u \in Chats, n \in Notes \ S : seen'[u][n] = seen[u][n]
  <2>1. CASE seen' = With(seen, t, S) /\ unsent' = unsent
    <3>1. /\ \A u \in Chats, n \in Notes : seen[u][n] \subseteq seen'[u][n]
          /\ \A n \in S : body[n] \cap UserText \subseteq seen'[t][n]
          /\ \A u \in Chats, n \in Notes \ S : seen'[u][n] = seen[u][n]
      <4>1. /\ \A u \in Chats, n \in Notes : seen[u][n] \subseteq With(seen, t, S)[u][n]
            /\ \A n \in S : body[n] \cap UserText \subseteq With(seen, t, S)[t][n]
            /\ \A u \in Chats, n \in Notes \ S : With(seen, t, S)[u][n] = seen[u][n]
        BY <1>1, <1>2, WithIs
      <4>. QED
        BY <2>1, <4>1
    <3>. QED
      BY <1>2, <2>1, <3>1
  <2>2. CASE unsent' = With(unsent, t, S) /\ seen' = seen
    <3>1. /\ unsent' \in [Chats -> [Notes -> SUBSET UserText]]
          /\ \A u \in Chats, n \in Notes : unsent[u][n] \subseteq unsent'[u][n]
          /\ \A n \in S : body[n] \cap UserText \subseteq unsent'[t][n]
      BY <1>1, <1>2, <2>2, WithIs
    <3>. QED
      BY <2>2, <3>1
  <2>. QED
    BY <1>2, <2>1, <2>2
<1>4. \A n \in Notes : base'[n] \cap UserText \subseteq Given(n)'
  <2>. SUFFICES ASSUME NEW n \in Notes, NEW x \in UserText, x \in base'[n]
                PROVE  \E u \in Chats : x \in seen'[u][n] \cup unsent'[u][n]
    BY DEF Given
  <2>1. CASE n \in S
    BY <1>1, <1>3, <2>1
  <2>2. CASE n \notin S
    <3>1. PICK u \in Chats : x \in seen[u][n] \cup unsent[u][n]
      BY <1>1, <2>2 DEF Guarded, Given
    <3>. QED
      BY <1>3, <3>1
  <2>. QED
    BY <2>1, <2>2
<1>5. \A c \in Calls : Undone(c) => NoteOf(c) \in Notes \ S /\ call[c].chat \in Chats
  BY <1>1, NoneOpen, FieldTypes DEF Undone
<1>. QED
  BY <1>3, <1>4, <1>5, GuardedKept DEF Arrived

\* A Write that arrives knows what its chat was given, and finds no other out.
LEMMA GuardedPropose ==
    ASSUME Types, Types', WellFormed, Grows, Guarded, NEW t \in Chats, NEW c \in Calls,
           NEW n \in Notes, NEW p \in Proposed, Propose(t, c, n, p)
    PROVE  Guarded'
<1>1. /\ c \notin Arrived /\ \A d \in Calls : d # c => call'[d] = call[d]
      /\ call'[c].chat = t /\ call'[c].note = n
      /\ UNCHANGED <<base, seen, unsent>>
  BY ProposeDoes DEF baseVars
<1>2. call'[c].kind = p.kind /\ call'[c].knows = seen[t][n]
  BY DEF Propose, NewCall, Types, CallTypes
<1>3. p.kind = "Write" => \A d \in Calls : Undone(d) => NoteOf(d) # n
  BY DEF Propose, Undone
<1>4. \A d \in Calls : d # c => (Undone(d)' <=> Undone(d)) /\ NoteOf(d)' = NoteOf(d)
  BY <1>1 DEF Undone, Arrived, NoteOf
<1>5. Undone(c)' => p.kind = "Write"
  BY <1>2 DEF Undone
<1>6. \A m \in Notes : base'[m] \cap UserText \subseteq Given(m)'
  BY <1>1 DEF Guarded, Given
<1>7. \A d \in Calls : Undone(d)' => seen'[call'[d].chat][NoteOf(d)'] \subseteq call'[d].knows
  BY <1>1, <1>2, <1>4 DEF Guarded, NoteOf
<1>8. \A d, e \in Calls : Undone(d)' /\ Undone(e)' /\ NoteOf(d)' = NoteOf(e)' => d = e
  BY <1>1, <1>3, <1>4, <1>5 DEF Guarded, NoteOf
<1>. QED
  BY <1>1, <1>6, <1>7, <1>8 DEF Guarded

\* The guard gives the note's text to the chat whose Write it has just ended.
LEMMA GuardedByWrite ==
    ASSUME Types, Types', WellFormed, Grows, Guarded, NEW c \in Calls, GuardedWrite(c),
           \A d \in Arrived' : d \in Arrived /\ call'[d].knows = call[d].knows
    PROVE  Guarded'
<1>1. c \in Arrived /\ call[c].stage = "writing" /\ UNCHANGED unsent /\ call'[c].stage = "done"
  BY GuardedWriteDoes DEF Moves
<1>. PICK n \in Notes, t \in Chats : n = NoteOf(c) /\ t = call[c].chat
  BY <1>1, FieldTypes
<1>2. \/ UNCHANGED <<base, seen>>
      \/ base' = [base EXCEPT ![n] = Content(c)] /\ UNCHANGED seen
      \/ /\ base' = [base EXCEPT ![n] = body[n]]
         /\ seen' = [seen EXCEPT ![t][n] = @ \cup (body[n] \cap UserText)]
  BY DEF GuardedWrite
<1>3. seen[t] \in [Notes -> SUBSET UserText] /\ seen \in [Chats -> [Notes -> SUBSET UserText]]
      /\ base \in [Notes -> Bodies]
  BY DEF Types, NoteTypes
<1>4. /\ \A u \in Chats, m \in Notes : seen[u][m] \subseteq seen'[u][m]
      /\ \A u \in Chats, m \in Notes : u # t \/ m # n => seen'[u][m] = seen[u][m]
  BY <1>2, <1>3
<1>5. \A m \in Notes : base'[m] \cap UserText \subseteq Given(m)'
  <2>. SUFFICES ASSUME NEW m \in Notes, NEW x \in UserText, x \in base'[m]
                PROVE  \E u \in Chats : x \in seen'[u][m] \cup unsent'[u][m]
    BY DEF Given
  <2>1. CASE x \in base[m]
    <3>1. PICK u \in Chats : x \in seen[u][m] \cup unsent[u][m]
      BY <2>1 DEF Guarded, Given
    <3>. QED
      BY <1>1, <1>4, <3>1
  <2>2. CASE x \notin base[m]
    <3>1. x \notin Content(c)
      BY <1>1, NamesAssumption DEF Content
    <3>2. m = n /\ x \in body[n]
              /\ seen' = [seen EXCEPT ![t][n] = @ \cup (body[n] \cap UserText)]
      BY <1>2, <1>3, <2>2, <3>1
    <3>. QED
      BY <1>3, <3>2
  <2>. QED
    BY <2>1, <2>2
<1>6. \A d \in Calls : Undone(d) /\ Undone(d)' =>
         seen'[call[d].chat][NoteOf(d)] \subseteq seen[call[d].chat][NoteOf(d)]
  <2>. SUFFICES ASSUME NEW d \in Calls, Undone(d), Undone(d)'
                PROVE  call[d].chat \in Chats /\ NoteOf(d) \in Notes \ {n}
    BY <1>4
  <2>1. Undone(c) /\ d # c
    BY <1>1 DEF Undone, WellFormed, Stages
  <2>. QED
    BY <2>1, FieldTypes DEF Guarded, Undone
<1>. QED
  BY <1>1, <1>5, <1>6, GuardedKept DEF Guarded

\* Every step keeps the meaning of the bases.
LEMMA GuardedNext ==
    ASSUME Types, WellFormed, Ranked, Guarded, [Next]_vars
    PROVE  Guarded'
<1>1. Types' /\ Grows
  BY WellNext
<1>2. CASE \E t \in Chats, c \in Calls, n \in Notes, p \in Proposed : Propose(t, c, n, p)
  BY <1>1, <1>2, GuardedPropose
<1>3. CASE \E t \in Chats, open, mentioned \in SUBSET Notes :
              Prompt(t, open, mentioned) \/ PromptFails(t, open, mentioned)
  BY <1>1, <1>3, GuardedPrompt DEF Prompt, PromptFails
<1>4. CASE ~\E t \in Chats, c \in Calls, n \in Notes, p \in Proposed : Propose(t, c, n, p)
  <2>1. \A d \in Arrived' : d \in Arrived /\ call'[d].knows = call[d].knows
    BY <1>4, CallsKept
  <2>2. CASE \E c \in Calls : GuardedWrite(c)
    BY <1>1, <2>1, <2>2, GuardedByWrite
  <2>3. CASE UNCHANGED <<base, seen, unsent>>
    BY <1>1, <2>1, <2>3, GuardedKept DEF Guarded, Given
  <2>4. ASSUME QuietStep \/ UNCHANGED vars
        PROVE  \/ UNCHANGED <<base, seen, unsent>>
               \/ \E t \in Chats, open, mentioned \in SUBSET Notes :
                     PromptFails(t, open, mentioned)
    BY <2>4, NoteStepDoes DEF QuietStep, EndTurn, vars, baseVars
  <2>5. ASSUME NEW c \in Calls, Refuse(c) \/ MergeStaged(c) \/ FinishMerge(c) \/ ChangeStep(c)
        PROVE  UNCHANGED <<base, seen, unsent>>
    BY <2>5 DEF Refuse, MergeStaged, FinishMerge, ChangeStep, Keep, Reject, ApplyAccepted,
                PruneDecided, baseVars
  <2>6. ASSUME NEW c \in Calls, NEW kind \in {"add", "whole", "range"},
               NEW claim \in {c, NoCall},
               GetsCard(c, kind, claim)
        PROVE  UNCHANGED <<base, seen, unsent>>
    BY <2>6 DEF GetsCard, baseVars
  <2>. QED
    BY <1>2, <1>3, <2>2, <2>3, <2>4, <2>5, <2>6, NextCases
<1>. QED
  BY <1>2, <1>4

\* What a guarded write drops is in the base, hence was given.
LEMMA GuardedStep ==
    ASSUME Types, WellFormed, Guarded, NEW c \in Calls, GuardedWrite(c),
           base[NoteOf(c)] # NoBody, body' # body
    PROVE  body[NoteOf(c)] \cap UserText \subseteq
               call[c].knows \cup unsent[call[c].chat][NoteOf(c)]
                   \cup UNION {seen[u][NoteOf(c)] \cup unsent[u][NoteOf(c)] :
                                  u \in Chats \ {call[c].chat}}
<1>1. c \in Arrived /\ call[c].stage = "writing"
  BY GuardedWriteDoes
<1>. PICK n \in Notes, t \in Chats : n = NoteOf(c) /\ t = call[c].chat
  BY <1>1, FieldTypes
<1>2. body[n] = base[n]
  BY DEF GuardedWrite, Diverged
<1>3. seen[t][n] \subseteq call[c].knows
  BY <1>1 DEF Guarded, Undone, WellFormed, Stages
<1>. SUFFICES ASSUME NEW x \in UserText, x \in body[n]
              PROVE  \/ x \in call[c].knows \cup unsent[t][n]
                     \/ \E u \in Chats \ {t} : x \in seen[u][n] \cup unsent[u][n]
  OBVIOUS
<1>4. PICK u \in Chats : x \in seen[u][n] \cup unsent[u][n]
  BY <1>2 DEF Guarded, Given
<1>. QED
  BY <1>3, <1>4

\* For any number of chats: a guarded write for which a base is recorded drops no text of the
\* user's but what its model had been given when it wrote, what a prompt of its chat that
\* never left carried, and what other chats were sent, since one base serves them all
\* (agent/chat/wholeDocGuard.ts).
THEOREM GuardDropsOnlyGiven ==
    Spec => [][\A c \in Calls :
                  LET n == NoteOf(c) t == call[c].chat IN
                  GuardedWrite(c) /\ base[n] # NoBody /\ body' # body =>
                      body[n] \cap UserText \subseteq
                          call[c].knows \cup unsent[t][n]
                              \cup UNION {seen[u][n] \cup unsent[u][n] :
                                             u \in Chats \ {t}}]_vars
<1>. DEFINE I == Types /\ WellFormed /\ Ranked /\ Guarded
<1>1. Init => I
  BY TypesInit, WellInit, GuardedInit, RankedInit
<1>2. I /\ [Next]_vars => I'
  BY WellNext, RankedNext, GuardedNext
<1>3. I /\ [Next]_vars =>
          [\A c \in Calls :
              LET n == NoteOf(c) t == call[c].chat IN
              GuardedWrite(c) /\ base[n] # NoBody /\ body' # body =>
                  body[n] \cap UserText \subseteq
                      call[c].knows \cup unsent[t][n]
                          \cup UNION {seen[u][n] \cup unsent[u][n] : u \in Chats \ {t}}]_vars
  BY GuardedStep
<1>. QED
  BY <1>1, <1>2, <1>3, PTL DEF Spec

\* "It can never protect against the wrong baseline": with one chat on the notes, which is
\* what the guard was written for, it drops nothing of the user's that its model had not been
\* given.  With more chats the theorem above is what remains of it.
THEOREM OneChatKeepsUnseen ==
    ASSUME \A t, u \in Chats : t = u
    PROVE  Spec => GuardKeepsUnseen
<1>. DEFINE I == Types /\ WellFormed /\ Ranked /\ Guarded
<1>1. Init => I
  BY TypesInit, WellInit, GuardedInit, RankedInit
<1>2. I /\ [Next]_vars => I'
  BY WellNext, RankedNext, GuardedNext
<1>3. I /\ [Next]_vars =>
          [\A c \in Calls :
              LET n == NoteOf(c) IN
              GuardedWrite(c) /\ base[n] # NoBody /\ body' # body =>
                  body[n] \cap UserText \subseteq
                      call[c].knows \cup unsent[call[c].chat][n]]_vars
  <2>. SUFFICES ASSUME I, NEW c \in Calls, GuardedWrite(c), base[NoteOf(c)] # NoBody,
                       body' # body
                PROVE  body[NoteOf(c)] \cap UserText \subseteq
                           call[c].knows \cup unsent[call[c].chat][NoteOf(c)]
    OBVIOUS
  <2>1. Chats \ {call[c].chat} = {}
    BY GuardedWriteDoes, FieldTypes
  <2>. QED
    BY <2>1, GuardedStep
<1>. QED
  BY <1>1, <1>2, <1>3, PTL DEF Spec, GuardKeepsUnseen
=============================================================================
