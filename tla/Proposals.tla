----------------------------- MODULE Proposals -----------------------------
(***************************************************************************)
(* The life of an edit that the model proposes in a chat: the handler of   *)
(* the sidecar's edit-pending event (agent/chat/index.ts), the store of    *)
(* pending changes, the user's decision, the applier that writes accepted  *)
(* changes (state/pendingChangesApplier.ts), the compare-and-swap guard of *)
(* whole-document writes (agent/chat/wholeDocGuard.ts), and the note that  *)
(* tells the model at its next turn what became of its edits.              *)
(*                                                                         *)
(* A body is a set of pieces: the anchors that an edit may replace, what   *)
(* the user typed, and one piece for the text of each call.  An Edit       *)
(* replaces one anchor by the call's piece; a Write replaces everything by *)
(* the anchors and the call's piece.  A call carries one edit (MultiEdit   *)
(* is a sequence of them), and no two calls propose the same text, so the  *)
(* "already there" verdict of the placement does not arise.                *)
(*                                                                         *)
(* A note is loaded once its handle has its body.  The awaits of a handler *)
(* on a loaded note resolve at once: the rest of the program runs only     *)
(* when no handler can go on (Yielded).                                    *)
(***************************************************************************)
EXTENDS Naturals, FiniteSets, Sequences

CONSTANTS
    Notes,            \* vault-relative paths that calls may name
    Chats,            \* chat threads
    Calls,            \* calls of the propose_* tools (pendingIds)
    Anchors,          \* the pieces of a body that an Edit may replace
    UserText,         \* the pieces that the user types
    Nothing,          \* what stands for the absence of a body
    NoCall,           \* no call / no anchor
    MaxStaleRetries,  \* MAX_STALE_RETRIES
    NewConflicts      \* TRUE if other programs change notes that a call created

ASSUME NamesAssumption ==
    /\ NoCall \notin Calls \cup Anchors
    /\ Anchors \cap UserText = {} /\ Calls \cap (Anchors \cup UserText) = {}
    /\ Nothing \notin Anchors \cup UserText \cup Calls

ASSUME BoundsAssumption ==
    MaxStaleRetries \in Nat /\ NewConflicts \in BOOLEAN

VARIABLES
    body,      \* note -> what the user sees in it, or NoBody
    loaded,    \* notes whose handle has its body
    conflict,  \* notes with an unresolved external conflict
    base,      \* baseBySlug: the body a whole-document write must match
    stale,     \* staleCountBySlug
    shown,     \* shownByThreadSlug: chat -> note -> body
    seen,      \* history: chat -> note -> user's text the model was really given
    unsent,    \* history: chat -> note -> user's text of prompts that never left
    running,   \* chats whose run is under way
    auto,      \* chats in acceptEdits mode
    tail,      \* newNoteByPath of the chat's run: note -> last call, or NoCall
    call,      \* call -> its handler (see NewCall)
    change,    \* pendingChangesStore.byId (see NoChange)
    queue,     \* per-note mutex: note -> writes that were asked for, in order
    landed,    \* history: changes whose staged text was written
    crossed    \* history: changes decided while their own write was under way

noteVars == <<body, loaded, conflict>>
baseVars == <<base, stale, shown, seen, unsent>>
chatVars == <<running, auto, tail>>
histVars == <<landed, crossed>>
vars == <<noteVars, baseVars, chatVars, call, change, queue, histVars>>

NoBody   == {Nothing}    \* no such note / no body recorded
Pieces   == Anchors \cup UserText \cup Calls
Proposed == [kind : {"Write"}, target : {NoCall}]
            \cup [kind : {"Edit"}, target : Anchors]

\* A handler: stage is "waiting" (for the previous one on its path), "writing"
\* (the guarded write), "merging" (the direct write of a merged body), "done".
NewCall(t, n, p, prior, knows) ==
    [stage |-> "waiting", chat |-> t, note |-> n, kind |-> p.kind,
     target |-> p.target, prior |-> prior, knows |-> knows,
     claim |-> NoCall, out |-> {}, answer |-> "none"]

Unused == [stage |-> "none"]

NoChange == [status |-> "none"]
Staged(kind, after, status) ==
    [status |-> status, kind |-> kind, after |-> after, failed |-> FALSE,
     delivered |-> FALSE]

Arrived  == {c \in Calls : call[c].stage # "none"}
Stored   == {c \in Calls : change[c].status \notin {"none", "pruned"}}
NoteOf(c) == call[c].note
Text(c)   == change[c].after \cap Calls

Content(c) == IF call[c].kind = "Write" THEN Anchors \cup {c} ELSE {c}
Replaced(b, c) ==
    IF call[c].kind = "Write" THEN Content(c) ELSE (b \ {call[c].target}) \cup {c}

\* Does the call's anchor occur in b?
Placeable(b, c) == call[c].kind = "Edit" => call[c].target \in b

-----------------------------------------------------------------------------
(* The handler of an edit-pending event *)

\* The promise of the previous handler on the path has resolved.
PriorDone(c) ==
    call[c].prior # NoCall => call[call[c].prior].stage = "done"

\* The change that the previous handlers of this run claimed for the path.
Claimed(c) == IF call[c].prior = NoCall THEN NoCall ELSE call[call[c].prior].claim

CanGoOn(c) ==
    /\ call[c].stage = "waiting" /\ PriorDone(c)
    /\ Claimed(c) # NoCall \/ body[NoteOf(c)] = NoBody \/ NoteOf(c) \in loaded

\* updateDocBody runs one write of a note after the other, each once the body
\* is there: by the handler of a call, or by the applier of its change.
Write(by, c) == [by |-> by, of |-> c]
Ask(by, c)   == queue' = [queue EXCEPT ![NoteOf(c)] = Append(@, Write(by, c))]

\* Mutant: a finished write does not leave the queue.
TurnKept(by, c) ==
    LET n == NoteOf(c) IN
    /\ n \in loaded /\ queue[n] # <<>> /\ Head(queue[n]) = Write(by, c)
    /\ UNCHANGED queue

Turn(by, c) ==
    LET n == NoteOf(c) IN
    /\ n \in loaded /\ queue[n] # <<>> /\ Head(queue[n]) = Write(by, c)
    /\ queue' = [queue EXCEPT ![n] = Tail(@)]

Yielded == /\ \A c \in Calls : ~CanGoOn(c)
           /\ \A n \in loaded : queue[n] = <<>>

\* Mutant: the tail of a proposal that is refused never resolves.
FinishRefusalHangs(c, answer, claim) ==
    call' = [call EXCEPT ![c].stage = IF answer = "refused" THEN "hung" ELSE "done",
                         ![c].answer = answer, ![c].claim = claim]

\* The tail resolves to what this path is claimed for, and the verdict goes
\* back to the blocked tool.
Finish(c, answer, claim) ==
    call' = [call EXCEPT ![c].stage = "done", ![c].answer = answer,
                         ![c].claim = claim]

Continue(c, stage, claim) ==
    call' = [call EXCEPT ![c].stage = stage, ![c].claim = claim]

Accepted(d) == [change EXCEPT ![d].status = IF @ = "pending" THEN "accepted" ELSE @]

\* The event arrives.  A model that has sent a whole-document write waits for
\* its verdict before it sends another one for the same note.
Propose(t, c, n, p) ==
    /\ Yielded /\ t \in running /\ call[c].stage = "none"
    /\ p.kind = "Write" =>
          \A d \in Arrived : call[d].kind = "Write" /\ NoteOf(d) = n
                                 => call[d].stage = "done"
    /\ call' = [call EXCEPT ![c] = NewCall(t, n, p, tail[t][n], seen[t][n])]
    /\ tail' = [tail EXCEPT ![t][n] = c]
    /\ UNCHANGED <<noteVars, baseVars, running, auto, change, queue,
                   histVars>>

\* Mutant: a merge does not look at the decision on the change.
MergingUnchecked(c) ==
    /\ call[c].stage = "waiting" /\ PriorDone(c) /\ Claimed(c) # NoCall
    /\ Claimed(c) \in Stored

\* This run has created the note: the call is merged into the staged body ...
Merging(c) ==
    /\ call[c].stage = "waiting" /\ PriorDone(c) /\ Claimed(c) # NoCall
    /\ Claimed(c) \in Stored /\ change[Claimed(c)].status # "rejected"

\* ... unless that change is gone or was rejected,
MergeDeclined(c) ==
    /\ call[c].stage = "waiting" /\ PriorDone(c) /\ Claimed(c) # NoCall
    /\ ~Merging(c)
    /\ Finish(c, "refused", Claimed(c))
    /\ UNCHANGED <<noteVars, baseVars, chatVars, change, queue, histVars>>

\* or does not contain the call's anchor.
MergeUnplaced(c) ==
    /\ Merging(c) /\ ~Placeable(change[Claimed(c)].after, c)
    /\ Finish(c, "refused", Claimed(c))
    /\ UNCHANGED <<noteVars, baseVars, chatVars, change, queue, histVars>>

\* A change that is still pending is pushed again with the merged body; one
\* that was accepted keeps its staged body.  In acceptEdits mode, and whenever
\* it was accepted, the merged body is written at once.
MergeStaged(c) ==
    LET d == Claimed(c)
        merged == Replaced(change[d].after, c)
        pending == change[d].status = "pending"
    IN  /\ Merging(c) /\ Placeable(change[d].after, c)
        /\ change' = IF pending THEN [change EXCEPT ![d].after = merged]
                     ELSE change
        /\ IF pending /\ call[c].chat \notin auto
           THEN Finish(c, "queued", d) /\ UNCHANGED queue
           ELSE /\ call' = [call EXCEPT ![c].stage = "merging",
                                        ![c].claim = d, ![c].out = merged]
                /\ Ask("handler", c)
        /\ UNCHANGED <<noteVars, baseVars, chatVars, histVars>>

\* applyWriteWikiPage of the merged body: no compare-and-swap.
FinishMerge(c) ==
    LET d == call[c].claim n == NoteOf(c) IN
    /\ call[c].stage = "merging" /\ Turn("handler", c)
    /\ \/ /\ n \in conflict
          /\ Finish(c, "queued", d)
          /\ UNCHANGED <<body, change, landed>>
       \/ /\ n \notin conflict
          /\ body' = [body EXCEPT ![n] = call[c].out]
          /\ change' = Accepted(d)
          /\ landed' = landed \cup {c, d}
          /\ Finish(c, "applied", d)
    /\ UNCHANGED <<loaded, conflict, baseVars, chatVars, crossed>>

\* A proposal with a card of its own.  In acceptEdits mode a Write goes
\* through the guard and an Edit is accepted at once.
Stage(c, kind, claim) ==
    LET automatic == call[c].chat \in auto
        status == IF automatic /\ call[c].kind = "Edit" THEN "accepted"
                  ELSE "pending"
    IN  /\ change' = [change EXCEPT ![c] = Staged(kind, Content(c), status)]
        /\ \/ /\ ~automatic
              /\ Finish(c, "queued", claim) /\ UNCHANGED queue
           \/ /\ automatic /\ call[c].kind = "Write"
              /\ Continue(c, "writing", claim) /\ Ask("handler", c)
           \/ /\ automatic /\ call[c].kind = "Edit"
              /\ Finish(c, "applied", claim) /\ Ask("applier", c)

Unclaimed(c) ==
    call[c].stage = "waiting" /\ PriorDone(c) /\ Claimed(c) = NoCall

\* materializeChatNewWikiPage: no note at the path, so an empty one is created
\* to host the staged body.
Create(c) ==
    LET n == NoteOf(c) IN
    /\ Unclaimed(c) /\ body[n] = NoBody
    /\ body' = [body EXCEPT ![n] = {}]
    /\ Stage(c, "add", c)
    /\ UNCHANGED <<loaded, conflict, baseVars, chatVars, histVars>>

\* checkEditPlacement fails open on an empty body.
Fits(c) == body[NoteOf(c)] # {} => Placeable(body[NoteOf(c)], c)

\* The path resolves to a note.
Open(c) ==
    LET n == NoteOf(c) IN
    /\ Unclaimed(c) /\ body[n] # NoBody /\ n \in loaded
    /\ \/ /\ ~Fits(c)
          /\ Finish(c, "refused", NoCall)
          /\ UNCHANGED <<change, queue>>
       \/ /\ Fits(c)
          /\ Stage(c, IF call[c].kind = "Write" THEN "whole" ELSE "range", NoCall)
    /\ UNCHANGED <<noteVars, baseVars, chatVars, histVars>>

\* Mutant: a note that has diverged is overwritten all the same.
DivergedNever(n) == FALSE

\* guardedWholeDocWrite: the body must still be the one the model was shown.
Diverged(n) == base[n] # NoBody /\ body[n] # base[n]

GuardedWrite(c) ==
    LET n == NoteOf(c) t == call[c].chat IN
    /\ call[c].stage = "writing" /\ Turn("handler", c)
    /\ \/ /\ n \in conflict
          /\ Finish(c, "queued", call[c].claim)
          /\ UNCHANGED <<body, base, stale, seen, change, landed>>
       \/ /\ n \notin conflict /\ ~Diverged(n)
          /\ body' = [body EXCEPT ![n] = Content(c)]
          /\ base' = [base EXCEPT ![n] = Content(c)]
          /\ stale' = [stale EXCEPT ![n] = 0]
          /\ change' = Accepted(c)
          /\ landed' = landed \cup {c}
          /\ Finish(c, "applied", call[c].claim)
          /\ UNCHANGED seen
       \/ /\ n \notin conflict /\ Diverged(n)
          /\ stale' = [stale EXCEPT ![n] = @ + 1]
          /\ IF stale[n] >= MaxStaleRetries
             THEN /\ Finish(c, "queued", call[c].claim)
                  /\ UNCHANGED <<base, seen>>
             ELSE /\ base' = [base EXCEPT ![n] = body[n]]
                  /\ seen' = [seen EXCEPT ![t][n] = @ \cup (body[n] \cap UserText)]
                  /\ Finish(c, "refused", call[c].claim)
          /\ UNCHANGED <<body, change, landed>>
    /\ UNCHANGED <<loaded, conflict, shown, unsent, chatVars, crossed>>

-----------------------------------------------------------------------------
(* The user's decisions and the applier *)

\* Keep: the applier's subscription takes the change on.
Keep(c) ==
    /\ Yielded /\ change[c].status = "pending"
    /\ change' = Accepted(c)
    /\ Ask("applier", c)
    /\ crossed' = IF call[c].stage = "done" THEN crossed ELSE crossed \cup {c}
    /\ UNCHANGED <<noteVars, baseVars, chatVars, call, landed>>

Reject(c) ==
    /\ Yielded /\ change[c].status = "pending"
    /\ change' = [change EXCEPT ![c].status = "rejected"]
    /\ crossed' = IF call[c].stage = "done" THEN crossed ELSE crossed \cup {c}
    /\ UNCHANGED <<noteVars, baseVars, chatVars, call, queue, landed>>

\* Does the applier find what it needs?
Applicable(c) ==
    /\ NoteOf(c) \notin conflict
    /\ change[c].kind = "range" => call[c].target \in body[NoteOf(c)]

Applied(c) == CASE change[c].kind = "range" -> Replaced(body[NoteOf(c)], c)
                [] change[c].kind = "whole" -> change[c].after
                [] change[c].kind = "add" -> body[NoteOf(c)] \cup change[c].after

\* applyAcceptedChange, through the single body-write funnel.
ApplyAccepted(c) ==
    /\ c \in Stored /\ Turn("applier", c)
    /\ \/ /\ Applicable(c)
          /\ body' = [body EXCEPT ![NoteOf(c)] = Applied(c)]
          /\ landed' = landed \cup {c}
          /\ UNCHANGED change
       \/ /\ ~Applicable(c)
          /\ change' = [change EXCEPT ![c].failed = TRUE]
          /\ UNCHANGED <<body, landed>>
    /\ UNCHANGED <<loaded, conflict, baseVars, chatVars, call,
                   crossed>>

\* pruneDecided: ten minutes after the decision the entry is dropped.
Asked(c) == \E i \in DOMAIN queue[NoteOf(c)] : queue[NoteOf(c)][i].of = c

PruneDecided(c) ==
    /\ Yielded /\ change[c].status \in {"accepted", "rejected"}
    /\ ~Asked(c)
    /\ change' = [change EXCEPT ![c] = [status |-> "pruned"]]
    /\ UNCHANGED <<noteVars, baseVars, chatVars, call, queue, histVars>>

-----------------------------------------------------------------------------
(* The notes *)

\* The load of a note's body settles.
Load(n) ==
    /\ Yielded /\ body[n] # NoBody /\ n \notin loaded
    /\ loaded' = loaded \cup {n}
    /\ UNCHANGED <<body, conflict, baseVars, chatVars, call, change, queue,
                   histVars>>

OnNote(n) == /\ Yielded /\ n \in loaded
             /\ UNCHANGED <<loaded, baseVars, chatVars, call, change, queue,
                            histVars>>

UserTypes(n, u) ==
    /\ OnNote(n) /\ body' = [body EXCEPT ![n] = @ \cup {u}]
    /\ UNCHANGED conflict

UserDeletes(n, x) ==
    /\ OnNote(n) /\ x \in body[n] /\ body' = [body EXCEPT ![n] = @ \ {x}]
    /\ UNCHANGED conflict

CreatedHere(n) == \E c \in Arrived : NoteOf(c) = n /\ call[c].claim # NoCall

ConflictChanges(n) ==
    /\ OnNote(n) /\ (CreatedHere(n) => NewConflicts)
    /\ \/ n \notin conflict /\ conflict' = conflict \cup {n}
       \/ n \in conflict /\ conflict' = conflict \ {n}
    /\ UNCHANGED body

-----------------------------------------------------------------------------
(* The turns of a chat *)

\* Mutant: every accepted change is reported as not landed.
DidNotLandAccepted(c) == change[c].status \in {"rejected", "accepted"}

\* The outcomes that the next prompt reports: "your change is NOT in the file".
DidNotLand(c) ==
    \/ change[c].status = "rejected"
    \/ change[c].status = "accepted" /\ change[c].failed

Reported(t) == {c \in Stored : /\ call[c].chat = t /\ DidNotLand(c)
                               /\ ~change[c].delivered}

\* What the prompt carries: the open note unless this chat was shown the same
\* body before, and every mentioned note that is loaded and not empty.
Sent(t, open, mentioned) ==
    {n \in open : shown[t][n] # body[n]} \cup {n \in mentioned : body[n] # {}}

\* The bases and the ledger are stamped while the prompt is put together.
Compose(t, open, mentioned) ==
    /\ Yielded /\ t \notin running
    /\ open \cup mentioned \subseteq loaded /\ Cardinality(open) <= 1
    /\ base' = [n \in Notes |-> IF n \in Sent(t, open, mentioned) THEN body[n]
                               ELSE base[n]]
    /\ shown' = [shown EXCEPT ![t] =
                    [n \in Notes |-> IF n \in open THEN body[n] ELSE @[n]]]

\* A history of what chat t was sent, with a prompt more.
With(texts, t, notes) ==
    [texts EXCEPT ![t] = [n \in Notes |-> IF n \in notes
                                          THEN @[n] \cup (body[n] \cap UserText)
                                          ELSE @[n]]]

Prompt(t, open, mentioned) ==
    /\ Compose(t, open, mentioned)
    /\ seen' = With(seen, t, Sent(t, open, mentioned))
    /\ change' = [c \in Calls |-> IF c \in Reported(t)
                                  THEN [change[c] EXCEPT !.delivered = TRUE]
                                  ELSE change[c]]
    /\ running' = running \cup {t}
    /\ tail' = [tail EXCEPT ![t] = [n \in Notes |-> NoCall]]
    /\ UNCHANGED <<noteVars, stale, unsent, auto, call, queue, histVars>>

\* The run does not start: the prompt never reaches the model.
PromptFails(t, open, mentioned) ==
    /\ Compose(t, open, mentioned)
    /\ unsent' = With(unsent, t, Sent(t, open, mentioned))
    /\ UNCHANGED <<noteVars, stale, seen, chatVars, call, change, queue,
                   histVars>>

\* The run ends, with or without an answer to each of its calls.
EndTurn(t) ==
    /\ Yielded /\ t \in running
    /\ running' = running \ {t}
    /\ UNCHANGED <<noteVars, baseVars, auto, tail, call, change, queue,
                   histVars>>

-----------------------------------------------------------------------------

Init ==
    /\ body \in [Notes -> {Anchors, NoBody}]
    /\ loaded = {} /\ conflict = {}
    /\ base = [n \in Notes |-> NoBody] /\ stale = [n \in Notes |-> 0]
    /\ shown = [t \in Chats |-> [n \in Notes |-> NoBody]]
    /\ seen = [t \in Chats |-> [n \in Notes |-> {}]] /\ unsent = seen
    /\ running = {} /\ auto \in SUBSET Chats
    /\ tail = [t \in Chats |-> [n \in Notes |-> NoCall]]
    /\ call = [c \in Calls |-> Unused] /\ change = [c \in Calls |-> NoChange]
    /\ queue = [n \in Notes |-> <<>>] /\ landed = {} /\ crossed = {}

Handler(c) ==
    \/ MergeDeclined(c) \/ MergeUnplaced(c) \/ MergeStaged(c) \/ FinishMerge(c)
    \/ Create(c) \/ Open(c) \/ GuardedWrite(c)

UserStep ==
    \/ \E c \in Calls : Keep(c) \/ Reject(c)
    \/ \E n \in Notes : ConflictChanges(n)
    \/ \E n \in Notes, u \in UserText : UserTypes(n, u)
    \/ \E n \in Notes, x \in Anchors : UserDeletes(n, x)
    \/ \E t \in Chats, open, mentioned \in SUBSET Notes :
          Prompt(t, open, mentioned) \/ PromptFails(t, open, mentioned)
    \/ \E t \in Chats : EndTurn(t)

Next ==
    \/ UserStep
    \/ \E t \in Chats, c \in Calls, n \in Notes, p \in Proposed :
          Propose(t, c, n, p)
    \/ \E c \in Calls : Handler(c) \/ ApplyAccepted(c) \/ PruneDecided(c)
    \/ \E n \in Notes : Load(n)

Spec == Init /\ [][Next]_vars

-----------------------------------------------------------------------------

Queued == UNION {{queue[n][i] : i \in DOMAIN queue[n]} : n \in Notes}

\* The domains, and that nothing dangles: a queued write belongs to a handler
\* that waits for it or to an accepted change, a handler that is past waiting
\* has its turn ahead of it, and a claim names a change of the same note.
TypeOK ==
    /\ body \in [Notes -> (SUBSET Pieces) \cup {NoBody}]
    /\ loaded \subseteq Notes /\ conflict \subseteq loaded
    /\ base \in [Notes -> (SUBSET Pieces) \cup {NoBody}]
    /\ stale \in [Notes -> Nat]
    /\ running \subseteq Chats /\ auto \subseteq Chats
    /\ \A c \in Calls : c \in Stored => c \in Arrived
    /\ \A w \in Queued :
          IF w.by = "handler" THEN call[w.of].stage \in {"writing", "merging"}
          ELSE change[w.of].status = "accepted"
    /\ \A c \in Calls :
          call[c].stage \in {"writing", "merging"} => Write("handler", c) \in Queued
    /\ \A c \in Arrived :
          call[c].claim # NoCall => NoteOf(call[c].claim) = NoteOf(c)

\* "don't resurrect it with a late write": nothing of a rejected proposal is in
\* the note, whatever merges, retries and later calls do, unless the user
\* rejected it while its own write was already under way.
RejectedStaysOut ==
    \A c \in Stored \ crossed :
        change[c].status = "rejected" => Text(c) \cap body[NoteOf(c)] = {}

\* A change that stays accepted was written, is about to be, or is marked as
\* failed, so that the model can be told.
AcceptedLands ==
    \A c \in Stored :
        change[c].status = "accepted" /\ ~change[c].failed
            => c \in landed \/ Asked(c)

\* An edit that the model was told has no card is not in the file, and never
\* will be.
RefusedStaysOut ==
    \A c \in Arrived :
        call[c].kind = "Edit" /\ call[c].answer = "refused" =>
            \A n \in Notes : c \notin body[n]

\* What was decided about a proposal, by the user or by the checks that come
\* before a card, is what becomes of it.
DecisionsStand == RejectedStaysOut /\ AcceptedLands /\ RefusedStaysOut

\* What the outcome note says is true when it is said: the changes it lists are
\* not in their notes.
FeedbackTruthful ==
    [][\A c \in Stored \ crossed :
          c \in Stored' /\ change'[c].delivered /\ ~change[c].delivered
              => Text(c) \cap body[NoteOf(c)] = {}]_vars

\* "it can never protect against the wrong baseline": a guarded write for which
\* a base is recorded drops no text of the user's that the model had not been
\* given when it wrote, unless a prompt of this chat with that text in it was
\* put together and never left.
GuardKeepsUnseen ==
    [][\A c \in Calls :
          LET n == NoteOf(c) IN
          GuardedWrite(c) /\ base[n] # NoBody /\ body' # body =>
              body[n] \cap UserText \subseteq
                  call[c].knows \cup unsent[call[c].chat][n]]_vars

\* "a lost ack must not wedge the turn": once nothing is being loaded and no
\* handler can go on, every blocked tool call has its verdict.
NobodyLeftWaiting ==
    Yielded /\ (\A n \in Notes : body[n] # NoBody => n \in loaded)
        => \A c \in Arrived : call[c].stage = "done"
=============================================================================
