---------------------------- MODULE ThreadEngine ----------------------------
(***************************************************************************)
(* The chat engine of the sidecar (sidecar/src/server.mjs).  Every         *)
(* conversation is a thread with one long-lived query of the Claude SDK,   *)
(* fed by a generator that hands it one user message per turn.  A chat     *)
(* request is a run; it is accepted at once and reported as ended, by      *)
(* chat/done or chat/error, when its turn settles.                         *)
(*                                                                         *)
(* One stretch of JavaScript between two awaits is one step, with the      *)
(* continuations it resolves (a released generator runs on before any      *)
(* other event is handled).  The SDK decides which events a query yields;  *)
(* Faults names what it, and the file system, may do wrong.                *)
(***************************************************************************)
EXTENDS Naturals, Integers, Sequences, FiniteSets

CONSTANTS
    Threads, Runs,
    MaxRecs,        \* bound: thread records created in one life of the sidecar
    MaxLive,        \* MAX_LIVE_THREADS
    OneAtATime,     \* the host sends a run to a thread only when none is open
    Policies,       \* teardown policies of the chats: subset of AllPolicies
    Faults,         \* subset of AllFaults
    NoThread, NoRun

AllPolicies == {"persist", "closeAfterResult"}
AllFaults == {"auth", "throw", "throwAuth", "crash", "build", "limit", "background"}

Recs == 1..MaxRecs
NoRec == 0

ASSUME NamesAssumption == NoThread \notin Threads /\ NoRun \notin Runs
ASSUME EngineAssumption ==
    /\ MaxRecs \in Nat /\ MaxLive \in Nat \ {0}
    /\ OneAtATime \in BOOLEAN
    /\ Policies \subseteq AllPolicies /\ Faults \subseteq AllFaults

VARIABLES
    activeThreads,  \* the record registered for a thread
    runToThread,    \* the thread a run is looked up under, to cancel it
    rec,            \* the ThreadRec of every record (see Blank)
    controls,       \* <<r, x>>: x waits for the control requests sent to r
    gates,          \* pendingDecisions: <<r, x>> parked on the user
    shuttingDown,
    sentTo,         \* history: the thread a run was accepted for
    terminals,      \* history: terminal notifications emitted per run
    answers         \* history: the runs whose results a run was answered with

wireVars == <<sentTo, terminals, answers>>
vars == <<activeThreads, runToThread, rec, controls, gates, shuttingDown,
          wireVars>>

-----------------------------------------------------------------------------
(* A thread record.  loop is where #runThreadLoop stands: reading events,  *)
(* awaiting the context usage of a result (usage), a fresh token (token),  *)
(* or the record that replaces this one (rebuild); stuck is a record whose *)
(* options could not be built.  gen is the generator #threadInput: parked  *)
(* (nextTurnResolve is set), in a turn (turnSettleResolve is set), done.   *)

Blank ==
    [thread |-> NoThread, policy |-> "persist", loop |-> "free",
     gen |-> "none", dead |-> FALSE, closeRequested |-> FALSE,
     turnQueue |-> <<>>, currentRunId |-> NoRun,
     turnActive |-> FALSE, cancelRequested |-> FALSE, terminalEmitted |-> FALSE,
     awaitingDecision |-> 0, authRetried |-> FALSE,
     background |-> FALSE,      \* backgroundTaskIds is not empty
     forRun |-> NoRun,          \* the run that is dispatched once built
     oldRec |-> NoRec,          \* the record this one replaces
     owed |-> <<>>,             \* messages the SDK has not answered yet
     got |-> NoRun,             \* the message the result at hand answers
     kind |-> "ok",             \* that result: ok, error or auth
     caught |-> FALSE,          \* the token is awaited from the catch
     asked |-> FALSE]           \* bound: a turn asks the user once

Open(x) == sentTo[x] # NoThread /\ terminals[x] = 0

Registered == {activeThreads[t] : t \in Threads} \ {NoRec}

\* backgroundInFlight and threadBusy.
Busy(q) == q.turnActive \/ q.turnQueue # <<>> \/ q.background

Init ==
    /\ activeThreads = [t \in Threads |-> NoRec]
    /\ runToThread = [x \in Runs |-> NoThread]
    /\ rec = [r \in Recs |-> Blank]
    /\ controls = {} /\ gates = {}
    /\ shuttingDown = FALSE
    /\ sentTo = [x \in Runs |-> NoThread]
    /\ terminals = [x \in Runs |-> 0]
    /\ answers = [x \in Runs |-> <<>>]

-----------------------------------------------------------------------------
(* What a record goes through.                                             *)

\* The generator resets the state of the turn and yields x to the SDK.
StartTurn(q, x) ==
    [q EXCEPT !.gen = "turn", !.currentRunId = x, !.turnActive = TRUE,
              !.cancelRequested = FALSE, !.terminalEmitted = FALSE,
              !.awaitingDecision = 0, !.asked = FALSE, !.owed = Append(@, x)]

StartHead(q) == StartTurn([q EXCEPT !.turnQueue = Tail(@)], Head(q.turnQueue))

\* The head of the generator's loop: return, take a queued turn, or park.
PullTurn(q) ==
    IF q.closeRequested THEN [q EXCEPT !.gen = "done"]
    ELSE IF q.turnQueue # <<>> THEN StartHead(q)
    ELSE [q EXCEPT !.gen = "parked"]

\* turnSettleResolve, where it is set.
Release(q) == IF q.gen = "turn" THEN PullTurn(q) ELSE q

\* #dispatchTurn of a record that is not dead: queue, then wake.
Queued(q, x) ==
    LET p == [q EXCEPT !.turnQueue = Append(@, x)]
    IN  IF q.gen = "parked" /\ ~q.turnActive THEN StartHead(p) ELSE p

\* #teardownThread: both promises of the generator are resolved and it returns.
Torn(q) ==
    IF q.dead THEN q
    ELSE [q EXCEPT !.dead = TRUE, !.closeRequested = TRUE,
                   !.gen = IF @ = "none" THEN @ ELSE "done"]

\* The end of a settled turn.
Settled(q) ==
    Release([q EXCEPT !.turnActive = FALSE, !.terminalEmitted = TRUE,
                      !.currentRunId = NoRun, !.loop = "read",
                      !.got = NoRun, !.kind = "ok"])

-----------------------------------------------------------------------------
(* Notifications, and the registries at the end of a thread.               *)

\* #emitChatError.
EmitError(x) ==
    /\ terminals' = [terminals EXCEPT ![x] = @ + 1]
    /\ UNCHANGED <<sentTo, answers>>

\* chat/done, with the result that answers the run `with`.
EmitDone(x, with) ==
    /\ terminals' = [terminals EXCEPT ![x] = @ + 1]
    /\ answers' = [answers EXCEPT ![x] = Append(@, with)]
    /\ UNCHANGED sentTo

Forget(x) ==
    runToThread' = [y \in Runs |-> IF y = x THEN NoThread ELSE runToThread[y]]

\* Mutant of Finalize: the slot is cleared whoever owns it.
FinalizeUnguarded(r) ==
    /\ activeThreads' = [activeThreads EXCEPT ![rec[r].thread] = NoRec]
    /\ Forget(rec[r].currentRunId)

\* #finalizeThreadTeardown: only the record that still owns the slot clears it.
Finalize(r) ==
    LET q == rec[r]
    IN  \/ /\ activeThreads[q.thread] = r
           /\ activeThreads' = [activeThreads EXCEPT ![q.thread] = NoRec]
           /\ Forget(q.currentRunId)
        \/ /\ activeThreads[q.thread] # r
           /\ UNCHANGED <<activeThreads, runToThread>>

\* The loop has run its finally; what is left can still be queued on.
Gone(q) ==
    [Blank EXCEPT !.thread = q.thread, !.loop = "gone", !.dead = q.dead,
                  !.turnQueue = q.turnQueue, !.gen = q.gen,
                  !.turnActive = q.turnActive]

-----------------------------------------------------------------------------
(* #ensureThread up to its first await: make room, then register a record. *)

\* #maybeEvictLRU: at the limit, one idle record is torn down.
Evictions(recs) ==
    LET idle == {r \in Registered : ~recs[r].dead /\ ~Busy(recs[r])}
    IN  IF Cardinality(Registered) < MaxLive \/ idle = {} THEN {recs}
        ELSE {[recs EXCEPT ![r] = Torn(@)] : r \in idle}

\* The next record that has not been used.
IsNext(n) ==
    /\ rec[n].loop = "free"
    /\ \A m \in Recs : rec[m].loop = "free" => n <= m

EnsureThread(recs, t, policy, x, old) ==
    \E n \in Recs, kept \in Evictions(recs) :
        /\ IsNext(n)
        /\ rec' = [kept EXCEPT ![n] =
                      [Blank EXCEPT !.thread = t, !.policy = policy,
                                    !.loop = "build", !.forRun = x,
                                    !.oldRec = old]]
        /\ activeThreads' = [activeThreads EXCEPT ![t] = n]
-----------------------------------------------------------------------------
(* Requests of the host.                                                   *)

\* The checks of #handleChat.  The host makes up a new id for every run.
MayAccept(x, t) ==
    /\ sentTo[x] = NoThread /\ runToThread[x] = NoThread /\ ~shuttingDown
    /\ OneAtATime => \A y \in Runs : sentTo[y] = t => ~Open(y)

Accept(x, t) ==
    /\ MayAccept(x, t)
    /\ sentTo' = [sentTo EXCEPT ![x] = t]
    /\ runToThread' = [runToThread EXCEPT ![x] = t]
    /\ UNCHANGED <<terminals, answers, gates, shuttingDown>>

Reusable(t) == activeThreads[t] # NoRec /\ ~rec[activeThreads[t]].dead

\* A turn that changes the model, the mode or the effort of an idle thread
\* waits for the control requests.
ChatChangingControls(x, t) ==
    /\ Accept(x, t) /\ Reusable(t) /\ ~rec[activeThreads[t]].turnActive
    /\ controls' = controls \cup {<<activeThreads[t], x>>}
    /\ UNCHANGED <<activeThreads, rec>>

\* Any other turn goes into the queue of the live thread.
ChatReusing(x, t) ==
    /\ Accept(x, t) /\ Reusable(t)
    /\ rec' = [rec EXCEPT ![activeThreads[t]] = Queued(@, x)]
    /\ UNCHANGED <<activeThreads, controls>>

\* The first turn of a thread, or the first after its record died.
ChatStarting(x, t) ==
    /\ Accept(x, t) /\ ~Reusable(t)
    /\ \E policy \in Policies : EnsureThread(rec, t, policy, x, NoRec)
    /\ UNCHANGED controls

\* #handleCancel and #cancelPersistentTurn.  The gates of the turn are
\* rejected, which ends their wait, the SDK is asked to interrupt, and the
\* grace timer starts (cancelRequested: see Backstop).
Cancel(x) ==
    LET t == runToThread[x]
        r == activeThreads[t]
        q == rec[r]
    IN  /\ t # NoThread /\ r # NoRec
        /\ q.currentRunId = x /\ q.turnActive
        /\ \/ /\ q.awaitingDecision > 0 /\ <<r, x>> \in gates
              /\ gates' = gates \ {<<r, x>>}
              /\ rec' = [rec EXCEPT ![r] =
                           [q EXCEPT !.cancelRequested = TRUE,
                                     !.awaitingDecision = @ - 1]]
           \/ /\ ~(q.awaitingDecision > 0 /\ <<r, x>> \in gates)
              /\ rec' = [rec EXCEPT ![r].cancelRequested = TRUE]
              /\ UNCHANGED gates
        /\ UNCHANGED <<activeThreads, runToThread, controls, shuttingDown,
                       wireVars>>

\* #handleCloseThread.
CloseThread(t) ==
    /\ activeThreads[t] # NoRec
    /\ rec' = [rec EXCEPT ![activeThreads[t]] = Torn(@)]
    /\ UNCHANGED <<activeThreads, runToThread, controls, gates, shuttingDown,
                   wireVars>>

Shutdown ==
    /\ ~shuttingDown /\ shuttingDown' = TRUE
    /\ rec' = [r \in Recs |-> IF r \in Registered THEN Torn(rec[r]) ELSE rec[r]]
    /\ UNCHANGED <<activeThreads, runToThread, controls, gates, wireVars>>

\* Mutant of Decide: an answered gate stays counted.
DecideUncounted(r, x) ==
    /\ <<r, x>> \in gates
    /\ gates' = gates \ {<<r, x>>}
    /\ UNCHANGED <<activeThreads, runToThread, rec, controls, shuttingDown,
                   wireVars>>

\* #handleDecision: the finally of the gate counts down whatever turn is on.
Decide(r, x) ==
    /\ <<r, x>> \in gates
    /\ gates' = gates \ {<<r, x>>}
    /\ rec' = [rec EXCEPT ![r].awaitingDecision = @ - 1]
    /\ UNCHANGED <<activeThreads, runToThread, controls, shuttingDown, wireVars>>

UserStep ==
    \/ \E x \in Runs, t \in Threads :
          ChatChangingControls(x, t) \/ ChatReusing(x, t) \/ ChatStarting(x, t)
    \/ \E x \in Runs : Cancel(x)
    \/ \E t \in Threads : CloseThread(t)
    \/ Shutdown

-----------------------------------------------------------------------------
(* Continuations of the requests.                                          *)

regVars == <<activeThreads, gates, shuttingDown>>
sideVars == <<controls, gates, shuttingDown>>

\* Mutant of ControlsApplied: the thread may have been closed meanwhile.
ControlsAppliedUnchecked(r, x) ==
    /\ <<r, x>> \in controls /\ controls' = controls \ {<<r, x>>}
    /\ rec' = [rec EXCEPT ![r] = Queued(@, x)]
    /\ UNCHANGED <<runToThread, wireVars, regVars>>

\* #applyThreadControls has finished, whatever the SDK said: dispatch.
ControlsApplied(r, x) ==
    /\ <<r, x>> \in controls /\ controls' = controls \ {<<r, x>>}
    /\ \/ /\ rec[r].dead
          /\ Forget(x) /\ EmitError(x) /\ UNCHANGED rec
       \/ /\ ~rec[r].dead
          /\ rec' = [rec EXCEPT ![r] = Queued(@, x)]
          /\ UNCHANGED <<runToThread, wireVars>>
    /\ UNCHANGED regVars

\* #restartThreadForAuth has returned true: the settled turn, or the catch,
\* of the replaced record o goes on.  Its generator has returned and its slot
\* belongs to the replacement.
Replaced(o) ==
    IF o.caught THEN Gone([o EXCEPT !.turnActive = FALSE])
    ELSE [o EXCEPT !.turnActive = FALSE, !.loop = "read"]

\* The query of record n exists: its loop and its generator start, and the
\* run it was made for is dispatched.
Built(n) ==
    LET q == rec[n]
        x == q.forRun
        made == [q EXCEPT !.loop = "read", !.forRun = NoRun, !.oldRec = NoRec,
                          !.authRetried = q.oldRec # NoRec]
    IN  /\ q.loop = "build"
        /\ rec' = [r \in Recs |->
                     IF r = n
                     THEN IF q.dead THEN PullTurn(made)
                          ELSE PullTurn([made EXCEPT !.turnQueue = Append(@, x)])
                     ELSE IF r = q.oldRec THEN Replaced(rec[r]) ELSE rec[r]]
        /\ \/ /\ q.dead
              /\ Forget(x) /\ EmitError(x)
           \/ /\ ~q.dead
              /\ runToThread' = [runToThread EXCEPT ![x] = q.thread]
              /\ UNCHANGED wireVars
        /\ UNCHANGED <<controls, regVars>>

\* #buildThreadOptions or query() throws.  Only the chat request that began
\* the thread unregisters it, whoever is registered by then.
BuildFails(n) ==
    LET q == rec[n]
    IN  /\ "build" \in Faults /\ q.loop = "build"
        /\ rec' = [r \in Recs |->
                     IF r = n THEN [q EXCEPT !.loop = "stuck"]
                     ELSE IF r = q.oldRec THEN Replaced(rec[r]) ELSE rec[r]]
        /\ activeThreads' = IF q.oldRec = NoRec
                            THEN [activeThreads EXCEPT ![q.thread] = NoRec]
                            ELSE activeThreads
        /\ Forget(q.forRun) /\ EmitError(q.forRun)
        /\ UNCHANGED sideVars

-----------------------------------------------------------------------------
(* Events of the query, as #runThreadLoop reads them.                      *)

\* #trackBackground of background_tasks_changed.
TaskEvent(r) ==
    /\ "background" \in Faults /\ rec[r].loop = "read" /\ rec[r].gen # "none"
    /\ rec' = [rec EXCEPT ![r].background = ~@]
    /\ UNCHANGED <<activeThreads, runToThread, sideVars, wireVars>>

\* Mutant of RateLimited: the rejection ends the turn, and not its result.
RateLimitedEndsTurn(r) ==
    LET q == rec[r]
    IN  /\ "limit" \in Faults /\ q.loop = "read"
        /\ q.turnActive /\ q.currentRunId # NoRun /\ ~q.terminalEmitted
        /\ rec' = [rec EXCEPT ![r] =
                     Release([q EXCEPT !.terminalEmitted = TRUE,
                                       !.turnActive = FALSE])]
        /\ EmitError(q.currentRunId)
        /\ UNCHANGED <<activeThreads, runToThread, sideVars>>

\* A hard quota rejection is reported before the result that follows it.
RateLimited(r) ==
    LET q == rec[r]
    IN  /\ "limit" \in Faults /\ q.loop = "read"
        /\ q.turnActive /\ q.currentRunId # NoRun /\ ~q.terminalEmitted
        /\ rec' = [rec EXCEPT ![r].terminalEmitted = TRUE]
        /\ EmitError(q.currentRunId)
        /\ UNCHANGED <<activeThreads, runToThread, sideVars>>

\* canUseTool parks on the user, during a turn.
GateOpens(r) ==
    LET q == rec[r]
    IN  /\ q.loop = "read" /\ q.turnActive /\ ~q.cancelRequested /\ ~q.dead
        /\ ~q.asked
        /\ gates' = gates \cup {<<r, q.currentRunId>>}
        /\ rec' = [rec EXCEPT ![r] = [q EXCEPT !.asked = TRUE,
                                               !.awaitingDecision = @ + 1]]
        /\ UNCHANGED <<activeThreads, runToThread, controls, shuttingDown,
                       wireVars>>

\* A result during a turn.  The SDK answers the messages in order, and not
\* while a tool of the turn waits for the user, unless it was interrupted.
Result(r, kind) ==
    LET q == rec[r]
    IN  /\ q.loop = "read" /\ q.turnActive /\ q.owed # <<>>
        /\ kind = "auth" => "auth" \in Faults
        /\ <<r, q.currentRunId>> \in gates => q.terminalEmitted \/ q.cancelRequested
        /\ rec' = [rec EXCEPT ![r] =
                     [q EXCEPT !.loop = "usage", !.kind = kind,
                               !.got = Head(q.owed), !.owed = Tail(@),
                               !.closeRequested =
                                   @ \/ q.policy = "closeAfterResult"]]
        /\ UNCHANGED <<activeThreads, runToThread, sideVars, wireVars>>

\* #settleBackgroundTurn: a result between two turns, be it the late one of a
\* turn that is over, is reported under an id made up for it, if at all.
BackgroundResult(r) ==
    /\ rec[r].loop = "read" /\ ~rec[r].turnActive /\ rec[r].owed # <<>>
    /\ rec' = [rec EXCEPT ![r].owed = Tail(@)]
    /\ UNCHANGED <<activeThreads, runToThread, sideVars, wireVars>>

\* #settleTurn once the context usage is there.  It reads the turn only now,
\* and by now that may be another one.
Settle(r) ==
    LET q == rec[r]
        x == q.currentRunId
        replay == q.kind = "auth" /\ ~q.authRetried /\ ~q.cancelRequested
    IN  /\ q.loop = "usage"
        /\ \/ /\ q.terminalEmitted
              /\ rec' = [rec EXCEPT ![r] = Settled(@)]
              /\ Forget(x) /\ UNCHANGED wireVars
           \/ /\ ~q.terminalEmitted /\ ~replay
              /\ rec' = [rec EXCEPT ![r] = Settled(@)]
              /\ Forget(x)
              /\ IF q.kind = "ok" /\ ~q.cancelRequested
                 THEN EmitDone(x, q.got) ELSE EmitError(x)
           \/ /\ ~q.terminalEmitted /\ replay
              /\ rec' = [rec EXCEPT ![r] =
                           [q EXCEPT !.loop = "token", !.got = x,
                                     !.turnActive = FALSE, !.terminalEmitted = TRUE,
                                     !.authRetried = TRUE, !.caught = FALSE]]
              /\ UNCHANGED <<runToThread, wireVars>>
        /\ UNCHANGED <<activeThreads, sideVars>>

\* Mutant of IdleTimeout: the turn is not marked as reported.
IdleTimeoutUnmarked(r) ==
    LET q == rec[r]
    IN  /\ q.loop \in {"read", "usage", "token", "rebuild"}
        /\ ~q.dead /\ q.turnActive /\ q.awaitingDecision <= 0
        /\ rec' = [rec EXCEPT ![r] = Torn(@)]
        /\ EmitError(q.currentRunId)
        /\ UNCHANGED <<activeThreads, runToThread, sideVars>>

\* The watchdog: no event for TURN_IDLE_MS in a turn that waits for nobody.
IdleTimeout(r) ==
    LET q == rec[r]
    IN  /\ q.loop \in {"read", "usage", "token", "rebuild"}
        /\ ~q.dead /\ q.turnActive /\ q.awaitingDecision <= 0
        /\ rec' = [rec EXCEPT ![r] = Torn([q EXCEPT !.terminalEmitted = TRUE])]
        /\ EmitError(q.currentRunId)
        /\ UNCHANGED <<activeThreads, runToThread, sideVars>>

\* The grace timer of a cancelled turn; it does nothing once the turn is over
\* or reported, or the record replaced.
Backstop(r) ==
    LET q == rec[r]
        x == q.currentRunId
    IN  /\ q.cancelRequested /\ q.turnActive /\ ~q.terminalEmitted
        /\ x # NoRun /\ activeThreads[q.thread] = r
        /\ EmitError(x)
        /\ \/ /\ q.background
              /\ rec' = [rec EXCEPT ![r] =
                           Release([q EXCEPT !.terminalEmitted = TRUE,
                                             !.turnActive = FALSE,
                                             !.currentRunId = NoRun])]
              /\ Forget(x)
           \/ /\ ~q.background
              /\ rec' = [rec EXCEPT ![r] = Torn([q EXCEPT !.terminalEmitted = TRUE])]
              /\ UNCHANGED runToThread
        /\ UNCHANGED <<activeThreads, sideVars>>

\* The timer of #armReaper.  The end of a turn, and of background work, arms
\* it; a busy thread lets it pass.
ReaperFires(r) ==
    /\ rec[r].loop \in {"read", "token"} /\ ~rec[r].dead /\ ~Busy(rec[r])
    /\ rec' = [rec EXCEPT ![r] = Torn(@)]
    /\ UNCHANGED <<activeThreads, runToThread, sideVars, wireVars>>

-----------------------------------------------------------------------------
(* An expired token: #restartThreadForAuth and #recreateThread.            *)

\* The query throws an authentication error during a turn.
StreamAuth(r) ==
    LET q == rec[r]
    IN  /\ "throwAuth" \in Faults /\ q.loop = "read"
        /\ q.turnActive /\ ~q.terminalEmitted /\ ~q.authRetried
        /\ rec' = [rec EXCEPT ![r] =
                     [q EXCEPT !.loop = "token", !.got = q.currentRunId,
                               !.authRetried = TRUE, !.caught = TRUE]]
        /\ UNCHANGED <<activeThreads, runToThread, sideVars, wireVars>>

\* The host sent a token in time: a new record replaces this one.
TokenArrives(r) ==
    LET q == rec[r]
        recs == [rec EXCEPT ![r] = [Torn(@) EXCEPT !.loop = "rebuild"]]
    IN  /\ q.loop = "token"
        /\ EnsureThread(recs, q.thread, q.policy, q.got, r)
        /\ UNCHANGED <<runToThread, sideVars, wireVars>>

TokenTimeout(r) ==
    LET q == rec[r]
    IN  /\ q.loop = "token"
        /\ \/ /\ ~q.caught
              /\ rec' = [rec EXCEPT ![r] = Settled(@)]
              /\ Forget(q.got) /\ EmitError(q.got)
              /\ UNCHANGED activeThreads
           \/ /\ q.caught
              /\ rec' = [rec EXCEPT ![r] =
                           Gone(Release([q EXCEPT !.terminalEmitted = TRUE,
                                                  !.turnActive = FALSE]))]
              /\ EmitError(q.currentRunId)
              /\ Finalize(r)
        /\ UNCHANGED sideVars

-----------------------------------------------------------------------------
(* The end of the loop.  A terminal for the turn it leaves behind is       *)
(* emitted by the catch, or by the finally; both do the same.              *)

\* The query was aborted, or its input has ended.
MustEnd(q) == q.loop = "read" /\ (q.dead \/ q.gen = "done")

LoopEnds(r) ==
    LET q == rec[r]
        owing == q.turnActive /\ q.currentRunId # NoRun /\ ~q.terminalEmitted
    IN  /\ q.loop = "read"
        /\ \/ MustEnd(q)
           \/ "throw" \in Faults /\ q.turnActive
           \/ "crash" \in Faults
        /\ \/ /\ owing
              /\ rec' = [rec EXCEPT ![r] =
                           Gone(Release([q EXCEPT !.terminalEmitted = TRUE,
                                                  !.turnActive = FALSE]))]
              /\ EmitError(q.currentRunId)
           \/ /\ ~owing
              /\ rec' = [rec EXCEPT ![r] = Gone(@)]
              /\ UNCHANGED wireVars
        /\ Finalize(r)
        /\ UNCHANGED sideVars

-----------------------------------------------------------------------------
\* What the process and the user owe a record.
Continues(r) ==
    \/ Built(r) \/ Settle(r)
    \/ TokenArrives(r) \/ TokenTimeout(r) \/ IdleTimeout(r)
    \/ MustEnd(rec[r]) /\ LoopEnds(r)
    \/ \E x \in Runs : Decide(r, x)

RecStep(r) ==
    \/ Continues(r) \/ BuildFails(r) \/ LoopEnds(r)
    \/ \E x \in Runs : ControlsApplied(r, x)
    \/ Backstop(r) \/ ReaperFires(r)
    \/ TaskEvent(r) \/ RateLimited(r) \/ GateOpens(r)
    \/ \E kind \in {"ok", "error", "auth"} : Result(r, kind)
    \/ BackgroundResult(r) \/ StreamAuth(r)

Next == UserStep \/ \E r \in Recs : RecStep(r)

Spec == Init /\ [][Next]_vars

\* The SDK may stay silent for ever, to control requests too, which have no
\* timeout; the process keeps running its continuations and the watchdog, it
\* ends the loop of a query that it has aborted, and the user answers what a
\* turn asks.
FairSpec == Spec /\ \A r \in Recs : WF_vars(Continues(r))

-----------------------------------------------------------------------------
(* Properties.                                                             *)

\* The registry never points at a loop that is over, or at another thread's,
\* and a turn that runs and has not been reported can be cancelled: the
\* chat/cancel of its run finds its thread, whose slot still holds its record.
\* An AUTH restart leaves two records of one thread: the end of the older one
\* must not unregister the newer, nor leave itself behind.
RegistryFinds ==
    /\ \A t \in Threads :
          LET r == activeThreads[t]
          IN  r # NoRec => rec[r].thread = t /\ rec[r].loop \notin {"free", "gone"}
    /\ \A r \in Recs :
          LET q == rec[r] IN
          q.loop = "read" /\ ~q.dead /\ q.turnActive /\ ~q.terminalEmitted =>
              /\ runToThread[q.currentRunId] = q.thread
              /\ activeThreads[q.thread] = r

\* The chat/done of a run carries the result that answers its own message.
OwnAnswers == \A x \in Runs : answers[x] \in {<<>>, <<x>>}

\* The watchdog spares exactly the turns that wait for the user: the count of
\* parked gates is the number of them that belong to the turn.
GatesCounted ==
    \A r \in Recs :
        LET q == rec[r]
        IN  q.loop = "read" /\ q.turnActive /\ ~q.dead =>
                q.awaitingDecision =
                    Cardinality({g \in gates : g = <<r, q.currentRunId>>})

\* "Queuing onto a dead thread would strand the turn ... with no terminal":
\* nothing waits in the queue of a thread that will take no more input, and a
\* thread whose loop is over is at work on no run, whether it was closed, timed
\* out, evicted or restarted around the dispatch.  A thread that crashed by
\* itself is not marked dead, and takes up, for ever, the run whose control
\* requests were out: that one is excepted, and so is what is sent to a record
\* that could not be built.
NeverStranded ==
    \A r \in Recs :
        LET q == rec[r]
        IN  /\ q.gen = "done" \/ q.loop = "gone" => q.turnQueue = <<>>
            /\ q.loop = "gone" /\ q.currentRunId # NoRun => ~q.dead

\* The runs that are left to the SDK: those that wait for control requests, and
\* those that a thread has taken up which crashed before the requests returned.
leftToSdk ==
    {x \in Runs : \E r \in Recs :
        \/ <<r, x>> \in controls
        \/ rec[r].loop = "gone" /\ rec[r].currentRunId = x}

\* Every accepted run ends exactly once, unless the sidecar shuts down, or the
\* run waited for control requests, which are not answered, or were answered on
\* a thread that had crashed.
runStatus ==
    [x \in Runs |-> IF sentTo[x] = NoThread THEN "new"
                    ELSE IF terminals[x] = 0 THEN "open"
                    ELSE IF terminals[x] = 1 THEN "ended" ELSE "broken"]

Ledger == INSTANCE RunLedger WITH status <- runStatus, closing <- shuttingDown,
                                  adrift <- leftToSdk

KeepsLedger == Ledger!Spec
=============================================================================
