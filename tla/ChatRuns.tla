------------------------------ MODULE ChatRuns ------------------------------
(***************************************************************************)
(* Chat runs in the front end: what the chat panel does with a message     *)
(* (layout/ChatPanel.tsx), the life of a run (chat/hooks/useChatRunner.ts, *)
(* agent/chat/index.ts) and the two stores they share (stores/turnState.ts,*)
(* stores/chatRuns.ts).  The sidecar is what RunLedger says of it: a run   *)
(* it has accepted is reported as ended once, unless its process dies, or  *)
(* the run is left to the SDK, which need not answer.                      *)
(*                                                                         *)
(* JavaScript runs one handler or continuation at a time, so each of them  *)
(* is an action.  A run is named by the message it answers.                *)
(***************************************************************************)
EXTENDS Naturals, Sequences, FiniteSets, SequencesExt

CONSTANTS
    Threads,      \* chat threads
    Msgs,         \* messages the user may ever submit
    None,         \* no message
    MaxCrashes    \* bound: how often the sidecar may die

ASSUME NoneAssumption ==
    None \notin Msgs \cup Seq([who : {"user", "assistant"}, msg : Msgs])
ASSUME CrashesAssumption == MaxCrashes \in Nat

VARIABLES
    visible,   \* the thread on screen (activeId)
    status,    \* thread -> "streaming" or "idle" ("error" is told from it nowhere)
    turn,      \* thread -> the run whose streamingTurn it shows, or None
    queued,    \* thread -> the messages parked behind the answer
    paused,    \* thread -> are they held (queuePaused)?
    latch,     \* sendInFlightRef beyond the handler: run that holds it, by thread
    script,    \* thread -> its settled turns, of the user and of the assistant
    rewrite,   \* thread -> the turns rewriteTurns is writing to its file, or None
    run,       \* message -> its run (see NoRun)
    died,      \* the end of a sidecar process is announced and not yet heard of
    crashes,   \* how often it has died
    taken,     \* history: messages the panel took and the user has not removed
    gone,      \* history: messages dropped at the latch or removed by the user
    stopped,   \* history: threads where the user pressed Stop and sent nothing since
    crossed    \* history: threads where a command was started into a running answer

storeVars == <<status, turn, queued, paused>>
histVars  == <<taken, gone, stopped, crossed>>
vars == <<visible, storeVars, latch, script, rewrite, run, died, crashes, histVars>>

\* at: how far it has come: the awaits of flushDirty and of assembleContext,
\* which come before it is registered, of claude_chat_start and of `finished`;
\* settled: is `finished` settled?  side: what the sidecar knows of it
\* ("adrift": it waits for the SDK, for ever; "unheard": the request went to a
\* process that is no more, and is never answered); cancel: its chat/cancel, sent once, as an AbortController fires once;
\* word: is the event of its end on its way?
NoRun == [thread |-> None, at |-> "none", settled |-> FALSE, side |-> "none",
          cancel |-> "no", word |-> FALSE]

\* Where the sidecar has a run in hand.
AtWork == {"working", "cancelling", "adrift"}

\* A run that is over: all that is left of it is what the sidecar still does.
Over(r) == [NoRun EXCEPT !.thread = r.thread, !.at = "over",
                         !.cancel = IF r.side = "working" THEN r.cancel ELSE "no",
                         !.side = IF r.side \in AtWork THEN r.side ELSE "none"]

Running(m)    == run[m].at \notin {"none", "over"}
Parked(m)     == Contains(queued[visible], m) /\ ~paused[visible]
Live(t)       == {m \in Msgs : run[m].thread = t /\ Running(m)}
Registered(m) == run[m].at \in {"start", "await"} /\ ~run[m].settled
Says(who, m)  == [who |-> who, msg |-> m]
\* A message the user has not submitted yet; which one makes no difference.
Unsent        == Msgs \ (taken \cup gone)
Fresh         == CHOOSE m \in Unsent : TRUE

TypeOK ==
    /\ visible \in Threads
    /\ status \in [Threads -> {"idle", "streaming"}]
    /\ turn \in [Threads -> Msgs \cup {None}]
    /\ queued \in [Threads -> Seq(Msgs)]
    /\ paused \in [Threads -> BOOLEAN]
    /\ \A t \in Threads : latch[t] \in Live(t) \cup {None}
    /\ script \in [Threads -> Seq([who : {"user", "assistant"}, msg : Msgs])]
    /\ rewrite \in [Threads -> Seq([who : {"user", "assistant"}, msg : Msgs]) \cup {None}]
    /\ run \in [Msgs -> [thread : Threads \cup {None},
                         at : {"none", "prepare", "start", "await", "over"},
                         settled : BOOLEAN,
                         side : {"none", "unheard", "ended", "lost"} \cup AtWork,
                         cancel : {"no", "sent", "arrived"},
                         word : BOOLEAN]]
    /\ died \in BOOLEAN /\ crashes \in 0..MaxCrashes
    /\ taken \subseteq Msgs /\ gone \subseteq Msgs \ taken
    /\ stopped \subseteq Threads /\ crossed \subseteq Threads

Init ==
    /\ visible \in Threads
    /\ status = [t \in Threads |-> "idle"] /\ turn = [t \in Threads |-> None]
    /\ queued = [t \in Threads |-> <<>>] /\ paused = [t \in Threads |-> FALSE]
    /\ latch = [t \in Threads |-> None] /\ script = [t \in Threads |-> <<>>]
    /\ rewrite = [t \in Threads |-> None]
    /\ run = [m \in Msgs |-> NoRun]
    /\ died = FALSE /\ crashes = 0
    /\ taken = {} /\ gone = {} /\ stopped = {} /\ crossed = {}

-----------------------------------------------------------------------------
\* What runner.run does before its first await: the streaming turn and the
\* status are those of this run from here on.
Begin(t, m) ==
    /\ turn' = [turn EXCEPT ![t] = m]
    /\ status' = [status EXCEPT ![t] = "streaming"]
    /\ run' = [run EXCEPT ![m] = [NoRun EXCEPT !.thread = t, !.at = "prepare"]]

\* appendTurn of the user's turn.
Write(t, m) == script' = [script EXCEPT ![t] = Append(@, Says("user", m))]

\* A parked message is written as a turn at once.
ParkWritten(t, m) ==
    /\ status[t] = "streaming"
    /\ queued' = [queued EXCEPT ![t] = Append(@, m)]
    /\ paused' = [paused EXCEPT ![t] = FALSE]
    /\ Write(t, m)
    /\ UNCHANGED <<status, turn, run>>

\* The status is that of the last render the closure knows of: any.
SendNowStale(t, m) ==
    /\ paused' = [paused EXCEPT ![t] = FALSE]
    /\ Write(t, m) /\ Begin(t, m)
    /\ UNCHANGED queued

\* A message is sent.  Behind an answer it is parked, which also releases a
\* hold; otherwise it is a turn of the thread at once, and runs.  The latch is
\* let go as soon as the run is dispatched.
Park(t, m) ==
    /\ status[t] = "streaming"
    /\ queued' = [queued EXCEPT ![t] = Append(@, m)]
    /\ paused' = [paused EXCEPT ![t] = FALSE]
    /\ UNCHANGED <<status, turn, script, run>>

SendNow(t, m) ==
    /\ status[t] # "streaming"
    /\ paused' = [paused EXCEPT ![t] = FALSE]
    /\ Write(t, m) /\ Begin(t, m)
    /\ UNCHANGED queued

Send ==
    /\ Unsent # {} /\ latch[visible] = None
    /\ Park(visible, Fresh) \/ SendNow(visible, Fresh)
    /\ taken' = taken \cup {Fresh}
    /\ stopped' = stopped \ {visible}
    /\ UNCHANGED <<visible, rewrite, latch, died, crashes, gone, crossed>>

\* The latch is held for the whole of a command or a regeneration: whatever is
\* submitted meanwhile goes nowhere.
SendDropped ==
    /\ Unsent # {} /\ latch[visible] # None
    /\ gone' = gone \cup {Fresh}
    /\ UNCHANGED <<visible, storeVars, latch, script, rewrite, run, died, crashes,
                   taken, stopped, crossed>>

\* A vault command runs at once, whatever the thread is doing, and holds the
\* latch until it is over.  It does not release a hold.
SlashCommand ==
    /\ Unsent # {} /\ latch[visible] = None
    /\ Write(visible, Fresh) /\ Begin(visible, Fresh)
    /\ latch' = [latch EXCEPT ![visible] = Fresh]
    /\ taken' = taken \cup {Fresh}
    /\ crossed' = IF Live(visible) = {} THEN crossed ELSE crossed \cup {visible}
    /\ UNCHANGED <<visible, rewrite, queued, paused, died, crashes, gone, stopped>>

\* The last answer is thrown away and its message run again.  The answer goes
\* when the file without it has been written (rewriteTurns), for which
\* nobody waits.
Regenerate ==
    LET t == visible
        turns == script[t]
    IN  /\ status[t] # "streaming" /\ turn[t] = None /\ latch[t] = None
        /\ Len(turns) >= 2
        /\ Last(turns).who = "assistant" /\ turns[Len(turns) - 1].who = "user"
        /\ LET m == turns[Len(turns) - 1].msg
           IN  /\ Begin(t, m)
               /\ latch' = [latch EXCEPT ![t] = m]
               /\ rewrite' = [rewrite EXCEPT ![t] = Front(turns)]
        /\ UNCHANGED <<visible, queued, paused, script, died, crashes, histVars>>

Rewritten(t) ==
    /\ rewrite[t] # None
    /\ script' = [script EXCEPT ![t] = rewrite[t]]
    /\ rewrite' = [rewrite EXCEPT ![t] = None]
    /\ UNCHANGED <<visible, storeVars, latch, run, died, crashes, histVars>>

\* The drain effect of the thread on screen: when no answer is streaming and
\* the queue is not held, its oldest message becomes a turn and runs.
Drain ==
    LET t == visible
        m == Head(queued[t])
    IN  /\ status[t] # "streaming" /\ queued[t] # <<>> /\ ~paused[t]
        /\ queued' = [queued EXCEPT ![t] = Tail(@)]
        /\ Write(t, m) /\ Begin(t, m)
        /\ UNCHANGED <<visible, rewrite, paused, latch, died, crashes, histVars>>

\* The user takes a message out of the queue.
RemoveQueued ==
    \E i \in DOMAIN queued[visible] :
        /\ queued' = [queued EXCEPT ![visible] = RemoveAt(@, i)]
        /\ taken' = taken \ {queued[visible][i]}
        /\ gone' = gone \cup {queued[visible][i]}
        /\ UNCHANGED <<visible, status, turn, paused, latch, script, rewrite, run, died,
                       crashes, stopped, crossed>>

Show(t) ==
    /\ t # visible
    /\ visible' = t
    /\ UNCHANGED <<storeVars, latch, script, rewrite, run, died, crashes, histVars>>

\* Aborting settles the run without waiting for the sidecar's word.
AbortSettles(R) ==
    run' = [m \in Msgs |-> IF m \in R /\ Registered(m) /\ run[m].cancel = "no"
                           THEN [run[m] EXCEPT !.cancel = "sent", !.settled = TRUE,
                                             !.word = FALSE]
                           ELSE run[m]]

\* controller.abort() of the registered runs among R: a chat/cancel is sent.
Abort(R) ==
    run' = [m \in Msgs |-> IF m \in R /\ Registered(m) /\ run[m].cancel = "no"
                           THEN [run[m] EXCEPT !.cancel = "sent"] ELSE run[m]]

\* The run is aborted and nothing else.
StopUnheld ==
    /\ status[visible] = "streaming"
    /\ Abort(Live(visible))
    /\ stopped' = stopped \cup {visible}
    /\ UNCHANGED <<visible, storeVars, latch, script, rewrite, died, crashes,
                   taken, gone, crossed>>

\* Stop holds the queue, then aborts.  A run that is not registered yet is not
\* found.
Stop ==
    /\ status[visible] = "streaming"
    /\ paused' = [paused EXCEPT ![visible] = TRUE]
    /\ Abort(Live(visible))
    /\ stopped' = stopped \cup {visible}
    /\ UNCHANGED <<visible, status, turn, queued, latch, script, rewrite, died, crashes,
                   taken, gone, crossed>>

\* The network goes: the watcher of a run aborts all runs of its thread.
Offline(t) ==
    /\ \E m \in Live(t) : Registered(m) /\ run[m].cancel = "no"
    /\ Abort(Live(t))
    /\ UNCHANGED <<visible, storeVars, latch, script, rewrite, died, crashes, histVars>>

-----------------------------------------------------------------------------
\* The continuations of a run.
StepOf(m, r) ==
    /\ run' = [run EXCEPT ![m] = r]
    /\ UNCHANGED <<visible, storeVars, latch, script, rewrite, died, crashes, histVars>>

\* The notes are flushed and the context is assembled: the run is registered,
\* its listeners are set up, claude_chat_start is sent.
Register(m) == run[m].at = "prepare" /\ StepOf(m, [run[m] EXCEPT !.at = "start"])

\* claude_chat_start returns; what is left to await is `finished`.
Started(m) ==
    /\ run[m].at = "start" /\ run[m].side \notin {"none", "unheard"}
    /\ StepOf(m, [run[m] EXCEPT !.at = "await"])

\* The latch is let go where the run has succeeded, not in the finally.
CommitLatched(m) ==
    LET t == run[m].thread
    IN  /\ script' = [script EXCEPT ![t] = Append(@, Says("assistant", m))]
        /\ turn' = [turn EXCEPT ![t] = None]
        /\ status' = [status EXCEPT ![t] = "idle"]
        /\ latch' = [latch EXCEPT ![t] = IF @ = m /\ run[m].side = "ended" THEN None ELSE @]
        /\ run' = [run EXCEPT ![m] = Over(@)]
        /\ UNCHANGED <<visible, rewrite, queued, paused, died, crashes, histVars>>

\* The run ends: its answer, or what there is of it, is a turn of the
\* transcript, the streaming turn is cleared and the thread comes to rest.
\* A run takes several calls of the backend and outlasts the rewrite it was
\* started with, which is one.
Commit(m) ==
    LET t == run[m].thread
    IN  /\ rewrite[t] # None => Last(rewrite[t]) # Says("user", m)
        /\ script' = [script EXCEPT ![t] = Append(@, Says("assistant", m))]
        /\ turn' = [turn EXCEPT ![t] = None]
        /\ status' = [status EXCEPT ![t] = "idle"]
        /\ latch' = [latch EXCEPT ![t] = IF @ = m THEN None ELSE @]
        /\ run' = [run EXCEPT ![m] = Over(@)]
        /\ UNCHANGED <<visible, rewrite, queued, paused, died, crashes, histVars>>

\* `finished` is settled, one way or the other.
Finish(m) == run[m].at = "await" /\ run[m].settled /\ Commit(m)

\* claude_chat_start fails: before the sidecar has accepted the run, or because
\* its process has died.
StartFails(m) ==
    /\ run[m].at = "start" /\ run[m].side \in {"none", "lost"}
    /\ Commit(m)

-----------------------------------------------------------------------------
\* The sidecar, and what is on the way between the two.
\* The run is taken on.
Accept(m) ==
    /\ run[m].at = "start" /\ run[m].side = "none"
    /\ StepOf(m, [run[m] EXCEPT !.side = "working"])

\* It is taken on in a thread that has run before, as other turns or the latch of
\* a regeneration tell; the model or the mode is changed first, which the SDK
\* never answers (leftToSdk in ThreadEngine).  Only the process can end it then.
AcceptAdrift(m) ==
    /\ run[m].at = "start" /\ run[m].side = "none"
    /\ Len(script[run[m].thread]) > 1 \/ latch[run[m].thread] = m
    /\ StepOf(m, [run[m] EXCEPT !.side = "adrift"])

\* The request is put on the client of a process that has died, when those that
\* waited there have been failed already: nobody fails this one.  How long it is
\* until the client is replaced is left open.
Unheard(m) ==
    /\ run[m].at = "start" /\ run[m].side = "none" /\ crashes > 0
    /\ StepOf(m, [run[m] EXCEPT !.side = "unheard"])

\* A chat/cancel for a run that the sidecar does not know, or no longer, is
\* ignored.
CancelArrives(m) ==
    /\ run[m].cancel = "sent"
    /\ StepOf(m, [run[m] EXCEPT !.cancel = "arrived",
                                !.side = IF @ = "working" THEN "cancelling" ELSE @])

\* The run ends in the sidecar, with an answer, an error or as cancelled, and
\* says so; with the listener gone, to nobody.
End(m) ==
    /\ run[m].side \in {"working", "cancelling"}
    /\ LET ended == [run[m] EXCEPT !.side = "ended", !.word = Registered(m)]
       IN  StepOf(m, IF run[m].at = "over" THEN Over(ended) ELSE ended)

\* Its chat/done or chat/error is heard: `finished` settles, the listeners go.
Hear(m) == run[m].word /\ StepOf(m, [run[m] EXCEPT !.word = FALSE, !.settled = TRUE])

\* The process dies with all it was doing.
Die ==
    /\ crashes < MaxCrashes
    /\ crashes' = crashes + 1 /\ died' = TRUE
    /\ run' = [m \in Msgs |-> IF run[m].side \in AtWork
                              THEN LET r == [run[m] EXCEPT !.side = "lost"]
                                   IN  IF r.at = "over" THEN Over(r) ELSE r
                              ELSE run[m]]
    /\ UNCHANGED <<visible, storeVars, latch, script, rewrite, histVars>>

\* The state of the sidecar concerns only runs it has answered for.
HearDeathAwaiting ==
    /\ died
    /\ died' = FALSE
    /\ run' = [m \in Msgs |-> IF Registered(m) /\ run[m].at = "await"
                              THEN [run[m] EXCEPT !.settled = TRUE, !.word = FALSE] ELSE run[m]]
    /\ UNCHANGED <<visible, storeVars, latch, script, rewrite, crashes, histVars>>

\* sidecar:state says restarting, or dead: every registered run fails.
HearDeath ==
    /\ died
    /\ died' = FALSE
    /\ run' = [m \in Msgs |-> IF Registered(m)
                              THEN [run[m] EXCEPT !.settled = TRUE, !.word = FALSE] ELSE run[m]]
    /\ UNCHANGED <<visible, storeVars, latch, script, rewrite, crashes, histVars>>

User ==
    \/ Send \/ SendDropped \/ SlashCommand \/ Regenerate \/ RemoveQueued \/ Stop
    \/ \E t \in Threads : Show(t) \/ Offline(t)

Advance(m) ==
    \/ Register(m) \/ Started(m) \/ Finish(m)
    \/ Accept(m) \/ CancelArrives(m) \/ End(m) \/ Hear(m)

Next ==
    \/ User \/ Drain \/ Die \/ HearDeath
    \/ \E t \in Threads : Rewritten(t)
    \/ \E m \in Msgs : Advance(m) \/ StartFails(m)
    \/ \E m \in Msgs : AcceptAdrift(m) \/ Unheard(m)

Spec == Init /\ [][Next]_vars

\* The drain effect runs with the render that follows a write to the store,
\* ahead of the user's next event: a thread that comes to rest again and again
\* drains.  Continuations and events are delivered, claude_chat_start returns
\* unless it is put on a process that has died, and the sidecar ends what it has
\* accepted and not left to the SDK (RunLedger).  Nothing is asked of the user,
\* and nothing need fail.
FairSpec ==
    /\ Spec
    /\ SF_vars(Drain) /\ WF_vars(HearDeath)
    /\ \A t \in Threads : WF_vars(Rewritten(t))
    /\ \A m \in Msgs : WF_vars(Advance(m) \/ (run[m].side = "lost" /\ StartFails(m)))

-----------------------------------------------------------------------------
\* What the store says of a thread is what its run is doing: there is one run
\* at most, the streaming turn is its turn, and the status is "streaming" as
\* long as it lives, whichever way messages, the drain, regenerations, stops,
\* failures and deaths of the sidecar interleave (ChatPanel: "the two runs
\* never produce output at once and the single per-thread streaming buffer
\* stays correct").  Not in a thread where a command was started into a
\* running answer, which nothing prevents.
OneStream ==
    \A t \in Threads \ crossed :
        /\ Live(t) = {turn[t]} \ {None}
        /\ status[t] = "streaming" <=> Live(t) # {}

\* A message the panel took is in exactly one place: parked, and then it has
\* not run, or a turn of the transcript, and then it has (dequeueTurn: "a turn
\* is never both parked and in flight").  Not where a command crossed an answer.
Places(m, t) == {i \in DOMAIN queued[t] : queued[t][i] = m}
Turns(m, t)  == {i \in DOMAIN script[t] : script[t][i] = Says("user", m)}
Home(m)      == {t \in Threads : Places(m, t) # {} \/ Turns(m, t) # {}}
NothingLost ==
    \A m \in Msgs :
        /\ m \notin taken => Home(m) = {} /\ run[m].at = "none"
        /\ m \in taken /\ crossed = {} => Cardinality(Home(m)) = 1
        /\ \A t \in Home(m) \ crossed :
            /\ Cardinality(Places(m, t)) + Cardinality(Turns(m, t)) = 1
            /\ run[m].at = "none" <=> Turns(m, t) = {}

\* In the transcript every message is followed by its own answer, and only the
\* last one may still be waiting for it, which is why a message is parked and
\* not appended while an answer streams.  Not where a command crossed one.
TranscriptInOrder ==
    \A t \in Threads \ crossed : \A i \in DOMAIN script[t] :
        LET m == script[t][i].msg
        IN  IF script[t][i].who = "assistant"
            THEN i > 1 /\ script[t][i - 1] = Says("user", m)
            ELSE IF i = Len(script[t]) THEN m \in Live(t)
                 ELSE script[t][i + 1] = Says("assistant", m)

\* The two together: queue and transcript of a thread tell one story.
MessagesInPlace == NothingLost /\ TranscriptInOrder

\* A run the front end has done with is not still at work in the sidecar, where
\* it would go on editing with nobody to hear it, unless the process died on
\* the way: an abort waits for the sidecar's word.
NoOrphans ==
    \A m \in Msgs : run[m].at = "over" /\ crashes = 0 => run[m].side = "none"

\* After Stop nothing that was parked starts by itself, however the answer that
\* was stopped ends, until the user sends something in that thread.
StopHolds ==
    [][\A t \in stopped \cap stopped' : \A m \in Msgs :
          Contains(queued[t], m) => Contains(queued'[t], m) \/ m \in gone']_vars

\* A run that nobody need answer, and what it keeps waiting behind it.
Unanswered(m) == Running(m) /\ run[m].side \in {"adrift", "unheard"}
Stuck(m) ==
    \/ Unanswered(m)
    \/ Parked(m) /\ \E x \in Live(visible) : Unanswered(x)

\* Every run comes to an end, and a message parked in the thread on screen
\* runs and comes to an end too, unless the user removes it, holds the queue or
\* looks elsewhere: although the sidecar may die while the run is started, is
\* at work or has just answered, and whatever becomes of the answer before it.
\* Two kinds of run are excepted, with what is parked behind them, for nobody
\* ends these: one that waits for control requests of the SDK (unless the sidecar
\* dies: then it is heard of), and one whose start was put on the client of a
\* sidecar that had died and was not replaced yet.
Settles ==
    \A m \in Msgs :
        Parked(m) \/ Running(m) ~> ~(Parked(m) \/ Running(m)) \/ Stuck(m)
=============================================================================
