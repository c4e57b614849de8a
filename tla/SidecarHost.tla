----------------------------- MODULE SidecarHost ----------------------------
(***************************************************************************)
(* The sidecar processes and their supervision in the Rust half: the       *)
(* JSON-RPC client over a child process (claude_sidecar/client.rs), the    *)
(* manager that starts the processes and respawns them when they die       *)
(* (claude_sidecar/manager.rs), the state it announces (state.rs) and the  *)
(* command that starts a chat (commands.rs).                               *)
(*                                                                         *)
(* An instance is one child process with the tasks around it: the writer   *)
(* of its stdin, the reader of its stdout and the task that waits for its  *)
(* end.  Whoever asks a process something is a caller: the boot, the exit  *)
(* handler of an instance, or a call of claude_chat_start.  A caller has   *)
(* one request at a time; it is pending from its insertion into the        *)
(* client's table until the reader, or one of the two drains that follow   *)
(* the end of the process, takes it out.                                   *)
(*                                                                         *)
(* Tasks run in parallel, so each continuation of a caller is a step of    *)
(* its own.  The backoff before a respawn (half a second at least) outlasts*)
(* the scheduling of a continuation that is ready.                         *)
(***************************************************************************)
EXTENDS Naturals, FiniteSets

CONSTANTS
    Modes,           \* the kinds of sidecar
    Chat,            \* the one that answers chats
    Inst,            \* child processes that may ever be spawned
    Cmds,            \* calls of claude_chat_start
    Boot,            \* spawn_all, as a caller
    None,            \* no instance, no mode
    MaxConsecutive   \* MAX_CONSECUTIVE_RESTARTS

ASSUME NamesAssumption ==
    /\ Chat \in Modes /\ None \notin Inst \cup Modes
    /\ Boot \notin Inst \cup Cmds /\ Inst \cap Cmds = {}
ASSUME BoundsAssumption == MaxConsecutive \in Nat

VARIABLES
    boot,      \* spawn_all: [at, left], left being the modes still to be done
    signedIn,  \* is there an OAuth token to read?
    inst,      \* instance -> its process and tasks (see Fresh)
    cur,       \* mode -> the instance of the manager's client, or None
    state,     \* mode -> the state last announced
    guard,     \* mode -> RestartGuard: consecutive, and has it been a minute?
    exit,      \* instance -> how far the handle_exit of its end is
    req,       \* caller -> its request: [stage, on]
    cmd,       \* call -> how far claude_chat_start is
    gaveUp     \* history: modes that were once announced dead

procVars  == <<inst, req>>
superVars == <<cur, state, guard, exit, gaveUp>>
vars == <<boot, signedIn, procVars, superVars, cmd>>

Callers == {Boot} \cup Inst \cup Cmds
Unborn  == [mode |-> None, alive |-> FALSE, writing |-> FALSE, eof |-> FALSE,
            waited |-> FALSE, kept |-> FALSE, token |-> FALSE]
\* A child of mode m with its tasks (SidecarClient::spawn).
Fresh(m) == [mode |-> m, alive |-> TRUE, writing |-> TRUE, eof |-> FALSE,
             waited |-> FALSE, kept |-> TRUE, token |-> FALSE]

NoReq     == [stage |-> "idle", on |-> None]
NewReq(i) == [stage |-> "new", on |-> i]
Pending   == {"queued", "written", "answered"}

Of(m)  == {i \in Inst : inst[i].mode = m}
Unused == Of(None)
Child  == CHOOSE i \in Unused : TRUE    \* the next process (names do not matter)
OnPipe(i, stages) == {c \in Callers : req[c].on = i /\ req[c].stage \in stages}

\* A caller that only waits to be scheduled.
Ready(c) == req[c].stage \in {"new", "ok", "failed"}

-----------------------------------------------------------------------------
(* The client: requests over the pipes of one process *)

Mark(cs, stage) ==
    [c \in Callers |-> IF c \in cs THEN [req[c] EXCEPT !.stage = stage] ELSE req[c]]

\* request(): into the table, and a frame for the writer; an error if the
\* writer is gone.
Request(c) ==
    /\ req[c].stage = "new"
    /\ req' = Mark({c}, IF inst[req[c].on].writing THEN "queued" ELSE "failed")
    /\ UNCHANGED <<boot, signedIn, inst, superVars, cmd>>

\* writer_loop takes a frame.  The first write to a dead process ends it, and
\* what is still queued goes with it.
WriteFrame(c) ==
    LET i == req[c].on IN
    /\ req[c].stage = "queued"
    /\ req' = Mark(IF inst[i].alive THEN {c} ELSE OnPipe(i, {"queued"}), "written")
    /\ inst' = [inst EXCEPT ![i].writing = inst[i].alive]
    /\ UNCHANGED <<boot, signedIn, superVars, cmd>>

\* notify() to a dead process: a cancel, a decision or an acknowledgement.
Notify(i) ==
    /\ inst[i].writing /\ ~inst[i].alive /\ \E m \in Modes : cur[m] = i
    /\ inst' = [inst EXCEPT ![i].writing = FALSE]
    /\ req' = Mark(OnPipe(i, {"queued"}), "written")
    /\ UNCHANGED <<boot, signedIn, superVars, cmd>>

\* Is the caller's request a setToken?
IsToken(c) == \/ c = Boot /\ boot.at = "token"
              \/ c \in Inst /\ exit[c] = "token"
              \/ c \in Cmds /\ cmd[c] = "token"

\* The process answers.
Respond(c) ==
    LET i == req[c].on IN
    /\ req[c].stage = "written" /\ inst[i].alive
    /\ req' = Mark({c}, "answered")
    /\ inst' = [inst EXCEPT ![i].token = IF IsToken(c) THEN TRUE ELSE @]
    /\ UNCHANGED <<boot, signedIn, superVars, cmd>>

\* reader_loop takes the request out of the table and hands the answer over.
ReadAnswer(c) ==
    /\ req[c].stage = "answered" /\ ~inst[req[c].on].eof
    /\ req' = Mark({c}, "ok")
    /\ UNCHANGED <<boot, signedIn, inst, superVars, cmd>>

\* The process ends for a reason of its own.
Die(i) ==
    /\ inst[i].alive
    /\ inst' = [inst EXCEPT ![i].alive = FALSE]
    /\ UNCHANGED <<boot, signedIn, req, superVars, cmd>>

Drain(i) == Mark(OnPipe(i, Pending), "failed")

Over(i)  == ~inst[i].alive /\ inst[i].kept
Wired    == boot.at \in {"token", "up"}

\* Mutant: the end of the output is handled like the end of the process.
ReadEofHandled(i) ==
    /\ Over(i) /\ ~inst[i].eof /\ OnPipe(i, {"answered"}) = {}
    /\ inst' = [inst EXCEPT ![i].eof = TRUE]
    /\ req' = Drain(i)
    /\ exit' = [exit EXCEPT ![i] = IF Wired THEN "decide" ELSE "missed"]
    /\ UNCHANGED <<boot, signedIn, cur, state, guard, gaveUp, cmd>>

\* reader_loop meets the end of the output: "fail any still-pending requests".
ReadEof(i) ==
    /\ Over(i) /\ ~inst[i].eof /\ OnPipe(i, {"answered"}) = {}
    /\ inst' = [inst EXCEPT ![i].eof = TRUE]
    /\ req' = Drain(i)
    /\ UNCHANGED <<boot, signedIn, superVars, cmd>>

\* The wait task sees the end of the process, drains the table once more and
\* calls the exit handler, which finds the manager if self_ref is set.
WaitEnds(i) ==
    /\ Over(i) /\ ~inst[i].waited
    /\ inst' = [inst EXCEPT ![i].waited = TRUE]
    /\ req' = Drain(i)
    /\ exit' = [exit EXCEPT ![i] = IF Wired THEN "decide" ELSE "missed"]
    /\ UNCHANGED <<boot, signedIn, cur, state, guard, gaveUp, cmd>>

\* Nobody will take anything out of the table any more.
Drained(i) == inst[i].eof /\ inst[i].waited

\* A client that is dropped takes its tasks and its process with it.
Drop(is) == [i \in Inst |-> IF i \in is
                            THEN [inst[i] EXCEPT !.kept = FALSE, !.alive = FALSE]
                            ELSE inst[i]]

-----------------------------------------------------------------------------
(* The manager: spawn_all *)

NextStep == req[Boot].stage \in {"idle", "ok"}

\* One sidecar after the other is spawned and shakes hands; any failure drops
\* them all, and no manager comes to be.
BootSpawn(m) ==
    /\ boot.at = "spawn" /\ m \in boot.left /\ NextStep
    /\ boot' = [boot EXCEPT !.left = @ \ {m}]
    /\ Unused # {} /\ inst' = [inst EXCEPT ![Child] = Fresh(m)]
    /\ req' = [req EXCEPT ![Boot] = NewReq(Child)]
    /\ UNCHANGED <<signedIn, superVars, cmd>>

BootFails ==
    /\ boot.at = "spawn" /\ req[Boot].stage = "failed"
    /\ boot' = [boot EXCEPT !.at = "failed"]
    /\ inst' = Drop(Inst \ Unused)
    /\ req' = [req EXCEPT ![Boot] = NoReq]
    /\ UNCHANGED <<signedIn, superVars, cmd>>

\* The manager is made of what was spawned, and the exit handlers find it.
BootWires ==
    /\ boot.at = "spawn" /\ boot.left = {} /\ req[Boot].stage = "ok"
    /\ boot' = [at |-> "token", left |-> IF signedIn THEN Modes ELSE {}]
    /\ cur' = [m \in Modes |-> CHOOSE i \in Of(m) : TRUE]
    /\ state' = [m \in Modes |-> "running"]
    /\ guard' = [m \in Modes |-> [consecutive |-> 0, old |-> FALSE]]
    /\ req' = [req EXCEPT ![Boot] = NoReq]
    /\ UNCHANGED <<signedIn, inst, exit, gaveUp, cmd>>

\* try_inject_token: one mode after the other, until one fails.
BootToken(m) ==
    /\ boot.at = "token" /\ m \in boot.left /\ NextStep
    /\ m # Chat => Chat \notin boot.left
    /\ boot' = [boot EXCEPT !.left = @ \ {m}]
    /\ req' = [req EXCEPT ![Boot] = NewReq(cur[m])]
    /\ UNCHANGED <<signedIn, inst, superVars, cmd>>

\* app.manage: the commands find the manager.
BootDone ==
    /\ boot.at = "token"
    /\ (boot.left = {} /\ NextStep) \/ req[Boot].stage = "failed"
    /\ boot' = [at |-> "up", left |-> {}]
    /\ req' = [req EXCEPT ![Boot] = NoReq]
    /\ UNCHANGED <<signedIn, inst, superVars, cmd>>

-----------------------------------------------------------------------------
(* The manager: handle_exit *)

ModeOf(i) == inst[i].mode

Announce(m, s) == /\ state' = [state EXCEPT ![m] = s]
                  /\ gaveUp' = IF s = "dead" THEN gaveUp \cup {m} ELSE gaveUp

\* restart_decision: an instance that lived a minute starts a new streak.
Streak(m) == IF guard[m].old THEN 1 ELSE guard[m].consecutive + 1

Decide(i) ==
    LET m == ModeOf(i) IN
    /\ exit[i] = "decide"
    /\ guard' = [guard EXCEPT ![m].consecutive = Streak(m)]
    /\ IF Streak(m) > MaxConsecutive
       THEN Announce(m, "dead") /\ exit' = [exit EXCEPT ![i] = "over"]
       ELSE Announce(m, "restarting") /\ exit' = [exit EXCEPT ![i] = "backoff"]
    /\ UNCHANGED <<boot, signedIn, procVars, cur, cmd>>

\* The backoff is over: restart() spawns a process, if the system lets it.
Respawn(i) ==
    /\ exit[i] = "backoff" /\ \A c \in Callers : ~Ready(c)
    /\ Unused # {} /\ inst' = [inst EXCEPT ![Child] = Fresh(ModeOf(i))]
    /\ req' = [req EXCEPT ![i] = NewReq(Child)]
    /\ exit' = [exit EXCEPT ![i] = "init"]
    /\ UNCHANGED <<boot, signedIn, cur, state, guard, gaveUp, cmd>>

SpawnFails(i) ==
    /\ exit[i] = "backoff" /\ \A c \in Callers : ~Ready(c)
    /\ Announce(ModeOf(i), "dead")
    /\ exit' = [exit EXCEPT ![i] = "over"]
    /\ UNCHANGED <<boot, signedIn, procVars, cur, guard, cmd>>

\* The fresh instance is dated and announced.
Finish(i) ==
    /\ exit' = [exit EXCEPT ![i] = "over"]
    /\ guard' = [guard EXCEPT ![ModeOf(i)].old = FALSE]
    /\ Announce(ModeOf(i), "running")
    /\ req' = [req EXCEPT ![i] = NoReq]

\* The handshake is done: the new client takes the old one's place, and gets
\* the token if there is one.
InitDone(i) ==
    /\ exit[i] = "init" /\ req[i].stage = "ok"
    /\ cur' = [cur EXCEPT ![ModeOf(i)] = req[i].on]
    /\ IF signedIn
       THEN /\ exit' = [exit EXCEPT ![i] = "token"]
            /\ req' = [req EXCEPT ![i] = NewReq(req[i].on)]
            /\ UNCHANGED <<state, guard, gaveUp>>
       ELSE Finish(i)
    /\ UNCHANGED <<boot, signedIn, inst, cmd>>

\* Mutant: a handshake that fails is not announced.
InitFailsSilent(i) ==
    /\ exit[i] = "init" /\ req[i].stage = "failed"
    /\ inst' = Drop({req[i].on})
    /\ exit' = [exit EXCEPT ![i] = "over"]
    /\ req' = [req EXCEPT ![i] = NoReq]
    /\ UNCHANGED <<boot, signedIn, cur, state, gaveUp, guard, cmd>>

\* The new client is dropped before anybody has seen it, and with it the task
\* that would call its exit handler.
InitFails(i) ==
    /\ exit[i] = "init" /\ req[i].stage = "failed"
    /\ inst' = Drop({req[i].on})
    /\ Announce(ModeOf(i), "dead")
    /\ exit' = [exit EXCEPT ![i] = "over"]
    /\ req' = [req EXCEPT ![i] = NoReq]
    /\ UNCHANGED <<boot, signedIn, cur, guard, cmd>>

TokenDone(i) ==
    /\ exit[i] = "token" /\ req[i].stage = "ok"
    /\ Finish(i)
    /\ UNCHANGED <<boot, signedIn, inst, cur, cmd>>

TokenFails(i) ==
    /\ exit[i] = "token" /\ req[i].stage = "failed"
    /\ Announce(ModeOf(i), "dead")
    /\ exit' = [exit EXCEPT ![i] = "over"]
    /\ req' = [req EXCEPT ![i] = NoReq]
    /\ UNCHANGED <<boot, signedIn, inst, cur, guard, cmd>>

\* HEALTHY_UPTIME passes; requests and backoffs take less.
MinutePasses ==
    /\ \E m \in Modes : ~guard[m].old
    /\ \A c \in Callers : req[c].stage # "idle" => Drained(req[c].on)
    /\ \A i \in Inst : exit[i] # "backoff"
    /\ guard' = [m \in Modes |-> [guard[m] EXCEPT !.old = TRUE]]
    /\ UNCHANGED <<boot, signedIn, procVars, cur, state, exit, gaveUp, cmd>>

-----------------------------------------------------------------------------
(* claude_chat_start *)

Ask(k, stage) == /\ cmd' = [cmd EXCEPT ![k] = stage]
                 /\ req' = [req EXCEPT ![k] = NewReq(cur[Chat])]

\* Mutant: the token is pushed only when the manager starts a process.
StartUntokened(k) ==
    /\ boot.at = "up" /\ cmd[k] = "none"
    /\ Ask(k, "chat")
    /\ UNCHANGED <<boot, signedIn, inst, superVars>>

\* The freshest token first, ...
Start(k) ==
    /\ boot.at = "up" /\ cmd[k] = "none"
    /\ Ask(k, IF signedIn THEN "token" ELSE "chat")
    /\ UNCHANGED <<boot, signedIn, inst, superVars>>

\* then the chat, on the client of that moment.
SendChat(k) ==
    /\ cmd[k] = "token" /\ req[k].stage = "ok"
    /\ Ask(k, "chat")
    /\ UNCHANGED <<boot, signedIn, inst, superVars>>

StartEnds(k) ==
    /\ \/ /\ cmd[k] = "chat" /\ req[k].stage = "ok"
          /\ cmd' = [cmd EXCEPT ![k] = "accepted"]
       \/ /\ req[k].stage = "failed"
          /\ cmd' = [cmd EXCEPT ![k] = "rejected"]
    /\ req' = [req EXCEPT ![k] = NoReq]
    /\ UNCHANGED <<boot, signedIn, inst, superVars>>

-----------------------------------------------------------------------------

Init ==
    /\ boot = [at |-> "spawn", left |-> Modes] /\ signedIn \in BOOLEAN
    /\ inst = [i \in Inst |-> Unborn] /\ cur = [m \in Modes |-> None]
    /\ state = [m \in Modes |-> "starting"]
    /\ guard = [m \in Modes |-> [consecutive |-> 0, old |-> FALSE]]
    /\ exit = [i \in Inst |-> "none"] /\ req = [c \in Callers |-> NoReq]
    /\ cmd = [k \in Cmds |-> "none"] /\ gaveUp = {}

BootStep == \/ BootFails \/ BootWires \/ BootDone
            \/ \E m \in Modes : BootSpawn(m) \/ BootToken(m)
PipeStep(c)  == Request(c) \/ WriteFrame(c) \/ Respond(c) \/ ReadAnswer(c)
TaskStep(i)  == ReadEof(i) \/ WaitEnds(i)
ExitStep(i)  == \/ Decide(i) \/ Respawn(i) \/ SpawnFails(i) \/ InitDone(i)
                \/ InitFails(i) \/ TokenDone(i) \/ TokenFails(i)
StartStep(k) == SendChat(k) \/ StartEnds(k)

\* What nobody has to do.
Environment == \/ MinutePasses
               \/ \E i \in Inst : Die(i) \/ Notify(i)
               \/ \E k \in Cmds : Start(k)

Next == \/ Environment \/ BootStep
        \/ \E c \in Callers : PipeStep(c)
        \/ \E i \in Inst : TaskStep(i) \/ ExitStep(i)
        \/ \E k \in Cmds : StartStep(k)

Spec == Init /\ [][Next]_vars

\* Tasks are scheduled, a live process answers, timers fire.
FairSpec ==
    /\ Spec /\ WF_vars(BootStep)
    /\ \A c \in Callers : WF_vars(PipeStep(c))
    /\ \A i \in Inst : WF_vars(ReadEof(i)) /\ WF_vars(WaitEnds(i)) /\ WF_vars(ExitStep(i))
    /\ \A k \in Cmds : WF_vars(StartStep(k))

-----------------------------------------------------------------------------

\* Two processes of one mode would answer one chat twice: the respawn of a mode
\* waits for the end of the process before it, however often processes die and
\* handlers overlap.
OneProcess ==
    \A m \in Modes : \A i, j \in Of(m) : inst[i].alive /\ inst[j].alive => i = j

\* A chat is accepted only by a process that has the token, if there is one,
\* although processes come and go between the setToken and the chat.
ChatHasToken ==
    \A k \in Cmds : cmd[k] = "chat" /\ req[k].stage \in {"answered", "ok"} /\ signedIn
                        => inst[req[k].on].token

Lives(m) == \E i \in Of(m) : cur[m] = i /\ inst[i].alive

\* "we respawn the affected sidecar in place": once the manager is wired, a mode
\* whose process has died gets a live one, or is announced dead, unless the end
\* was noticed before there was a manager to handle it.
Recovers ==
    \A m \in Modes :
        Wired /\ ~Lives(m) /\ exit[cur[m]] # "missed" ~> Lives(m) \/ m \in gaveUp

=============================================================================
