------------------------- MODULE SidecarHostProofs -------------------------
(***************************************************************************)
(* That no mode ever has two live processes, and that no chat is accepted by*)
(* a process without the token, for any number of modes, processes and calls.*)
(*                                                                         *)
(* The first argument: at any time at most one instance of a mode leads, that*)
(* is, has an end that somebody still has to notice or an exit handler that*)
(* may still respawn.  A respawn hands the lead over.                      *)
(***************************************************************************)
EXTENDS SidecarHost, TLAPS

InstRec == [mode : Modes \cup {None}, alive : BOOLEAN, writing : BOOLEAN,
            eof : BOOLEAN, waited : BOOLEAN, kept : BOOLEAN, token : BOOLEAN]

Leads(i) == \/ inst[i].kept /\ ~inst[i].waited
            \/ exit[i] \in {"decide", "backoff"}

\* The types that the argument rests on.
Types ==
    /\ inst \in [Inst -> InstRec]
    /\ DOMAIN exit = Inst

\* A process that lives is kept and its end is not noticed; a handler runs only
\* after the end of its instance; what was never spawned has neither.
Ends ==
    \A i \in Inst :
        /\ inst[i].alive => inst[i].kept /\ ~inst[i].waited
        /\ exit[i] # "none" => inst[i].waited
        /\ inst[i].kept \/ inst[i].waited => inst[i].mode # None

\* The boot spawns a mode only once.
BootOnce ==
    /\ boot \in [at : {"spawn", "token", "up", "failed"}, left : SUBSET Modes]
    /\ boot.at = "spawn" => \A m \in boot.left : Of(m) = {}

OneLeader ==
    \A i, j \in Inst :
        Leads(i) /\ Leads(j) /\ inst[i].mode = inst[j].mode => i = j

IInv == Types /\ Ends /\ BootOnce /\ OneLeader

-----------------------------------------------------------------------------

\* A step that changes neither who leads nor what is spawned keeps IInv.
LEMMA SameProcesses ==
    ASSUME IInv, UNCHANGED <<inst, exit, boot>>
    PROVE  IInv'
BY DEF IInv, Types, Ends, BootOnce, OneLeader, Leads, Of

\* The child that is spawned next was none before.
LEMMA ChildIsNew ==
    ASSUME Unused # {}
    PROVE  Child \in Inst /\ inst[Child].mode = None
BY DEF Unused, Child, Of

LEMMA FreshType == \A m \in Modes : Fresh(m) \in InstRec
BY DEF Fresh, InstRec

\* A step that changes no more of one instance than what pipes and tokens know
\* of it, or lets it die.
LEMMA PipesKeep ==
    ASSUME IInv, UNCHANGED <<exit, boot>>, NEW i, NEW r,
           inst' = [inst EXCEPT ![i] = r],
           i \in Inst => /\ r \in InstRec /\ r.mode = inst[i].mode
                         /\ r.alive => inst[i].alive
                         /\ r.kept = inst[i].kept /\ r.waited = inst[i].waited
    PROVE  IInv'
<1>1. /\ inst' \in [Inst -> InstRec]
      /\ \A j \in Inst : inst'[j] = IF j = i THEN r ELSE inst[j]
  BY DEF IInv, Types
<1>2. \A j \in Inst : /\ inst'[j].mode = inst[j].mode
                      /\ inst'[j].alive => inst[j].alive
                      /\ inst'[j].kept = inst[j].kept
                      /\ inst'[j].waited = inst[j].waited
  BY <1>1
<1> QED BY <1>1, <1>2 DEF IInv, Types, Ends, BootOnce, OneLeader, Leads, Of

\* The steps of the client: processes write, read, die and are waited for.
LEMMA ClientKeeps ==
    ASSUME IInv,
           \/ \E c \in Callers : PipeStep(c)
           \/ \E i \in Inst : TaskStep(i) \/ Die(i) \/ Notify(i)
    PROVE  IInv'
<1>1. ASSUME NEW c \in Callers, Request(c) \/ ReadAnswer(c)
      PROVE  IInv'
  BY <1>1, SameProcesses DEF Request, ReadAnswer, superVars
<1>2. ASSUME NEW c \in Callers, WriteFrame(c)
      PROVE  IInv'
  <2> DEFINE i == req[c].on
             r == [inst[i] EXCEPT !.writing = inst[i].alive]
  <2>1. inst' = [inst EXCEPT ![i] = r] /\ UNCHANGED <<exit, boot>>
    BY <1>2 DEF WriteFrame, superVars
  <2>2. i \in Inst => /\ r \in InstRec
                      /\ r.mode = inst[i].mode /\ r.alive = inst[i].alive
                      /\ r.kept = inst[i].kept /\ r.waited = inst[i].waited
    BY DEF IInv, Types, InstRec
  <2> HIDE DEF r, i
  <2> QED BY <2>1, <2>2, PipesKeep
<1>3. ASSUME NEW c \in Callers, Respond(c)
      PROVE  IInv'
  <2> DEFINE i == req[c].on
             r == [inst[i] EXCEPT !.token = IF IsToken(c) THEN TRUE ELSE @]
  <2>1. inst' = [inst EXCEPT ![i] = r] /\ UNCHANGED <<exit, boot>>
    BY <1>3 DEF Respond, superVars
  <2>2. i \in Inst => /\ r \in InstRec
                      /\ r.mode = inst[i].mode /\ r.alive = inst[i].alive
                      /\ r.kept = inst[i].kept /\ r.waited = inst[i].waited
    BY DEF IInv, Types, InstRec
  <2> HIDE DEF r, i
  <2> QED BY <2>1, <2>2, PipesKeep
<1>4. ASSUME NEW i \in Inst, Notify(i) \/ ReadEof(i) \/ Die(i)
      PROVE  IInv'
  <2>1. UNCHANGED <<exit, boot>> /\ inst[i] \in InstRec
    BY <1>4 DEF Notify, ReadEof, Die, superVars, IInv, Types
  <2>2. CASE Notify(i)
    <3>1. inst' = [inst EXCEPT ![i] = [inst[i] EXCEPT !.writing = FALSE]]
      BY <2>2 DEF Notify
    <3> QED BY <2>1, <3>1, PipesKeep DEF InstRec
  <2>3. CASE ReadEof(i)
    <3>1. inst' = [inst EXCEPT ![i] = [inst[i] EXCEPT !.eof = TRUE]]
      BY <2>3 DEF ReadEof
    <3> QED BY <2>1, <3>1, PipesKeep DEF InstRec
  <2>4. CASE Die(i)
    <3>1. inst' = [inst EXCEPT ![i] = [inst[i] EXCEPT !.alive = FALSE]]
      BY <2>4 DEF Die
    <3> QED BY <2>1, <3>1, PipesKeep DEF InstRec
  <2> QED BY <1>4, <2>2, <2>3, <2>4
<1>5. ASSUME NEW i \in Inst, WaitEnds(i)
      PROVE  IInv'
  <2>1. /\ inst' \in [Inst -> InstRec] /\ DOMAIN exit' = Inst /\ boot' = boot
        /\ inst[i].kept /\ ~inst[i].waited /\ ~inst[i].alive
        /\ inst'[i].waited
        /\ \A j \in Inst : /\ inst'[j].mode = inst[j].mode
                           /\ inst'[j].alive = inst[j].alive
                           /\ inst'[j].kept = inst[j].kept
        /\ \A j \in Inst \ {i} : /\ inst'[j].waited = inst[j].waited
                                 /\ exit'[j] = exit[j]
    BY <1>5 DEF WaitEnds, Over, IInv, Types, InstRec
  <2> QED BY <2>1 DEF IInv, Types, Ends, BootOnce, OneLeader, Leads, Of
<1> QED BY <1>1, <1>2, <1>3, <1>4, <1>5 DEF PipeStep, TaskStep

\* Dropping clients makes nobody a leader.
LEMMA DropKeeps ==
    ASSUME IInv, NEW is, inst' = Drop(is),
           boot' \in [at : {"spawn", "token", "up", "failed"}, left : SUBSET Modes],
           boot'.at = "spawn" => boot' = boot,
           DOMAIN exit' = Inst,
           \A i \in Inst : \/ exit'[i] = exit[i]
                           \/ exit'[i] = "over" /\ exit[i] # "none"
    PROVE  IInv'
<1>1. ASSUME NEW i \in Inst
      PROVE  /\ inst'[i] \in InstRec
             /\ inst'[i].mode = inst[i].mode /\ inst'[i].waited = inst[i].waited
             /\ inst'[i].alive => inst[i].alive /\ inst'[i].kept
             /\ inst'[i].kept => inst[i].kept
  <2>1. inst[i] \in InstRec /\ (inst[i].alive => inst[i].kept)
    BY DEF IInv, Types, Ends
  <2>2. inst'[i] = IF i \in is
                   THEN [inst[i] EXCEPT !.kept = FALSE, !.alive = FALSE]
                   ELSE inst[i]
    BY DEF Drop
  <2> QED BY <2>1, <2>2 DEF InstRec
<1>2. inst' \in [Inst -> InstRec]
  BY <1>1 DEF Drop
<1> QED BY <1>1, <1>2 DEF IInv, Types, Ends, BootOnce, OneLeader, Leads, Of

\* The boot.
LEMMA BootKeeps ==
    ASSUME IInv, BootStep
    PROVE  IInv'
<1>1. ASSUME NEW m \in Modes, BootSpawn(m)
      PROVE  IInv'
  <2>1. /\ Child \in Inst /\ inst[Child].mode = None
        /\ m \in boot.left /\ boot.at = "spawn" /\ m # None
    BY <1>1, ChildIsNew, NamesAssumption DEF BootSpawn
  <2>2. /\ inst' = [inst EXCEPT ![Child] = Fresh(m)] /\ exit' = exit
        /\ boot' = [boot EXCEPT !.left = @ \ {m}]
    BY <1>1 DEF BootSpawn, superVars
  <2>3. /\ inst' \in [Inst -> InstRec] /\ inst'[Child] = Fresh(m)
        /\ \A j \in Inst \ {Child} : inst'[j] = inst[j]
    BY <2>1, <2>2, FreshType DEF IInv, Types
  <2>4. \A j \in Inst : inst[j].mode # m
    BY <2>1 DEF IInv, BootOnce, Of
  <2>5. exit[Child] = "none"
    BY <2>1 DEF IInv, Ends
  <2>6. Ends'
    BY <2>1, <2>2, <2>3, <2>5 DEF IInv, Ends, Fresh
  <2>7. BootOnce'
    BY <2>1, <2>2, <2>3, <2>4 DEF IInv, BootOnce, Of, Fresh
  <2>8. OneLeader'
    BY <2>1, <2>2, <2>3, <2>4, <2>5 DEF IInv, OneLeader, Leads, Fresh
  <2> QED BY <2>2, <2>3, <2>6, <2>7, <2>8 DEF IInv, Types
<1>2. ASSUME BootFails
      PROVE  IInv'
  BY <1>2, DropKeeps DEF BootFails, superVars, IInv, BootOnce, Types
<1>3. ASSUME NEW m \in Modes, BootToken(m)
      PROVE  IInv'
  BY <1>3 DEF BootToken, superVars, IInv, Types, Ends, BootOnce, OneLeader, Leads, Of
<1>4. ASSUME BootWires \/ BootDone
      PROVE  IInv'
  BY <1>4 DEF BootWires, BootDone, superVars, IInv, Types, Ends, BootOnce,
              OneLeader, Leads, Of
<1> QED BY <1>1, <1>2, <1>3, <1>4 DEF BootStep

\* The exit handlers.
LEMMA ExitKeeps ==
    ASSUME IInv, NEW i \in Inst, ExitStep(i)
    PROVE  IInv'
<1>1. CASE Respawn(i)
  <2> DEFINE m == inst[i].mode
  <2>1. /\ Child \in Inst /\ inst[Child].mode = None /\ exit[i] = "backoff"
        /\ inst' = [inst EXCEPT ![Child] = Fresh(m)]
        /\ exit' = [exit EXCEPT ![i] = "init"] /\ boot' = boot
    BY <1>1, ChildIsNew DEF Respawn, ModeOf
  <2>2. inst[i].waited /\ m # None /\ m \in Modes /\ i # Child
    BY <2>1 DEF IInv, Ends, Types, InstRec
  <2>3. /\ inst' \in [Inst -> InstRec] /\ inst'[Child] = Fresh(m)
        /\ \A j \in Inst \ {Child} : inst'[j] = inst[j]
        /\ DOMAIN exit' = Inst /\ exit'[i] = "init"
        /\ \A j \in Inst \ {i} : exit'[j] = exit[j]
    BY <2>1, <2>2, FreshType DEF IInv, Types
  <2>4. exit[Child] = "none"
    BY <2>1 DEF IInv, Ends
  <2>5. \A j \in Inst : Leads(j) /\ inst[j].mode = m => j = i
    BY <2>1 DEF IInv, OneLeader, Leads
  <2>6. Ends'
    BY <2>1, <2>2, <2>3, <2>4 DEF IInv, Ends, Fresh
  <2>7. BootOnce'
    BY <2>1, <2>2, <2>3 DEF IInv, BootOnce, Of, Fresh
  <2>8. OneLeader'
    BY <2>1, <2>2, <2>3, <2>4, <2>5 DEF IInv, OneLeader, Leads, Fresh
  <2> QED BY <2>3, <2>6, <2>7, <2>8 DEF IInv, Types
<1>2. CASE InitFails(i)
  BY <1>2, DropKeeps DEF InitFails, IInv, Types, BootOnce
<1>3. CASE Decide(i)
  <2>1. /\ inst' = inst /\ boot' = boot /\ DOMAIN exit' = Inst
        /\ exit[i] = "decide" /\ exit'[i] \in {"over", "backoff"}
        /\ \A j \in Inst \ {i} : exit'[j] = exit[j]
    BY <1>3 DEF Decide, procVars, IInv, Types
  <2> QED BY <2>1 DEF IInv, Types, Ends, BootOnce, OneLeader, Leads, Of
<1>4. CASE SpawnFails(i) \/ InitDone(i) \/ TokenDone(i) \/ TokenFails(i)
  <2>1. /\ inst' = inst /\ boot' = boot /\ DOMAIN exit' = Inst
        /\ exit[i] # "none" /\ exit'[i] \in {"over", "token"}
        /\ \A j \in Inst \ {i} : exit'[j] = exit[j]
    BY <1>4 DEF SpawnFails, InitDone, TokenDone, TokenFails, Finish, procVars,
                IInv, Types
  <2> QED BY <2>1 DEF IInv, Types, Ends, BootOnce, OneLeader, Leads, Of
<1> QED BY <1>1, <1>2, <1>3, <1>4 DEF ExitStep

LEMMA IInvInit == Init => IInv
BY NamesAssumption DEF Init, IInv, Types, InstRec, Unborn, Ends, BootOnce,
                       OneLeader, Leads, Of

LEMMA IInvNext == IInv /\ [Next]_vars => IInv'
<1> SUFFICES ASSUME IInv, [Next]_vars PROVE IInv'
  OBVIOUS
<1>1. CASE MinutePasses
  BY <1>1, SameProcesses DEF MinutePasses, procVars
<1>2. CASE \E k \in Cmds : Start(k) \/ StartStep(k)
  BY <1>2, SameProcesses DEF Start, StartStep, SendChat, StartEnds, superVars
<1>3. CASE UNCHANGED vars
  BY <1>3, SameProcesses DEF vars, procVars, superVars
<1> QED BY <1>1, <1>2, <1>3, ClientKeeps, BootKeeps, ExitKeeps
        DEF Next, Environment

-----------------------------------------------------------------------------

\* No mode ever has two live processes: manager.rs respawns "the affected
\* sidecar in place".
THEOREM OneProcessAlways == Spec => []OneProcess
<1>1. IInv => OneProcess
  BY DEF IInv, Types, Ends, OneLeader, Leads, OneProcess, Of
<1> QED BY <1>1, IInvInit, IInvNext, PTL DEF Spec
-----------------------------------------------------------------------------
(* A chat comes to a process that has the token.  The chat goes to the      *)
(* client of the moment, which may not be the one that has answered the     *)
(* setToken before it: the argument is that no setToken is answered between *)
(* the end of a process and the moment its successor takes its place.       *)

Calling(k) == cmd[k] \in {"token", "chat"}
Held(i, m) == i \in Inst /\ inst[i].kept /\ inst[i].mode = m

\* A handshake that may still succeed.
Hopeful(i) ==
    exit[i] = "init" /\ (req[i].stage = "ok" \/ ~inst[req[i].on].waited)

CallTypes ==
    /\ req \in [Callers -> [stage : {"idle", "new", "ok", "failed"} \cup Pending,
                            on : Inst \cup {None}]]
    /\ \A c \in Callers : req[c].stage # "idle" => req[c].on \in Inst
    /\ cmd \in [Cmds -> {"none", "token", "chat", "accepted", "rejected"}]
    /\ DOMAIN cur = Modes

\* The boot spawns every mode before it wires the manager, handlers find nothing
\* to do before that, and commands do not come before its end.
BootFirst ==
    /\ boot.at = "spawn" =>
          /\ \A i \in Inst : inst[i].mode # None => inst[i].kept
          /\ \A m \in Modes \ boot.left : Of(m) # {}
    /\ boot.at \notin {"token", "up"} => \A i \in Inst : exit[i] \in {"none", "missed"}
    /\ boot.at # "up" => \A k \in Cmds : cmd[k] = "none" /\ req[k].stage = "idle"

\* Whoever has a client at hand keeps it.
ClientsHeld ==
    /\ boot.at \in {"token", "up"} => \A m \in Modes : Held(cur[m], m)
    /\ \A k \in Cmds : Calling(k) => Held(req[k].on, Chat)
    /\ \A i \in Inst : exit[i] = "init" => Held(req[i].on, inst[i].mode)

\* Nobody else knows the client that a handler is shaking hands with.
Hidden ==
    \A i \in Inst : exit[i] = "init" =>
        /\ \A m \in Modes : cur[m] # req[i].on
        /\ \A k \in Cmds : Calling(k) => req[k].on # req[i].on
        /\ \A j \in Inst \ {i} : exit[j] = "init" => req[j].on # req[i].on

\* The drain after the end of a process has taken every answer with it.
WaitedSilent ==
    \A c \in Callers : req[c].stage = "answered" => ~inst[req[c].on].waited

\* Nobody has been told of a token by the process whose successor is coming.
NoneTold ==
    /\ cur[Chat] \in Inst /\ inst[cur[Chat]].waited
    /\ \A k \in Cmds : /\ Calling(k) => inst[req[k].on].waited
                       /\ cmd[k] = "token" => req[k].stage # "ok"

HandsOver ==
    \A i \in Inst : Hopeful(i) =>
        /\ \A j \in Inst : Hopeful(j) /\ inst[j].mode = inst[i].mode => i = j
        /\ inst[i].mode = Chat => NoneTold

\* Who may still hear something is talking to the client of the moment.
OnCurrent ==
    \A k \in Cmds :
        /\ Calling(k) /\ ~inst[req[k].on].waited => req[k].on = cur[Chat]
        /\ cmd[k] = "token" /\ req[k].stage = "ok" => req[k].on = cur[Chat]

Tokened ==
    \A k \in Cmds :
        /\ cmd[k] = "token" /\ req[k].stage \in {"answered", "ok"} => inst[req[k].on].token
        /\ cmd[k] = "chat" /\ signedIn => inst[req[k].on].token

TokenInv == /\ IInv /\ CallTypes /\ BootFirst /\ ClientsHeld /\ Hidden
            /\ WaitedSilent /\ HandsOver /\ OnCurrent /\ Tokened

LEMMA CallersApart ==
    /\ Cmds \subseteq Callers /\ Inst \subseteq Callers /\ Boot \in Callers
    /\ Boot \notin Inst /\ Boot \notin Cmds /\ Inst \cap Cmds = {}
    /\ None \notin Inst /\ None \notin Modes /\ Chat \in Modes
BY NamesAssumption DEF Callers

LEMMA TokenInit == Init => TokenInv
<1> SUFFICES ASSUME Init PROVE TokenInv
  OBVIOUS
<1>1. IInv
  BY IInvInit
<1>2. CallTypes /\ BootFirst /\ ClientsHeld
  BY CallersApart DEF Init, CallTypes, BootFirst, ClientsHeld, NoReq, Pending, Calling,
                      Held, Of, Unborn
<1>3. Hidden /\ WaitedSilent /\ HandsOver /\ OnCurrent /\ Tokened
  BY CallersApart DEF Init, Hidden, WaitedSilent, HandsOver, Hopeful, OnCurrent, Tokened,
                      NoReq, Calling, Unborn
<1> QED BY <1>1, <1>2, <1>3 DEF TokenInv

\* A step of the pipes: requests stay with their processes, and an answer comes
\* only from a process whose end is not noticed.
LEMMA PipesTell ==
    ASSUME TokenInv, IInv', CallTypes', UNCHANGED <<boot, signedIn, cur, cmd>>,
           \A c \in Callers : /\ req'[c].on = req[c].on
                              /\ req[c].stage = "idle" => req'[c].stage = "idle"
                              /\ req'[c].stage = "ok" => req[c].stage \in {"ok", "answered"},
           \A i \in Inst : /\ inst'[i].mode = inst[i].mode /\ inst'[i].kept = inst[i].kept
                           /\ inst[i].waited => inst'[i].waited
                           /\ inst[i].token => inst'[i].token
                           /\ \/ exit'[i] = exit[i]
                              \/ /\ exit[i] = "none"
                                 /\ exit'[i] = IF Wired THEN "decide" ELSE "missed",
           WaitedSilent',
           \A k \in Cmds : cmd[k] = "token" /\ req'[k].stage = "answered" =>
                               req[k].stage = "answered" \/ inst'[req[k].on].token
    PROVE  TokenInv'
<1> USE CallersApart
<1>1. BootFirst'
  <2>1. /\ boot.at = "spawn" => \A m \in Modes \ boot.left : Of(m)' # {}
        /\ boot.at = "spawn" => \A i \in Inst : inst'[i].mode # None => inst'[i].kept
    BY DEF TokenInv, BootFirst, Of
  <2>2. boot.at \notin {"token", "up"} => \A i \in Inst : exit'[i] \in {"none", "missed"}
    BY DEF TokenInv, BootFirst, Wired
  <2>3. boot.at # "up" => \A k \in Cmds : cmd'[k] = "none" /\ req'[k].stage = "idle"
    BY DEF TokenInv, BootFirst
  <2> QED BY <2>1, <2>2, <2>3 DEF BootFirst
<1>2. ClientsHeld'
  <2>1. \A i, m : Held(i, m) => Held(i, m)'
    BY DEF Held
  <2>2. \A i \in Inst : exit'[i] = "init" => exit[i] = "init"
    OBVIOUS
  <2>3. boot.at \in {"token", "up"} => \A m \in Modes : Held(cur[m], m)'
    BY <2>1 DEF TokenInv, ClientsHeld
  <2>4. \A k \in Cmds : Calling(k) => Held(req[k].on, Chat)'
    BY DEF TokenInv, ClientsHeld, Held
  <2>5. \A i \in Inst : exit[i] = "init" => Held(req[i].on, inst[i].mode)'
    BY DEF TokenInv, ClientsHeld, Held
  <2> QED BY <2>2, <2>3, <2>4, <2>5 DEF ClientsHeld, Calling
<1>3. Hidden'
  BY DEF TokenInv, Hidden, Calling
<1>4. \A i \in Inst : exit'[i] = "init" => exit[i] = "init"
  OBVIOUS
<1>5. \A c \in Callers : req'[c].stage = "ok" /\ req[c].stage # "ok" =>
                              ~inst[req[c].on].waited
  BY DEF TokenInv, WaitedSilent
<1>6. \A i \in Inst : Hopeful(i)' => Hopeful(i) /\ req[i].on \in Inst
  BY <1>4, <1>5 DEF Hopeful, TokenInv, ClientsHeld, Held
<1>7. NoneTold => NoneTold'
  BY SMTT(20), <1>5 DEF TokenInv, CallTypes, ClientsHeld, Held, NoneTold, Calling
<1>8. HandsOver'
  BY <1>6, <1>7 DEF TokenInv, HandsOver
<1>9. OnCurrent'
  BY <1>5 DEF TokenInv, ClientsHeld, Held, OnCurrent, Calling
<1>10. Tokened'
  BY DEF TokenInv, ClientsHeld, Held, Tokened, Calling
<1> QED BY <1>1, <1>2, <1>3, <1>8, <1>9, <1>10 DEF TokenInv

\* What Mark does to a request.
LEMMA Marked ==
    ASSUME NEW cs, NEW stage, req' = Mark(cs, stage), CallTypes,
           stage \in {"ok", "failed"} \cup Pending, UNCHANGED <<cmd, cur>>,
           \A c \in cs \cap Callers : req[c].stage # "idle"
    PROVE  /\ CallTypes'
           /\ \A c \in Callers : /\ req'[c].on = req[c].on
                                 /\ req[c].stage = "idle" => req'[c].stage = "idle"
                                 /\ req'[c].stage = IF c \in cs THEN stage ELSE req[c].stage
<1>1. ASSUME NEW c \in Callers
      PROVE  /\ req'[c] \in [stage : {"idle", "new", "ok", "failed"} \cup Pending,
                             on : Inst \cup {None}]
             /\ req'[c].on = req[c].on
             /\ req'[c].stage = IF c \in cs THEN stage ELSE req[c].stage
  BY DEF CallTypes, Mark
<1>2. req' \in [Callers -> [stage : {"idle", "new", "ok", "failed"} \cup Pending,
                            on : Inst \cup {None}]]
  BY <1>1 DEF Mark
<1> QED BY <1>1, <1>2 DEF CallTypes

LEMMA PipeStepsTell ==
    ASSUME TokenInv,
           \/ \E c \in Callers : PipeStep(c)
           \/ \E i \in Inst : TaskStep(i) \/ Die(i) \/ Notify(i)
    PROVE  TokenInv'
<1> USE CallersApart
<1>1. IInv'
  BY ClientKeeps DEF TokenInv
<1>2. CallTypes /\ Types /\ Ends /\ WaitedSilent
  BY DEF TokenInv, IInv
<1>3. ASSUME NEW c \in Callers, Request(c)
      PROVE  TokenInv'
  <2>1. PICK stage \in {"queued", "failed"} : req' = Mark({c}, stage)
    BY <1>3 DEF Request
  <2>2. /\ CallTypes' /\ UNCHANGED <<boot, signedIn, cur, cmd, inst, exit>>
        /\ \A d \in Callers : /\ req'[d].on = req[d].on
                              /\ req[d].stage = "idle" => req'[d].stage = "idle"
                              /\ req'[d].stage = IF d \in {c} THEN stage ELSE req[d].stage
    BY ZenonT(30), <1>2, <1>3, <2>1, Marked DEF Request, superVars, Pending
  <2>3. WaitedSilent'
    BY <1>2, <2>2 DEF WaitedSilent
  <2> QED BY <1>1, <2>2, <2>3, PipesTell
<1>4. ASSUME NEW c \in Callers, ReadAnswer(c)
      PROVE  TokenInv'
  <2>1. req' = Mark({c}, "ok") /\ req[c].stage = "answered"
    BY <1>4 DEF ReadAnswer
  <2>2. /\ CallTypes' /\ UNCHANGED <<boot, signedIn, cur, cmd, inst, exit>>
        /\ \A d \in Callers : /\ req'[d].on = req[d].on
                              /\ req[d].stage = "idle" => req'[d].stage = "idle"
                              /\ req'[d].stage = IF d \in {c} THEN "ok" ELSE req[d].stage
    <3>1. UNCHANGED <<boot, signedIn, cur, cmd, inst, exit>>
      BY <1>4 DEF ReadAnswer, superVars
    <3>2. \A d \in {c} \cap Callers : req[d].stage # "idle"
      BY <2>1
    <3> QED BY <1>2, <2>1, <3>1, <3>2, Marked
  <2>3. WaitedSilent'
    BY <1>2, <2>2 DEF WaitedSilent
  <2> QED BY <1>1, <2>1, <2>2, <2>3, PipesTell
<1>5. ASSUME NEW c \in Callers, WriteFrame(c)
      PROVE  TokenInv'
  <2>1. PICK cs : /\ req' = Mark(cs, "written")
                  /\ \A d \in cs \cap Callers : req[d].stage # "idle"
    <3>1. req[c].stage # "idle"
      BY <1>5 DEF WriteFrame
    <3>2. CASE inst[req[c].on].alive
      BY <1>5, <3>1, <3>2 DEF WriteFrame
    <3>3. CASE ~inst[req[c].on].alive
      <4>1. req' = Mark(OnPipe(req[c].on, {"queued"}), "written")
        BY <1>5, <3>3 DEF WriteFrame
      <4> QED BY <4>1 DEF OnPipe
    <3> QED BY <3>2, <3>3
  <2>2. /\ CallTypes' /\ UNCHANGED <<boot, signedIn, cur, cmd, exit>>
        /\ \A d \in Callers : /\ req'[d].on = req[d].on
                              /\ req[d].stage = "idle" => req'[d].stage = "idle"
                              /\ req'[d].stage = IF d \in cs THEN "written" ELSE req[d].stage
    <3>1. UNCHANGED <<boot, signedIn, cur, cmd, exit>>
      BY <1>5 DEF WriteFrame, superVars
    <3> QED BY <1>2, <2>1, <3>1, Marked DEF Pending
  <2>3. \A i \in Inst : /\ inst'[i].mode = inst[i].mode /\ inst'[i].kept = inst[i].kept
                        /\ inst'[i].waited = inst[i].waited
                        /\ inst'[i].token = inst[i].token
    BY <1>2, <1>5 DEF WriteFrame, Types, InstRec
  <2>4. WaitedSilent'
    <3> SUFFICES ASSUME NEW d \in Callers, req'[d].stage = "answered"
                 PROVE  ~inst'[req'[d].on].waited
      BY DEF WaitedSilent
    <3>1. req[d].stage = "answered" /\ ~inst[req[d].on].waited
      BY <1>2, <2>2 DEF WaitedSilent
    <3>2. inst' = [inst EXCEPT ![req[c].on].writing = inst[req[c].on].alive]
      BY <1>5 DEF WriteFrame
    <3>3. inst'[req[d].on].waited = inst[req[d].on].waited
      <4>1. CASE req[d].on \in Inst
        BY <2>3, <4>1
      <4>2. CASE req[d].on \notin Inst
        BY <1>2, <3>2, <4>2 DEF Types
      <4> QED BY <4>1, <4>2
    <3> QED BY <2>2, <3>1, <3>3
  <2> QED BY <1>1, <2>2, <2>3, <2>4, PipesTell
<1>6. ASSUME NEW c \in Callers, Respond(c)
      PROVE  TokenInv'
  <2>1. PICK i : i = req[c].on
    OBVIOUS
  <2>2. /\ req' = Mark({c}, "answered") /\ req[c].stage = "written"
        /\ i \in Inst /\ inst[i].alive /\ ~inst[i].waited
    BY <1>2, <1>6, <2>1 DEF Respond, CallTypes, Ends
  <2>3. /\ CallTypes' /\ UNCHANGED <<boot, signedIn, cur, cmd, exit>>
        /\ \A d \in Callers : /\ req'[d].on = req[d].on
                              /\ req[d].stage = "idle" => req'[d].stage = "idle"
                              /\ req'[d].stage = IF d \in {c} THEN "answered" ELSE req[d].stage
    <3>1. UNCHANGED <<boot, signedIn, cur, cmd, exit>>
      BY <1>6 DEF Respond, superVars
    <3>2. \A d \in {c} \cap Callers : req[d].stage # "idle"
      BY <2>2
    <3> QED BY <1>2, <2>2, <3>1, <3>2, Marked DEF Pending
  <2>4. inst' = [inst EXCEPT ![i].token = IF IsToken(c) THEN TRUE ELSE @]
    BY <1>6, <2>1 DEF Respond
  <2>5. \A j \in Inst : /\ inst'[j].mode = inst[j].mode /\ inst'[j].kept = inst[j].kept
                        /\ inst'[j].waited = inst[j].waited
                        /\ inst[j].token => inst'[j].token
    BY <1>2, <2>2, <2>4 DEF Types, InstRec
  <2>6. WaitedSilent'
    <3> SUFFICES ASSUME NEW d \in Callers, req'[d].stage = "answered"
                 PROVE  ~inst'[req'[d].on].waited
      BY DEF WaitedSilent
    <3>1. CASE d = c
      BY <2>1, <2>2, <2>3, <2>5, <3>1
    <3>2. CASE d # c
      <4>1. req[d].stage = "answered" /\ req[d].on \in Inst
        BY <1>2, <2>3, <3>2 DEF CallTypes
      <4> QED BY <1>2, <2>3, <2>5, <4>1 DEF WaitedSilent
    <3> QED BY <3>1, <3>2
  <2>7. ASSUME NEW k \in Cmds, cmd[k] = "token", req'[k].stage = "answered"
        PROVE  req[k].stage = "answered" \/ inst'[req[k].on].token
    <3>1. CASE k = c
      <4>1. IsToken(c)
        BY <2>7, <3>1 DEF IsToken
      <4> QED BY <1>2, <2>1, <2>2, <2>4, <3>1, <4>1 DEF Types, InstRec
    <3>2. CASE k # c
      BY <2>3, <2>7, <3>2
    <3> QED BY <3>1, <3>2
  <2> QED BY <1>1, <2>3, <2>5, <2>6, <2>7, PipesTell
<1>7. ASSUME NEW i \in Inst, ReadEof(i) \/ WaitEnds(i)
      PROVE  TokenInv'
  <2>1. /\ req' = Mark(OnPipe(i, Pending), "failed")
        /\ \A d \in OnPipe(i, Pending) \cap Callers : req[d].stage # "idle"
    BY <1>7 DEF ReadEof, WaitEnds, Drain, OnPipe, Pending
  <2>2. /\ CallTypes' /\ UNCHANGED <<boot, signedIn, cur, cmd>>
        /\ \A d \in Callers : /\ req'[d].on = req[d].on
                              /\ req[d].stage = "idle" => req'[d].stage = "idle"
                              /\ req'[d].stage = IF d \in OnPipe(i, Pending)
                                                 THEN "failed" ELSE req[d].stage
    BY <1>2, <1>7, <2>1, Marked DEF ReadEof, WaitEnds, superVars
  <2>3. \A j \in Inst : /\ inst'[j].mode = inst[j].mode /\ inst'[j].kept = inst[j].kept
                        /\ inst[j].waited => inst'[j].waited
                        /\ inst'[j].token = inst[j].token
                        /\ j # i => inst'[j].waited = inst[j].waited
    BY <1>2, <1>7 DEF ReadEof, WaitEnds, Types, InstRec
  <2>4. \A j \in Inst : \/ exit'[j] = exit[j]
                        \/ /\ exit[j] = "none"
                           /\ exit'[j] = IF Wired THEN "decide" ELSE "missed"
    BY <1>2, <1>7 DEF ReadEof, WaitEnds, Types, Ends, superVars
  <2>5. WaitedSilent'
    <3> SUFFICES ASSUME NEW d \in Callers, req'[d].stage = "answered"
                 PROVE  ~inst'[req'[d].on].waited
      BY DEF WaitedSilent
    <3>1. req[d].stage = "answered" /\ d \notin OnPipe(i, Pending)
      BY <2>2
    <3>2. req[d].on # i /\ req[d].on \in Inst /\ ~inst[req[d].on].waited
      BY <1>2, <3>1 DEF OnPipe, Pending, CallTypes, WaitedSilent
    <3> QED BY <2>2, <2>3, <3>2
  <2> QED BY <1>1, <2>2, <2>3, <2>4, <2>5, PipesTell
<1>8. ASSUME NEW i \in Inst, Die(i) \/ Notify(i)
      PROVE  TokenInv'
  <2>1. PICK cs : /\ req' = Mark(cs, "written") \/ req' = req
                  /\ \A d \in cs \cap Callers : req[d].stage # "idle"
    <3>1. CASE Die(i)
      BY <3>1 DEF Die
    <3>2. CASE Notify(i)
      BY <3>2 DEF Notify, OnPipe
    <3> QED BY <1>8, <3>1, <3>2
  <2>2. UNCHANGED <<boot, signedIn, cur, cmd, exit>>
    BY <1>8 DEF Die, Notify, superVars
  <2>3. /\ CallTypes'
        /\ \A d \in Callers : /\ req'[d].on = req[d].on
                              /\ req[d].stage = "idle" => req'[d].stage = "idle"
                              /\ req'[d].stage \in {"written", req[d].stage}
    <3>1. CASE req' = req
      BY <1>2, <2>2, <3>1 DEF CallTypes
    <3>2. CASE req' = Mark(cs, "written")
      BY <1>2, <2>1, <2>2, <3>2, Marked DEF Pending
    <3> QED BY <2>1, <3>1, <3>2
  <2>4. \A j \in Inst : /\ inst'[j].mode = inst[j].mode /\ inst'[j].kept = inst[j].kept
                        /\ inst'[j].waited = inst[j].waited
                        /\ inst'[j].token = inst[j].token
    BY <1>2, <1>8 DEF Die, Notify, Types, InstRec
  <2>5. WaitedSilent'
    <3> SUFFICES ASSUME NEW d \in Callers, req'[d].stage = "answered"
                 PROVE  ~inst'[req'[d].on].waited
      BY DEF WaitedSilent
    <3>1. req[d].stage = "answered"
      BY <2>3
    <3>2. req[d].on \in Inst /\ ~inst[req[d].on].waited
      BY <1>2, <3>1 DEF CallTypes, WaitedSilent
    <3> QED BY <2>3, <2>4, <3>2
  <2> QED BY <1>1, <2>2, <2>3, <2>4, <2>5, PipesTell
<1> QED BY <1>3, <1>4, <1>5, <1>6, <1>7, <1>8 DEF PipeStep, TaskStep

\* A step that gives no client to anybody but the boot and the handlers' token pushes.
LEMMA OthersTell ==
    ASSUME TokenInv, IInv', CallTypes', BootFirst', WaitedSilent',
           UNCHANGED <<signedIn, inst, cur, cmd>>,
           boot'.at \in {"token", "up"} => boot.at \in {"token", "up"},
           \A k \in Cmds : req'[k] = req[k],
           \A i \in Inst : exit'[i] = "init" => exit[i] = "init" /\ req'[i] = req[i]
    PROVE  TokenInv'
<1> USE CallersApart
<1>1. ClientsHeld'
  BY DEF TokenInv, ClientsHeld, Held, Calling
<1>2. Hidden'
  BY DEF TokenInv, Hidden, Calling
<1>3. \A i \in Inst : Hopeful(i)' => Hopeful(i)
  BY DEF Hopeful
<1>4. HandsOver'
  BY <1>3 DEF TokenInv, HandsOver, NoneTold, Calling
<1>5. OnCurrent' /\ Tokened'
  BY DEF TokenInv, OnCurrent, Tokened, Calling
<1> QED BY <1>1, <1>2, <1>4, <1>5 DEF TokenInv

\* An answer that was there stays with a process that is not waited for.
LEMMA SilenceStays ==
    ASSUME CallTypes, WaitedSilent,
           \A c \in Callers : \/ req'[c] = req[c]
                              \/ req'[c].stage # "answered",
           \A i \in Inst : inst'[i].waited => inst[i].waited
    PROVE  WaitedSilent'
<1> SUFFICES ASSUME NEW c \in Callers, req'[c].stage = "answered"
             PROVE  ~inst'[req'[c].on].waited
  BY DEF WaitedSilent
<1>1. req'[c] = req[c]
  OBVIOUS
<1>2. req[c].on \in Inst /\ ~inst[req[c].on].waited
  BY <1>1 DEF CallTypes, WaitedSilent
<1> QED BY <1>1, <1>2

LEMMA BootTells ==
    ASSUME TokenInv, BootStep
    PROVE  TokenInv'
<1> USE CallersApart
<1>1. IInv'
  BY BootKeeps DEF TokenInv
<1>2. CallTypes /\ Types /\ Ends /\ WaitedSilent /\ BootFirst /\ ClientsHeld /\ BootOnce
  BY DEF TokenInv, IInv
<1>3. ASSUME NEW m \in Modes, BootSpawn(m)
      PROVE  TokenInv'
  <2>1. PICK n : n = Child
    OBVIOUS
  <2>2. /\ n \in Inst /\ inst[n].mode = None /\ boot.at = "spawn" /\ m \in boot.left
        /\ inst' = [inst EXCEPT ![n] = Fresh(m)]
        /\ req' = [req EXCEPT ![Boot] = NewReq(n)]
        /\ boot' = [boot EXCEPT !.left = @ \ {m}]
        /\ UNCHANGED <<signedIn, cur, cmd, exit>>
    BY <1>3, <2>1, ChildIsNew DEF BootSpawn, superVars
  <2>3. CallTypes'
    BY <1>2, <2>2 DEF CallTypes, NewReq
  <2>4. \A k \in Cmds : cmd'[k] = "none" /\ req'[k].stage = "idle"
    BY <1>2, <2>2 DEF BootFirst
  <2>5. \A i \in Inst : exit'[i] \in {"none", "missed"}
    BY <1>2, <2>2 DEF BootFirst
  <2>6. boot'.at = "spawn"
    BY <1>2, <2>2 DEF BootOnce
  <2>7. /\ \A i \in Inst : inst'[i].mode # None => inst'[i].kept
        /\ \A l \in Modes \ boot'.left : \E i \in Inst : inst'[i].mode = l
    <3>1. /\ inst'[n] = Fresh(m) /\ inst'[n].mode = m /\ inst'[n].kept
          /\ \A i \in Inst \ {n} : inst'[i] = inst[i]
      BY <1>2, <2>2 DEF Types, Fresh
    <3>2. ASSUME NEW l \in Modes \ boot'.left PROVE \E i \in Inst : inst'[i].mode = l
      <4>1. CASE l = m
        BY <2>2, <3>1, <4>1
      <4>2. CASE l # m
        <5>1. l \in Modes \ boot.left
          BY <1>2, <2>2, <4>2 DEF BootOnce
        <5>2. PICK i \in Inst : inst[i].mode = l
          BY <1>2, <2>2, <5>1 DEF BootFirst, Of
        <5> QED BY <2>2, <3>1, <5>2
      <4> QED BY <4>1, <4>2
    <3> QED BY <1>2, <2>2, <3>1, <3>2 DEF BootFirst
  <2>8. BootFirst'
    BY <2>4, <2>5, <2>6, <2>7 DEF BootFirst, Of
  <2>9. Hidden' /\ HandsOver' /\ OnCurrent' /\ Tokened'
    BY <2>4, <2>5 DEF Hidden, HandsOver, Hopeful, OnCurrent, Tokened, Calling
  <2>10. ClientsHeld'
    BY <2>4, <2>5, <2>6 DEF ClientsHeld, Calling
  <2>11. WaitedSilent'
    <3>1. \A c \in Callers : req'[c] = req[c] \/ req'[c].stage # "answered"
      BY <1>2, <2>2 DEF CallTypes, NewReq
    <3>2. \A i \in Inst : inst'[i].waited => inst[i].waited
      BY <1>2, <2>2 DEF Types, Fresh
    <3> QED BY <1>2, <3>1, <3>2, SilenceStays
  <2> QED BY <1>1, <2>3, <2>8, <2>9, <2>10, <2>11 DEF TokenInv
<1>4. ASSUME BootFails
      PROVE  TokenInv'
  <2>1. /\ boot.at = "spawn" /\ inst' = Drop(Inst \ Unused)
        /\ boot' = [boot EXCEPT !.at = "failed"] /\ req' = [req EXCEPT ![Boot] = NoReq]
        /\ UNCHANGED <<signedIn, cur, cmd, exit>>
    BY <1>4 DEF BootFails, superVars
  <2>2. CallTypes'
    BY <1>2, <2>1 DEF CallTypes, NoReq
  <2>3. boot'.at = "failed"
    BY <1>2, <2>1 DEF BootOnce
  <2>4. /\ \A k \in Cmds : cmd'[k] = "none" /\ req'[k].stage = "idle"
        /\ \A i \in Inst : exit'[i] \in {"none", "missed"}
    BY <1>2, <2>1 DEF BootFirst
  <2>5. BootFirst' /\ ClientsHeld'
    BY <2>3, <2>4 DEF BootFirst, ClientsHeld, Calling
  <2>6. Hidden' /\ HandsOver' /\ OnCurrent' /\ Tokened'
    BY <2>4 DEF Hidden, HandsOver, Hopeful, OnCurrent, Tokened, Calling
  <2>7. WaitedSilent'
    <3>1. \A c \in Callers : req'[c] = req[c] \/ req'[c].stage # "answered"
      BY <1>2, <2>1 DEF CallTypes, NoReq
    <3>2. \A i \in Inst : inst'[i].waited => inst[i].waited
      BY <1>2, <2>1 DEF Types, InstRec, Drop
    <3> QED BY <1>2, <3>1, <3>2, SilenceStays
  <2> QED BY <1>1, <2>2, <2>5, <2>6, <2>7 DEF TokenInv
<1>5. ASSUME BootWires
      PROVE  TokenInv'
  <2>1. /\ boot.at = "spawn" /\ boot.left = {} /\ boot'.at = "token"
        /\ cur' = [m \in Modes |-> CHOOSE i \in Of(m) : TRUE]
        /\ req' = [req EXCEPT ![Boot] = NoReq]
        /\ UNCHANGED <<signedIn, inst, cmd, exit>>
    BY <1>5 DEF BootWires
  <2>2. CallTypes'
    BY <1>2, <2>1 DEF CallTypes, NoReq
  <2>3. /\ \A k \in Cmds : cmd'[k] = "none" /\ req'[k].stage = "idle"
        /\ \A i \in Inst : exit'[i] \in {"none", "missed"}
    BY <1>2, <2>1 DEF BootFirst
  <2>4. BootFirst'
    BY <2>1, <2>3 DEF BootFirst
  <2>5. ASSUME NEW m \in Modes PROVE Held(cur[m], m)'
    <3>1. Of(m) # {}
      BY <1>2, <2>1 DEF BootFirst
    <3>2. PICK p : p = CHOOSE i \in Of(m) : TRUE
      OBVIOUS
    <3>3. p \in Of(m) /\ cur'[m] = p
      BY <2>1, <3>1, <3>2
    <3>4. p \in Inst /\ inst[p].mode = m /\ m # None
      BY <3>3 DEF Of
    <3> QED BY <1>2, <2>1, <3>3, <3>4 DEF Held, BootFirst
  <2>6. ClientsHeld'
    BY <2>3, <2>5 DEF ClientsHeld, Calling
  <2>7. Hidden' /\ HandsOver' /\ OnCurrent' /\ Tokened'
    BY <2>3 DEF Hidden, HandsOver, Hopeful, OnCurrent, Tokened, Calling
  <2>8. WaitedSilent'
    <3>1. \A c \in Callers : req'[c] = req[c] \/ req'[c].stage # "answered"
      BY <1>2, <2>1 DEF CallTypes, NoReq
    <3> QED BY <1>2, <2>1, <3>1, SilenceStays
  <2> QED BY <1>1, <2>2, <2>4, <2>6, <2>7, <2>8 DEF TokenInv
<1>6. ASSUME BootDone \/ (\E m \in Modes : BootToken(m))
      PROVE  TokenInv'
  <2>1. PICK r : /\ req' = [req EXCEPT ![Boot] = r]
                 /\ r.stage \in {"idle", "new"}
                 /\ r = NoReq \/ \E i \in Inst : r = NewReq(i)
    <3>1. CASE BootDone
      BY <3>1 DEF BootDone, NoReq
    <3>2. CASE \E m \in Modes : BootToken(m)
      BY <1>2, <3>2 DEF BootToken, NewReq, ClientsHeld, Held
    <3> QED BY <1>6, <3>1, <3>2
  <2>2. /\ UNCHANGED <<signedIn, inst, cur, cmd, exit>>
        /\ boot.at = "token" /\ boot'.at \in {"token", "up"}
    BY <1>2, <1>6 DEF BootDone, BootToken, superVars, BootOnce
  <2>3. CallTypes'
    BY <1>2, <2>1, <2>2 DEF CallTypes, NoReq, NewReq
  <2>4. \A c \in Callers : c # Boot => req'[c] = req[c]
    BY <1>2, <2>1 DEF CallTypes
  <2>5. WaitedSilent'
    <3>1. \A c \in Callers : req'[c] = req[c] \/ req'[c].stage # "answered"
      BY <1>2, <2>1 DEF CallTypes
    <3> QED BY <1>2, <2>2, <3>1, SilenceStays
  <2>6. BootFirst'
    BY <1>2, <2>2, <2>4 DEF BootFirst
  <2> QED BY <1>1, <2>2, <2>3, <2>4, <2>5, <2>6, OthersTell
<1> QED BY <1>3, <1>4, <1>5, <1>6 DEF BootStep

\* The handlers.
LEMMA ExitTells ==
    ASSUME TokenInv, NEW i \in Inst, ExitStep(i)
    PROVE  TokenInv'
<1> USE CallersApart
<1>1. IInv'
  BY ExitKeeps DEF TokenInv
<1>2. CallTypes /\ Types /\ Ends /\ WaitedSilent /\ BootFirst /\ ClientsHeld /\ OneLeader
  BY DEF TokenInv, IInv
<1>3. boot.at \in {"token", "up"} /\ boot' = boot /\ signedIn' = signedIn /\ cmd' = cmd
  <2>1. exit[i] \notin {"none", "missed"}
    BY DEF ExitStep, Decide, Respawn, SpawnFails, InitDone, InitFails, TokenDone, TokenFails
  <2> QED BY <1>2, <2>1 DEF BootFirst, ExitStep, Decide, Respawn, SpawnFails, InitDone,
                             InitFails, TokenDone, TokenFails
<1>4. BootFirst'
  <2>1. \A k \in Cmds : req'[k] = req[k]
    BY <1>2 DEF CallTypes, ExitStep, Decide, Respawn, SpawnFails, InitDone, InitFails,
                TokenDone, TokenFails, Finish, procVars
  <2> QED BY <1>2, <1>3, <2>1 DEF BootFirst
<1>5. CASE Decide(i) \/ SpawnFails(i) \/ TokenDone(i) \/ TokenFails(i)
  <2>1. /\ UNCHANGED <<inst, cur>>
        /\ req' = req \/ req' = [req EXCEPT ![i] = NoReq]
        /\ exit[i] # "init"
        /\ \/ exit' = [exit EXCEPT ![i] = "over"]
           \/ exit' = [exit EXCEPT ![i] = "backoff"]
    BY <1>5 DEF Decide, SpawnFails, TokenDone, TokenFails, Finish, procVars
  <2>2. CallTypes'
    BY <1>2, <1>3, <2>1 DEF CallTypes, NoReq
  <2>3. /\ \A j \in Inst : exit'[j] = "init" => exit[j] = "init" /\ j # i
        /\ \A c \in Callers : c # i => req'[c] = req[c]
        /\ \A c \in Callers : req'[c] = req[c] \/ req'[c].stage # "answered"
    BY <1>2, <2>1 DEF CallTypes, Types, NoReq
  <2>4. WaitedSilent'
    BY <1>2, <2>1, <2>3, SilenceStays
  <2> QED BY <1>1, <1>3, <1>4, <2>1, <2>2, <2>3, <2>4, OthersTell
<1>6. CASE Respawn(i)
  <2>1. PICK n : n = Child
    OBVIOUS
  <2>2. PICK m : m = inst[i].mode
    OBVIOUS
  <2>3. /\ n \in Inst /\ inst[n].mode = None /\ exit[i] = "backoff"
        /\ inst' = [inst EXCEPT ![n] = Fresh(m)]
        /\ req' = [req EXCEPT ![i] = NewReq(n)]
        /\ exit' = [exit EXCEPT ![i] = "init"] /\ cur' = cur
        /\ \A c \in Callers : ~Ready(c)
    BY <1>6, <2>1, <2>2, ChildIsNew DEF Respawn, ModeOf
  <2>4. inst[i].waited /\ m # None /\ m \in Modes /\ i # n
    BY <1>2, <2>2, <2>3 DEF Ends, Types, InstRec
  <2>5. /\ inst'[n] = Fresh(m) /\ exit'[i] = "init" /\ req'[i] = NewReq(n)
        /\ \A j \in Inst \ {n} : inst'[j] = inst[j]
        /\ \A j \in Inst \ {i} : exit'[j] = exit[j]
        /\ \A c \in Callers \ {i} : req'[c] = req[c]
    BY <1>2, <2>3 DEF Types, CallTypes
  <2>6. CallTypes'
    BY <1>2, <1>3, <2>3 DEF CallTypes, NewReq
  <2>7. ASSUME NEW j, NEW l \in Modes, Held(j, l) PROVE j # n /\ Held(j, l)'
    BY <2>3, <2>5, <2>7 DEF Held
  <2>8. \A j \in Inst : exit[j] = "init" => j # i /\ inst[j].mode \in Modes /\ j # n
    BY <1>2, <2>3 DEF Ends, Types, InstRec
  <2>9. ClientsHeld'
    <3>1. Held(n, m)'
      BY <2>3, <2>5 DEF Held, Fresh
    <3>2. \A l \in Modes : Held(cur[l], l)'
      BY <1>2, <1>3, <2>3, <2>7 DEF ClientsHeld
    <3>3. \A k \in Cmds : Calling(k) => Held(req[k].on, Chat)'
      <4> SUFFICES ASSUME NEW k \in Cmds, Calling(k) PROVE Held(req[k].on, Chat)'
        OBVIOUS
      <4>1. Held(req[k].on, Chat) /\ req'[k] = req[k]
        BY <1>2, <2>5 DEF ClientsHeld
      <4> QED BY <2>5, <2>7, <4>1 DEF Held
    <3>4. \A j \in Inst : exit'[j] = "init" => Held(req[j].on, inst[j].mode)'
      <4> SUFFICES ASSUME NEW j \in Inst, exit'[j] = "init"
                   PROVE  Held(req[j].on, inst[j].mode)'
        OBVIOUS
      <4>1. CASE j = i
        BY <2>2, <2>4, <2>5, <3>1, <4>1 DEF NewReq, Held
      <4>2. CASE j # i
        <5>1. exit[j] = "init" /\ Held(req[j].on, inst[j].mode) /\ req'[j] = req[j]
          BY <1>2, <2>5, <4>2 DEF ClientsHeld
        <5> QED BY <2>5, <2>7, <2>8, <5>1 DEF Held
      <4> QED BY <4>1, <4>2
    <3> QED BY <1>3, <3>2, <3>3, <3>4 DEF ClientsHeld, Calling
  <2>10. /\ \A l \in Modes : cur[l] # n
         /\ \A k \in Cmds : Calling(k) => req[k].on # n
         /\ \A j \in Inst : exit[j] = "init" => req[j].on # n
    BY <1>2, <1>3, <2>7, <2>8 DEF ClientsHeld
  <2>11. Hidden'
    BY <1>3, <2>3, <2>5, <2>10 DEF TokenInv, Hidden, Calling, NewReq
  <2>12. WaitedSilent'
    <3>1. \A c \in Callers : req'[c] = req[c] \/ req'[c].stage # "answered"
      BY <2>5 DEF NewReq
    <3>2. \A j \in Inst : inst'[j].waited => inst[j].waited
      BY <2>5 DEF Fresh
    <3> QED BY <1>2, <3>1, <3>2, SilenceStays
  <2>13. \A j \in Inst : Held(j, m) => inst[j].waited
    BY <1>2, <2>2, <2>3, <2>4 DEF OneLeader, Leads, Held
  <2>14. \A j \in Inst : Hopeful(j)' /\ inst'[j].mode = m => j = i
    <3> SUFFICES ASSUME NEW j \in Inst, Hopeful(j)', inst'[j].mode = m, j # i PROVE FALSE
      OBVIOUS
    <3>1. exit[j] = "init" /\ req'[j] = req[j] /\ j # n /\ inst'[j] = inst[j]
      BY <2>5, <2>8 DEF Hopeful
    <3>2. Held(req[j].on, m)
      BY <1>2, <3>1 DEF ClientsHeld
    <3>3. inst[req[j].on].waited /\ req[j].on # n
      BY <2>10, <2>13, <3>1, <3>2 DEF Held
    <3> QED BY <2>3, <2>5, <3>1, <3>2, <3>3 DEF Hopeful, Ready, Held
  <2>15. m = Chat => NoneTold'
    <3> SUFFICES ASSUME m = Chat PROVE NoneTold'
      OBVIOUS
    <3>1. Held(cur[Chat], Chat)
      BY <1>2, <1>3 DEF ClientsHeld
    <3>2. cur'[Chat] \in Inst /\ inst'[cur'[Chat]].waited
      BY <2>3, <2>5, <2>10, <2>13, <3>1 DEF Held
    <3>3. ASSUME NEW k \in Cmds, Calling(k) PROVE inst'[req'[k].on].waited
      <4>1. Held(req[k].on, Chat) /\ req'[k] = req[k]
        BY <1>2, <2>5, <3>3 DEF ClientsHeld
      <4> QED BY <2>5, <2>10, <2>13, <3>3, <4>1 DEF Held
    <3> QED BY <1>3, <2>3, <2>5, <3>2, <3>3 DEF NoneTold, Calling, Ready
  <2>16. HandsOver'
    <3> SUFFICES ASSUME NEW j \in Inst, Hopeful(j)'
                 PROVE  /\ \A l \in Inst : Hopeful(l)' /\ inst'[l].mode = inst'[j].mode => j = l
                        /\ inst'[j].mode = Chat => NoneTold'
      BY DEF HandsOver
    <3>1. CASE inst'[j].mode = m
      BY <2>14, <2>15, <3>1
    <3>2. CASE inst'[j].mode # m
      <4>1. \A l \in Inst : Hopeful(l)' /\ inst'[l].mode # m =>
                 Hopeful(l) /\ l # n /\ inst'[l] = inst[l]
        <5> SUFFICES ASSUME NEW l \in Inst, Hopeful(l)', inst'[l].mode # m
                     PROVE  Hopeful(l) /\ l # n /\ inst'[l] = inst[l]
          OBVIOUS
        <5>1. l # i
          BY <2>2, <2>4, <2>5
        <5>2. exit[l] = "init" /\ req'[l] = req[l] /\ l # n /\ inst'[l] = inst[l]
          BY <2>5, <2>8, <5>1 DEF Hopeful
        <5>3. req[l].on # n /\ req[l].on \in Inst
          BY <1>2, <2>10, <5>2 DEF ClientsHeld, Held
        <5> QED BY <2>5, <5>2, <5>3 DEF Hopeful
      <4>2. NoneTold => NoneTold'
        <5> SUFFICES ASSUME NoneTold PROVE NoneTold'
          OBVIOUS
        <5>1. cur'[Chat] \in Inst /\ inst'[cur'[Chat]].waited
          BY <2>3, <2>5, <2>10 DEF NoneTold
        <5>2. ASSUME NEW k \in Cmds, Calling(k) PROVE inst'[req'[k].on].waited
          <6>1. Held(req[k].on, Chat) /\ req'[k] = req[k]
            BY <1>2, <2>5, <5>2 DEF ClientsHeld
          <6> QED BY <2>5, <2>10, <5>2, <6>1 DEF Held, NoneTold
        <5> QED BY <1>3, <2>5, <5>1, <5>2 DEF NoneTold, Calling
      <4> QED BY <3>2, <4>1, <4>2 DEF TokenInv, HandsOver
    <3> QED BY <3>1, <3>2
  <2>17. OnCurrent'
    <3> SUFFICES ASSUME NEW k \in Cmds
                 PROVE  /\ Calling(k)' /\ ~inst'[req'[k].on].waited => req'[k].on = cur'[Chat]
                        /\ cmd'[k] = "token" /\ req'[k].stage = "ok" => req'[k].on = cur'[Chat]
      BY DEF OnCurrent
    <3>1. Calling(k) => Held(req[k].on, Chat) /\ req'[k] = req[k] /\ req[k].on # n
      BY <1>2, <2>5, <2>10 DEF ClientsHeld
    <3> QED BY <1>3, <2>3, <2>5, <3>1 DEF TokenInv, OnCurrent, Calling, Held
  <2>18. Tokened'
    <3> SUFFICES ASSUME NEW k \in Cmds
                 PROVE  /\ cmd'[k] = "token" /\ req'[k].stage \in {"answered", "ok"}
                              => inst'[req'[k].on].token
                        /\ cmd'[k] = "chat" /\ signedIn' => inst'[req'[k].on].token
      BY DEF Tokened
    <3>1. Calling(k) => Held(req[k].on, Chat) /\ req'[k] = req[k] /\ req[k].on # n
      BY <1>2, <2>5, <2>10 DEF ClientsHeld
    <3> QED BY <1>3, <2>5, <3>1 DEF TokenInv, Tokened, Calling, Held
  <2> QED BY <1>1, <1>4, <2>6, <2>9, <2>11, <2>12, <2>16, <2>17, <2>18 DEF TokenInv
<1>7. CASE InitDone(i)
  <2>1. PICK n : n = req[i].on
    OBVIOUS
  <2>2. PICK m : m = inst[i].mode
    OBVIOUS
  <2>3. /\ exit[i] = "init" /\ req[i].stage = "ok" /\ inst' = inst
        /\ cur' = [cur EXCEPT ![m] = n]
        /\ \/ exit' = [exit EXCEPT ![i] = "token"] /\ req' = [req EXCEPT ![i] = NewReq(n)]
           \/ exit' = [exit EXCEPT ![i] = "over"] /\ req' = [req EXCEPT ![i] = NoReq]
    BY <1>7, <2>1, <2>2 DEF InitDone, Finish, ModeOf
  <2>4. Held(n, m) /\ m \in Modes
    BY <1>2, <2>1, <2>2, <2>3 DEF ClientsHeld, Held, Types, InstRec, Ends
  <2>5. /\ cur'[m] = n /\ \A l \in Modes : l # m => cur'[l] = cur[l]
        /\ exit'[i] # "init"
        /\ \A j \in Inst : j # i => exit'[j] = exit[j]
        /\ \A c \in Callers : c # i => req'[c] = req[c]
        /\ req'[i].stage # "answered"
    BY <1>2, <2>3, <2>4 DEF CallTypes, Types, NewReq, NoReq
  <2>6. CallTypes'
    BY <1>2, <1>3, <2>3, <2>4 DEF CallTypes, NewReq, NoReq, Held
  <2>7. WaitedSilent'
    BY <1>2, <2>3, <2>5, SilenceStays
  <2>8. ClientsHeld'
    <3>1. \A l \in Modes : Held(cur'[l], l)
      BY <1>2, <1>3, <2>4, <2>5 DEF ClientsHeld
    <3>2. \A k \in Cmds : Calling(k) => Held(req'[k].on, Chat)
      BY <1>2, <2>5 DEF ClientsHeld
    <3>3. \A j \in Inst : exit'[j] = "init" => Held(req'[j].on, inst[j].mode)
      BY <1>2, <2>5 DEF ClientsHeld
    <3> QED BY <1>3, <2>3, <3>1, <3>2, <3>3 DEF ClientsHeld, Calling, Held
  <2>9. Hidden'
    <3> SUFFICES ASSUME NEW j \in Inst, exit'[j] = "init"
                 PROVE  /\ \A l \in Modes : cur'[l] # req'[j].on
                        /\ \A k \in Cmds : Calling(k)' => req'[k].on # req'[j].on
                        /\ \A l \in Inst \ {j} : exit'[l] = "init" => req'[l].on # req'[j].on
      BY DEF Hidden
    <3>1. j # i /\ exit[j] = "init" /\ req'[j] = req[j] /\ req[j].on # n
      BY <2>1, <2>3, <2>5 DEF TokenInv, Hidden
    <3> QED BY <1>3, <2>5, <3>1 DEF TokenInv, Hidden, Calling
  <2>10. Hopeful(i)
    BY <2>3 DEF Hopeful
  <2>11. m = Chat => NoneTold
    BY <2>2, <2>10 DEF TokenInv, HandsOver
  <2>12. \A j \in Inst : Hopeful(j)' => Hopeful(j) /\ inst[j].mode # m
    BY <2>2, <2>3, <2>5, <2>10 DEF TokenInv, HandsOver, Hopeful
  <2>13. HandsOver'
    <3> SUFFICES ASSUME NEW j \in Inst, Hopeful(j)'
                 PROVE  /\ \A l \in Inst : Hopeful(l)' /\ inst'[l].mode = inst'[j].mode => j = l
                        /\ inst'[j].mode = Chat => NoneTold'
      BY DEF HandsOver
    <3>1. \A l \in Inst : Hopeful(l)' /\ inst'[l].mode = inst'[j].mode => j = l
      BY <2>3, <2>12 DEF TokenInv, HandsOver
    <3>2. ASSUME inst'[j].mode = Chat PROVE NoneTold'
      <4>1. NoneTold /\ cur'[Chat] = cur[Chat]
        BY <2>3, <2>5, <2>12, <3>2 DEF TokenInv, HandsOver
      <4> QED BY <1>3, <2>3, <2>5, <4>1 DEF NoneTold, Calling
    <3> QED BY <3>1, <3>2
  <2>14. OnCurrent'
    <3>1. CASE m = Chat
      BY <1>3, <2>3, <2>5, <2>11, <3>1 DEF OnCurrent, NoneTold, Calling
    <3>2. CASE m # Chat
      BY <1>3, <2>3, <2>5, <3>2 DEF TokenInv, OnCurrent, Calling
    <3> QED BY <3>1, <3>2
  <2>15. Tokened'
    BY <1>3, <2>3, <2>5 DEF TokenInv, Tokened, Calling
  <2> QED BY <1>1, <1>4, <2>6, <2>7, <2>8, <2>9, <2>13, <2>14, <2>15 DEF TokenInv
<1>8. CASE InitFails(i)
  <2>1. PICK n : n = req[i].on
    OBVIOUS
  <2>2. /\ exit[i] = "init" /\ cur' = cur /\ inst' = Drop({n})
        /\ exit' = [exit EXCEPT ![i] = "over"] /\ req' = [req EXCEPT ![i] = NoReq]
    BY <1>8, <2>1 DEF InitFails
  <2>3. /\ exit'[i] # "init"
        /\ \A j \in Inst : j # i => exit'[j] = exit[j]
        /\ \A c \in Callers : c # i => req'[c] = req[c]
        /\ req'[i].stage # "answered"
    BY <1>2, <2>2 DEF CallTypes, Types, NoReq
  <2>4. \A j \in Inst : /\ j # n => inst'[j] = inst[j]
                        /\ inst'[j].waited = inst[j].waited
                        /\ inst'[j].mode = inst[j].mode
                        /\ inst'[j].token = inst[j].token
    BY <1>2, <2>2 DEF Drop, Types, InstRec
  <2>5. CallTypes'
    BY <1>2, <1>3, <2>2 DEF CallTypes, NoReq
  <2>6. WaitedSilent'
    BY <1>2, <2>3, <2>4, SilenceStays
  <2>7. /\ \A l \in Modes : cur[l] # n
        /\ \A k \in Cmds : Calling(k) => req[k].on # n
        /\ \A j \in Inst : exit'[j] = "init" => exit[j] = "init" /\ j # i /\ req[j].on # n
    BY <2>1, <2>2, <2>3 DEF TokenInv, Hidden
  <2>8. ClientsHeld'
    <3>1. \A l \in Modes : Held(cur[l], l)'
      BY <1>2, <1>3, <2>2, <2>4, <2>7 DEF ClientsHeld, Held
    <3>2. \A k \in Cmds : Calling(k) => Held(req[k].on, Chat)'
      BY <1>2, <2>3, <2>4, <2>7 DEF ClientsHeld, Held
    <3>3. \A j \in Inst : exit'[j] = "init" => Held(req[j].on, inst[j].mode)'
      BY <1>2, <2>3, <2>4, <2>7 DEF ClientsHeld, Held
    <3> QED BY <1>3, <3>1, <3>2, <3>3 DEF ClientsHeld, Calling
  <2>9. Hidden'
    BY <1>3, <2>2, <2>3, <2>7 DEF TokenInv, Hidden, Calling
  <2>10. \A j \in Inst : Hopeful(j)' => Hopeful(j)
    <3> SUFFICES ASSUME NEW j \in Inst, Hopeful(j)' PROVE Hopeful(j)
      OBVIOUS
    <3>1. exit[j] = "init" /\ req'[j] = req[j] /\ req[j].on \in Inst
      BY <1>2, <2>3, <2>7 DEF Hopeful, ClientsHeld, Held
    <3> QED BY <2>4, <3>1 DEF Hopeful
  <2>11. NoneTold => NoneTold'
    <3>1. \A k \in Cmds : Calling(k) => req[k].on \in Inst
      BY <1>2 DEF ClientsHeld, Held
    <3> QED BY ZenonT(30), <1>3, <2>2, <2>3, <2>4, <3>1 DEF NoneTold, Calling
  <2>12. HandsOver'
    BY <2>4, <2>10, <2>11 DEF TokenInv, HandsOver
  <2>13. OnCurrent' /\ Tokened'
    <3>1. \A k \in Cmds : Calling(k) => req[k].on \in Inst /\ req'[k] = req[k]
      BY <1>2, <2>3 DEF ClientsHeld, Held
    <3> QED BY ZenonT(30), <1>3, <2>2, <2>4, <3>1 DEF TokenInv, OnCurrent, Tokened, Calling
  <2> QED BY <1>1, <1>4, <2>5, <2>6, <2>8, <2>9, <2>12, <2>13 DEF TokenInv
<1> QED BY <1>5, <1>6, <1>7, <1>8 DEF ExitStep

\* claude_chat_start.
LEMMA StartTells ==
    ASSUME TokenInv, NEW k \in Cmds, Start(k) \/ StartStep(k)
    PROVE  TokenInv'
<1> USE CallersApart
<1>1. UNCHANGED <<boot, signedIn, inst, cur, exit>>
  BY DEF Start, StartStep, SendChat, StartEnds, superVars
<1>2. IInv'
  BY <1>1, SameProcesses DEF TokenInv
<1>3. CallTypes /\ Types /\ WaitedSilent /\ BootFirst /\ ClientsHeld
  BY DEF TokenInv, IInv
<1>4. PICK n : n = cur[Chat]
  OBVIOUS
<1>5. /\ DOMAIN req = Callers /\ DOMAIN cmd = Cmds
      /\ \A i \in Inst : i # k
  BY <1>3 DEF CallTypes
<1>6. ASSUME NEW stage \in {"token", "chat"}, Ask(k, stage), boot.at = "up",
             stage = "chat" => (signedIn => inst[n].token),
             \A i \in Inst : Hopeful(i) /\ inst[i].mode = Chat => inst[n].waited
      PROVE  TokenInv'
  <2>1. /\ cmd' = [cmd EXCEPT ![k] = stage] /\ req' = [req EXCEPT ![k] = NewReq(n)]
        /\ Held(n, Chat)
    BY <1>3, <1>4, <1>6 DEF Ask, ClientsHeld
  <2>2. /\ cmd'[k] = stage /\ req'[k].on = n /\ req'[k].stage = "new"
        /\ \A l \in Cmds \ {k} : cmd'[l] = cmd[l]
        /\ \A c \in Callers \ {k} : req'[c] = req[c]
    BY <1>5, <2>1 DEF NewReq
  <2>3. CallTypes'
    BY <1>1, <1>3, <2>1 DEF CallTypes, NewReq, Held
  <2>4. BootFirst'
    BY <1>1, <1>3, <1>6 DEF BootFirst, Of
  <2>5. ClientsHeld'
    BY <1>1, <1>3, <1>5, <2>1, <2>2 DEF ClientsHeld, Held, Calling
  <2>6. Hidden'
    BY <1>1, <1>4, <1>5, <2>2 DEF TokenInv, Hidden, Calling
  <2>7. WaitedSilent'
    <3>1. \A c \in Callers : req'[c] = req[c] \/ req'[c].stage # "answered"
      BY <2>2
    <3> QED BY <1>1, <1>3, <3>1, SilenceStays
  <2>8. \A i \in Inst : Hopeful(i)' <=> Hopeful(i)
    BY <1>1, <1>5, <2>2 DEF Hopeful
  <2>9. NoneTold /\ inst[n].waited => NoneTold'
    BY <1>1, <2>2 DEF NoneTold, Calling
  <2>10. HandsOver'
    BY <1>1, <1>6, <2>8, <2>9 DEF TokenInv, HandsOver
  <2>11. OnCurrent'
    BY <1>1, <1>4, <2>2 DEF TokenInv, OnCurrent, Calling
  <2>12. Tokened'
    BY <1>1, <1>6, <2>2 DEF TokenInv, Tokened
  <2> QED BY <1>2, <2>3, <2>4, <2>5, <2>6, <2>7, <2>10, <2>11, <2>12 DEF TokenInv
<1>7. \A i \in Inst : Hopeful(i) /\ inst[i].mode = Chat => inst[n].waited
  BY <1>4 DEF TokenInv, HandsOver, NoneTold
<1>8. CASE Start(k)
  BY <1>6, <1>7, <1>8 DEF Start
<1>9. CASE SendChat(k)
  <2>1. cmd[k] = "token" /\ req[k].stage = "ok" /\ Ask(k, "chat")
    BY <1>9 DEF SendChat
  <2>2. req[k].on = n /\ inst[n].token
    BY <1>4, <2>1 DEF TokenInv, OnCurrent, Tokened
  <2>3. boot.at = "up"
    BY <1>3, <2>1 DEF BootFirst
  <2> QED BY <1>6, <1>7, <2>1, <2>2, <2>3
<1>10. CASE StartEnds(k)
  <2>1. PICK result \in {"accepted", "rejected"} :
            /\ cmd' = [cmd EXCEPT ![k] = result] /\ req' = [req EXCEPT ![k] = NoReq]
    BY <1>10 DEF StartEnds
  <2>2. /\ ~Calling(k)' /\ req'[k].stage = "idle"
        /\ \A l \in Cmds \ {k} : cmd'[l] = cmd[l] /\ req'[l] = req[l]
        /\ \A i \in Inst : req'[i] = req[i]
        /\ \A c \in Callers : req'[c] = req[c] \/ req'[c].stage # "answered"
    BY <1>5, <2>1 DEF NoReq, Calling
  <2>3. CallTypes' /\ WaitedSilent'
    <3>1. CallTypes'
      BY <1>1, <1>3, <2>1 DEF CallTypes, NoReq
    <3> QED BY <1>1, <1>3, <2>2, <3>1, SilenceStays
  <2>4. BootFirst'
    <3>1. boot.at = "up"
      BY <1>3, <1>10 DEF BootFirst, StartEnds
    <3> QED BY <1>1, <1>3, <3>1 DEF BootFirst, Of
  <2>5. ClientsHeld' /\ Hidden'
    BY <1>1, <2>2 DEF TokenInv, ClientsHeld, Held, Hidden, Calling
  <2>6. \A i \in Inst : Hopeful(i)' <=> Hopeful(i)
    BY <1>1, <2>2 DEF Hopeful
  <2>7. NoneTold => NoneTold'
    BY <1>1, <2>2 DEF NoneTold, Calling
  <2>8. HandsOver'
    BY <1>1, <2>6, <2>7 DEF TokenInv, HandsOver
  <2>9. OnCurrent' /\ Tokened'
    BY <1>1, <2>2 DEF TokenInv, OnCurrent, Tokened, Calling
  <2> QED BY <1>2, <2>3, <2>4, <2>5, <2>8, <2>9 DEF TokenInv
<1> QED BY <1>8, <1>9, <1>10 DEF StartStep

LEMMA TokenNext == TokenInv /\ [Next]_vars => TokenInv'
<1> SUFFICES ASSUME TokenInv, [Next]_vars PROVE TokenInv'
  OBVIOUS
<1>1. CASE MinutePasses \/ UNCHANGED vars
  <2>1. UNCHANGED <<boot, signedIn, inst, cur, exit, req, cmd>>
    BY <1>1 DEF MinutePasses, vars, procVars, superVars
  <2>2. IInv'
    BY <2>1, SameProcesses DEF TokenInv
  <2> QED BY <2>1, <2>2 DEF TokenInv, CallTypes, BootFirst, Of, ClientsHeld, Held, Hidden,
                  WaitedSilent, HandsOver, Hopeful, NoneTold, OnCurrent, Tokened, Calling
<1> QED BY <1>1, PipeStepsTell, BootTells, ExitTells, StartTells DEF Next, Environment

\* claude_chat_start pushes the token and then starts the chat (commands.rs): the
\* chat is accepted only by a process that has the token, if there is one, for any
\* number of modes, processes and calls, however processes die and are replaced
\* between the two.
THEOREM ChatHasTokenAlways == Spec => []ChatHasToken
<1>1. TokenInv => ChatHasToken
  BY DEF TokenInv, Tokened, ChatHasToken
<1> QED BY <1>1, TokenInit, TokenNext, PTL DEF Spec
=============================================================================
