------------------------------ MODULE Updates ------------------------------
(***************************************************************************)
(* Application updates: the state machine that checks, downloads and       *)
(* installs (src-tauri/src/updater.rs), the hourly loop (src-tauri/src/    *)
(* lib.rs), the windows that mirror its state and prompt the user          *)
(* (hooks/useUpdaterEvents.ts), and the loop that restarts the program     *)
(* when it is idle, unless a window vetoes (lib/restartWhenIdle.ts).       *)
(*                                                                         *)
(* In the host, a stretch without an await is a step; a broadcast is heard *)
(* by the windows whose listener is registered by then, in order.          *)
(***************************************************************************)
EXTENDS Naturals, Sequences

CONSTANTS
    Windows,       \* windows that mount App
    MaxVersion,    \* bound: the newest version that is ever released
    MaxWire,       \* bound: broadcasts on their way to one window
    MaxProbes      \* bound: probes that a window has not heard, or vetoes under way

ASSUME BoundsAssumption ==
    MaxVersion \in Nat \ {0} /\ MaxWire \in Nat \ {0} /\ MaxProbes \in Nat \ {0}

VARIABLES
    check,         \* the check in flight: how far, who asked, which version (busy)
    last,          \* the state broadcast last
    readyVersion,  \* the version that is staged on disk, or 0
    win,           \* window -> what its App knows and shows (see Closed)
    wire,          \* window -> broadcasts on their way to it
    crossed,       \* history: windows for which a broadcast fell into the mount
    armed,         \* "restart when idle" is armed
    vetoed,        \* restart_vetoed
    loop,          \* the idle loop: "poll", or "wait" for vetoes
    reply,         \* window -> what has come of the last probe in it (see Probe)
    probes,        \* window -> probes that it has not heard yet
    vetoes,        \* window -> its vetoes on their way to the host
    idle,          \* is the system idle for long enough?
    work,          \* window -> "none", "seen" or "unseen" by canRestartNow
    gone           \* why the program restarts: "no", "user" or "idle"

hostVars == <<check, last, readyVersion>>
viewVars == <<win, wire, crossed>>
idleVars == <<armed, vetoed, loop, reply, probes, vetoes>>
vars == <<hostVars, viewVars, idleVars, idle, work, gone>>

Versions == 1 .. MaxVersion
NoCheck  == [at |-> "none", manual |-> FALSE, version |-> 0]

State(status, version, manual) ==
    [status |-> status, version |-> version, manual |-> manual]
Plain(status)  == State(status, 0, FALSE)
Ready(version) == State("ready", version, FALSE)
Error(manual)  == State("error", 0, manual)

\* seed: the question for the current state, asked, answered with snap, settled;
\* listens, hears: is the listener of broadcasts, of probes, registered?
Closed == [seed |-> "none", snap |-> Plain("idle"), listens |-> FALSE, hears |-> FALSE,
           store |-> Plain("idle"), toast |-> 0, failed |-> FALSE]

Mounted(w)  == win[w].seed # "none"
Mounting(w) == Mounted(w) /\ ~(win[w].seed = "settled" /\ win[w].listens)
Runs        == gone = "no"
Room        == \A w \in Windows : Len(wire[w]) < MaxWire

Init ==
    /\ check = NoCheck /\ last = Plain("idle") /\ readyVersion = 0
    /\ win = [w \in Windows |-> Closed] /\ wire = [w \in Windows |-> <<>>]
    /\ crossed = {}
    /\ armed = FALSE /\ vetoed = FALSE /\ loop = "poll"
    /\ reply = [w \in Windows |-> "none"]
    /\ probes = [w \in Windows |-> 0] /\ vetoes = [w \in Windows |-> 0]
    /\ idle = FALSE /\ work = [w \in Windows |-> "none"] /\ gone = "no"

-----------------------------------------------------------------------------
(* The check *)

\* set_state: the state is remembered and broadcast.
SetState(s) ==
    /\ Room
    /\ last' = s
    /\ wire' = [w \in Windows |-> IF win[w].listens THEN Append(wire[w], s) ELSE wire[w]]
    /\ crossed' = crossed \cup {w \in Windows : Mounting(w)}

HostStep == Runs /\ UNCHANGED <<win, idleVars, idle, work, gone>>

\* A check is over: the busy flag is dropped.
Ends(s) == SetState(s) /\ check' = NoCheck

\* Mutant: the outcome is reported as if nothing were staged.
OutcomeAlone(s) == s

\* fail_or_keep_staged, and its like for "no update": a staged version stays
\* announced whatever a later check comes to.
Outcome(s) == IF readyVersion # 0 THEN Ready(readyVersion) ELSE s

\* run_check, for the hourly loop, the menu or the button: not while another
\* one is in flight.
Begin(manual) ==
    /\ HostStep /\ check = NoCheck
    /\ check' = [at |-> "check", manual |-> manual, version |-> 0]
    /\ SetState(Plain("checking"))
    /\ UNCHANGED readyVersion

\* updater() or check() fails.
CheckFails ==
    /\ HostStep /\ check.at = "check"
    /\ Ends(Outcome(Error(check.manual)))
    /\ UNCHANGED readyVersion

\* The server offers nothing newer than this program, or any version, as
\* releases come and are withdrawn.
NoUpdate ==
    /\ HostStep /\ check.at = "check"
    /\ Ends(Outcome(Plain("upToDate")))
    /\ UNCHANGED readyVersion

\* The version on offer is staged already.
SameVersion ==
    /\ HostStep /\ check.at = "check" /\ readyVersion # 0
    /\ Ends(Ready(readyVersion))
    /\ UNCHANGED readyVersion

\* Any other version is downloaded, whatever is staged.
Found(version) ==
    /\ HostStep /\ check.at = "check" /\ version # readyVersion
    /\ check' = [check EXCEPT !.at = "download", !.version = version]
    /\ SetState(State("downloading", version, FALSE))
    /\ UNCHANGED readyVersion

Progress ==
    /\ HostStep /\ check.at = "download"
    /\ SetState(State("downloading", check.version, FALSE))
    /\ UNCHANGED <<check, readyVersion>>

Downloaded ==
    /\ HostStep /\ check.at = "download"
    /\ check' = [check EXCEPT !.at = "install"]
    /\ UNCHANGED <<last, readyVersion, wire, crossed>>

\* The download or the installation fails.
UpdateFails ==
    /\ HostStep /\ check.at \in {"download", "install"}
    /\ Ends(Outcome(Error(check.manual)))
    /\ UNCHANGED readyVersion

Installed ==
    /\ HostStep /\ check.at = "install"
    /\ readyVersion' = check.version
    /\ Ends(Ready(check.version))

-----------------------------------------------------------------------------
(* A window *)

ViewStep == Runs /\ UNCHANGED <<hostVars, idleVars, idle, work, gone>>

\* App mounts: it asks for the state and registers its two listeners, in
\* calls to the host that may be served in any order.
Mount(w) ==
    /\ ViewStep /\ ~Mounted(w)
    /\ win' = [win EXCEPT ![w].seed = "asked"]
    /\ UNCHANGED <<wire, crossed>>

Listens(w) ==
    /\ ViewStep /\ Mounted(w) /\ ~win[w].listens
    /\ win' = [win EXCEPT ![w].listens = TRUE]
    /\ UNCHANGED <<wire, crossed>>

HearsProbes(w) ==
    /\ ViewStep /\ Mounted(w) /\ ~win[w].hears
    /\ win' = [win EXCEPT ![w].hears = TRUE]
    /\ UNCHANGED <<wire, crossed>>

\* updater_status, and its answer under way.
Snapshot(w) ==
    /\ ViewStep /\ win[w].seed = "asked"
    /\ win' = [win EXCEPT ![w].seed = "answered", ![w].snap = last]
    /\ UNCHANGED <<wire, crossed>>

\* The prompt takes the place of a failure that is still shown.
ShowReady(r, version) == [r EXCEPT !.toast = version, !.failed = FALSE]

\* The store takes the snapshot, even when a broadcast has come in before it;
\* the prompt is shown unless it has been.
Seed(w) ==
    LET r == win[w]
        seeded == [r EXCEPT !.seed = "settled", !.store = r.snap, !.snap = Plain("idle")]
    IN  /\ ViewStep /\ r.seed = "answered"
        /\ win' = [win EXCEPT ![w] =
                      IF r.snap.status = "ready" /\ r.store.status # "ready"
                      THEN ShowReady(seeded, r.snap.version) ELSE seeded]
        /\ UNCHANGED <<wire, crossed>>

\* Mutant: the prompt is shown for the first version that is staged only.
ReflectOnce(r, s) ==
    CASE r.store.status = s.status -> r
      [] s.status = "ready" -> IF r.toast = 0 THEN ShowReady(r, s.version) ELSE r
      [] s.status = "upToDate" -> [r EXCEPT !.failed = FALSE]
      [] s.status = "error" /\ s.manual -> [r EXCEPT !.failed = TRUE]
      [] OTHER -> r

\* reflectToast: what a transition tells the user.  Scheduled failures say
\* nothing.
Reflect(r, s) ==
    CASE r.store.status = s.status -> r
      [] s.status = "ready" -> ShowReady(r, s.version)
      [] s.status = "upToDate" -> [r EXCEPT !.failed = FALSE]
      [] s.status = "error" /\ s.manual -> [r EXCEPT !.failed = TRUE]
      [] OTHER -> r

\* A broadcast is heard.
Handle(w) ==
    /\ ViewStep /\ wire[w] # <<>>
    /\ win' = [win EXCEPT ![w] = [Reflect(@, Head(wire[w])) EXCEPT !.store = Head(wire[w])]]
    /\ wire' = [wire EXCEPT ![w] = Tail(@)]
    /\ crossed' = IF Mounting(w) THEN crossed ELSE crossed \ {w}

-----------------------------------------------------------------------------
(* Restarting *)

\* "Restart", in the prompt or in the About settings.  Nothing is asked or saved.
RestartNow(w) ==
    /\ Runs
    /\ win[w].toast # 0 \/ win[w].store.status = "ready"
    /\ gone' = "user"
    /\ UNCHANGED <<hostVars, viewVars, idleVars, idle, work>>

\* "Restart when idle", which dismisses the prompt.
RestartWhenIdle(w) ==
    /\ Runs /\ win[w].toast # 0
    /\ win' = [win EXCEPT ![w].toast = 0]
    /\ armed' = TRUE
    /\ UNCHANGED <<hostVars, wire, crossed, vetoed, loop, reply, probes, vetoes, idle,
                   work, gone>>

IdleStep == Runs /\ UNCHANGED <<hostVars, viewVars, armed, idle, work>>

\* Every five seconds: when armed and idle, every window is asked.  Who does not
\* listen yet is asked nothing ("none").
Probe ==
    /\ IdleStep /\ loop = "poll" /\ armed /\ idle
    /\ \A w \in Windows : probes[w] + vetoes[w] < MaxProbes
    /\ loop' = "wait" /\ vetoed' = FALSE
    /\ reply' = [w \in Windows |-> IF win[w].hears THEN "asked" ELSE "none"]
    /\ probes' = [w \in Windows |-> IF win[w].hears THEN probes[w] + 1 ELSE probes[w]]
    /\ UNCHANGED <<vetoes, gone>>

CanRestartNow(w) == work[w] # "seen"

\* A window hears the oldest probe, perhaps long after the loop has stopped waiting
\* for it, and answers with a veto or not at all.
Answer(w) ==
    LET free == CanRestartNow(w)
    IN  /\ IdleStep /\ probes[w] > 0
        /\ probes' = [probes EXCEPT ![w] = @ - 1]
        /\ vetoes' = IF free THEN vetoes ELSE [vetoes EXCEPT ![w] = @ + 1]
        /\ reply' = IF probes[w] > 1 THEN reply
                    ELSE [reply EXCEPT ![w] = IF free THEN "free" ELSE "vetoing"]
        /\ UNCHANGED <<vetoed, loop, gone>>

\* A veto does not say which probe it answers.
VetoArrives(w) ==
    /\ IdleStep /\ vetoes[w] > 0
    /\ vetoed' = TRUE
    /\ vetoes' = [vetoes EXCEPT ![w] = @ - 1]
    /\ reply' = IF vetoes[w] = 1 /\ reply[w] = "vetoing"
                THEN [reply EXCEPT ![w] = "vetoed"] ELSE reply
    /\ UNCHANGED <<probes, loop, gone>>

\* Mutant: the flag is reset when the wait is over, so that vetoes are lost.
DecideReset ==
    /\ IdleStep /\ loop = "wait"
    /\ vetoed' = FALSE
    /\ loop' = "poll" /\ gone' = "idle"
    /\ UNCHANGED <<reply, probes, vetoes>>

\* Half a second is over, whatever answers are still to come.
Decide ==
    /\ IdleStep /\ loop = "wait"
    /\ loop' = "poll" /\ gone' = IF vetoed THEN "no" ELSE "idle"
    /\ UNCHANGED <<vetoed, reply, probes, vetoes>>

\* The user comes back, or goes; an edit is made or saved, a run is put
\* together, registered and over.  Before the restart is armed nobody looks.
IdleChanges ==
    /\ Runs /\ armed /\ idle' = ~idle
    /\ UNCHANGED <<hostVars, viewVars, idleVars, work, gone>>

Works(w, next) ==
    /\ Runs /\ armed /\ Mounted(w)
    /\ work[w] # next /\ ~(work[w] = "seen" /\ next = "unseen")
    /\ work' = [work EXCEPT ![w] = next]
    /\ UNCHANGED <<hostVars, viewVars, idleVars, idle, gone>>

-----------------------------------------------------------------------------
\* The server answers and the disk does, one way or the other.
CheckGoesOn ==
    \/ CheckFails \/ NoUpdate \/ SameVersion \/ \E version \in Versions : Found(version)
    \/ Downloaded \/ UpdateFails \/ Installed

ViewGoesOn(w) == Listens(w) \/ HearsProbes(w) \/ Snapshot(w) \/ Seed(w)

IdleGoesOn == Probe \/ Decide \/ \E w \in Windows : Answer(w) \/ VetoArrives(w)

Next ==
    \/ Begin(TRUE) \/ Begin(FALSE) \/ Progress \/ CheckGoesOn
    \/ \E w \in Windows : Mount(w) \/ ViewGoesOn(w) \/ Handle(w)
    \/ \E w \in Windows : RestartNow(w) \/ RestartWhenIdle(w)
    \/ IdleGoesOn \/ IdleChanges
    \/ \E w \in Windows : \E next \in {"none", "unseen", "seen"} : Works(w, next)

Spec == Init /\ [][Next]_vars

\* The loops of the host run for ever, calls return, broadcasts are delivered and
\* windows come to hear probes, in no time that is known.  Nothing is asked of the
\* user or of the server but an answer.
FairSpec ==
    /\ Spec
    /\ WF_vars(Begin(FALSE)) /\ WF_vars(CheckGoesOn)
    /\ \A w \in Windows : WF_vars(ViewGoesOn(w)) /\ WF_vars(Handle(w))
    /\ WF_vars(Probe) /\ WF_vars(Decide)
    /\ \A w \in Windows : WF_vars(Answer(w)) /\ WF_vars(VetoArrives(w))

-----------------------------------------------------------------------------
\* "A staged ready update is never demoted", nor is what the windows show ever
\* left behind: between checks the state says what is staged, and a window that
\* has heard everything shows that state and no failure beside the prompt.  Not
\* a window into whose mounting a broadcast fell, until it hears another: its
\* seed may be older than that.
StateIsTrue ==
    /\ check = NoCheck /\ readyVersion # 0 => last = Ready(readyVersion)
    /\ \A w \in Windows \ crossed :
          Mounted(w) /\ ~Mounting(w) /\ wire[w] = <<>> =>
              /\ win[w].store = last
              /\ last.status = "ready" => ~win[w].failed

\* The idle loop never restarts over a window whose veto of the last probe has come
\* in, whatever probes and vetoes are still under way.  What else canRestartNow sees,
\* and a restart cuts off, is the work of a window that did not listen when it was
\* asked (its reply is "none"), that has begun it since it said that there is none
\* ("free"), or whose answer is not there when half a second is over ("asked",
\* "vetoing"): nothing stops the restart for those.
SafeRestart ==
    [][gone = "no" /\ gone' = "idle" => \A w \in Windows : reply[w] # "vetoed"]_vars

\* A staged version is prompted for in every window, and what the user armed
\* happens: once the system stays idle with nothing to do, the program restarts.
Quiet == idle /\ \A w \in Windows : work[w] = "none"

UpdateLands ==
    /\ \A w \in Windows, v \in Versions :
          Mounted(w) /\ readyVersion = v ~>
              win[w].toast = v \/ armed \/ readyVersion # v \/ ~Runs
    /\ <>[]Quiet => (armed ~> ~Runs)
=============================================================================
