--------------------------- MODULE UpdatesProofs ---------------------------
(***************************************************************************)
(* That the announced state is true and that the idle loop loses no veto,  *)
(* for any number of windows and versions.                                 *)
(*                                                                         *)
(* The first argument: a window whose mounting no broadcast crossed has    *)
(* been told everything; what it still has to hear ends with the state     *)
(* broadcast last, and until it settles nothing is broadcast.              *)
(***************************************************************************)
EXTENDS Updates, SequenceTheorems, TLAPS

Statuses  == {"idle", "checking", "upToDate", "downloading", "ready", "error"}
StateRec  == [status : Statuses, version : Nat, manual : BOOLEAN]
CheckRec  == [at : {"none", "check", "download", "install"},
              manual : BOOLEAN, version : Nat]
WindowRec == [seed : {"none", "asked", "answered", "settled"}, snap : StateRec,
              listens : BOOLEAN, hears : BOOLEAN, store : StateRec,
              toast : Nat, failed : BOOLEAN]

Types ==
    /\ check \in CheckRec /\ last \in StateRec /\ readyVersion \in Nat
    /\ win \in [Windows -> WindowRec] /\ wire \in [Windows -> Seq(StateRec)]

\* Between checks, a staged version is announced.
StagedIsAnnounced ==
    check = NoCheck /\ readyVersion # 0 => last = Ready(readyVersion)

\* Only who listens is sent broadcasts, and the youngest of them is the state.
YoungestIsLast(w) ==
    /\ win[w].listens => Mounted(w)
    /\ wire[w] # <<>> => win[w].listens /\ wire[w][Len(wire[w])] = last

\* A mounting that no broadcast crossed: nothing is on the wire, and what was
\* asked is still so.
UncrossedKnows(w) ==
    w \notin crossed =>
        /\ Mounting(w) => wire[w] = <<>>
        /\ win[w].seed = "answered" => win[w].snap = last
        /\ win[w].seed = "settled" /\ wire[w] = <<>> => win[w].store = last

\* No failure is shown beside a prompt.
ReadyNotFailed(w) == win[w].store.status = "ready" => ~win[w].failed

ViewTrue(w) == YoungestIsLast(w) /\ UncrossedKnows(w) /\ ReadyNotFailed(w)

IInv == Types /\ StagedIsAnnounced /\ \A w \in Windows : ViewTrue(w)

-----------------------------------------------------------------------------
(* The host *)

LEMMA InitTrue == Init => IInv
BY DEF Init, IInv, Types, StagedIsAnnounced, ViewTrue, YoungestIsLast, UncrossedKnows,
       ReadyNotFailed, Mounted, Mounting, Closed, NoCheck, Plain, State, CheckRec,
       StateRec, WindowRec, Statuses

\* A broadcast reaches every window that listens, and crosses the mounting of
\* every other.
LEMMA BroadcastKeepsViews ==
    ASSUME IInv, NEW s \in StateRec, SetState(s), UNCHANGED win
    PROVE  /\ last' = s /\ last' \in StateRec
           /\ wire' \in [Windows -> Seq(StateRec)]
           /\ \A w \in Windows : ViewTrue(w)'
<1>1. last' = s /\ wire' \in [Windows -> Seq(StateRec)]
  BY DEF SetState, IInv, Types
<1>2. ASSUME NEW w \in Windows PROVE ViewTrue(w)'
  <2>1. /\ wire[w] \in Seq(StateRec) /\ win'[w] = win[w] /\ win[w] \in WindowRec
        /\ wire'[w] = IF win[w].listens THEN Append(wire[w], s) ELSE wire[w]
        /\ w \in crossed' <=> w \in crossed \/ Mounting(w)
        /\ ViewTrue(w)
    BY DEF SetState, IInv, Types
  <2>2. win[w].listens => wire'[w] # <<>> /\ wire'[w][Len(wire'[w])] = s
    BY <2>1
  <2>3. ~win[w].listens => wire'[w] = <<>>
    BY <2>1 DEF ViewTrue, YoungestIsLast
  <2>4. YoungestIsLast(w)'
    BY <1>1, <2>1, <2>2, <2>3 DEF ViewTrue, YoungestIsLast, Mounted
  <2>5. UncrossedKnows(w)'
    BY <1>1, <2>1, <2>2, <2>3
    DEF ViewTrue, YoungestIsLast, UncrossedKnows, Mounting, Mounted
  <2>6. ReadyNotFailed(w)'
    BY <2>1 DEF ViewTrue, ReadyNotFailed
  <2> QED BY <2>4, <2>5, <2>6 DEF ViewTrue
<1> QED BY <1>1, <1>2

LEMMA StateTypes ==
    /\ \A status \in Statuses : Plain(status) \in StateRec
    /\ \A version \in Nat : /\ Ready(version) \in StateRec
                            /\ State("downloading", version, FALSE) \in StateRec
    /\ \A manual \in BOOLEAN : Error(manual) \in StateRec
BY DEF Plain, Ready, Error, State, StateRec, Statuses

\* What a check comes to: the staged version, if there is one.
LEMMA OutcomeType ==
    ASSUME readyVersion \in Nat, NEW s \in StateRec
    PROVE  /\ Outcome(s) \in StateRec
           /\ readyVersion # 0 => Outcome(s) = Ready(readyVersion)
BY StateTypes DEF Outcome

\* The steps of a check.
LEMMA HostKeeps ==
    ASSUME IInv,
           \/ \E manual \in BOOLEAN : Begin(manual)
           \/ Progress \/ CheckGoesOn
    PROVE  IInv'
<1> USE DEF HostStep
<1>0. check \in CheckRec /\ readyVersion \in Nat /\ check.manual \in BOOLEAN
  BY DEF IInv, Types, CheckRec
<1>1. ASSUME NEW manual \in BOOLEAN, Begin(manual) PROVE IInv'
  <2>1. Plain("checking") \in StateRec
    BY StateTypes DEF Statuses
  <2>2. /\ check' \in CheckRec /\ check' # NoCheck /\ readyVersion' = readyVersion
        /\ SetState(Plain("checking")) /\ UNCHANGED win
    BY <1>1 DEF Begin, CheckRec, NoCheck
  <2> QED BY <1>0, <2>1, <2>2, BroadcastKeepsViews DEF IInv, Types, StagedIsAnnounced
<1>2. CASE CheckFails \/ NoUpdate \/ UpdateFails
  <2>1. PICK s \in StateRec : Ends(Outcome(s))
    <3>1. Error(check.manual) \in StateRec /\ Plain("upToDate") \in StateRec
      BY <1>0, StateTypes DEF Statuses
    <3> QED BY <1>2, <3>1 DEF CheckFails, NoUpdate, UpdateFails
  <2>2. UNCHANGED <<win, readyVersion>>
    BY <1>2 DEF CheckFails, NoUpdate, UpdateFails
  <2>3. check' = NoCheck /\ SetState(Outcome(s)) /\ NoCheck \in CheckRec
    BY <2>1 DEF Ends, NoCheck, CheckRec
  <2> QED BY <1>0, <2>2, <2>3, OutcomeType, BroadcastKeepsViews
          DEF IInv, Types, StagedIsAnnounced
<1>3. CASE SameVersion
  <2>1. /\ check' = NoCheck /\ SetState(Ready(readyVersion)) /\ NoCheck \in CheckRec
        /\ UNCHANGED <<win, readyVersion>>
    BY <1>3 DEF SameVersion, Ends, NoCheck, CheckRec
  <2> QED BY <1>0, <2>1, StateTypes, BroadcastKeepsViews
          DEF IInv, Types, StagedIsAnnounced
<1>4. ASSUME NEW version \in Versions, Found(version) PROVE IInv'
  <2>0. version \in Nat
    BY BoundsAssumption DEF Versions
  <2>1. /\ check' \in CheckRec /\ check'.at = "download"
        /\ SetState(State("downloading", version, FALSE))
        /\ UNCHANGED <<win, readyVersion>>
    BY <1>0, <1>4, <2>0 DEF Found, CheckRec
  <2>2. check' # NoCheck
    BY <2>1 DEF NoCheck
  <2> QED BY <1>0, <2>0, <2>1, <2>2, StateTypes, BroadcastKeepsViews
          DEF IInv, Types, StagedIsAnnounced
<1>5. CASE Progress
  <2>1. /\ UNCHANGED <<win, check, readyVersion>> /\ check.at = "download"
        /\ SetState(State("downloading", check.version, FALSE))
        /\ check.version \in Nat
    BY <1>0, <1>5 DEF Progress, CheckRec
  <2>2. check' # NoCheck
    BY <2>1 DEF NoCheck
  <2> QED BY <1>0, <2>1, <2>2, StateTypes, BroadcastKeepsViews
          DEF IInv, Types, StagedIsAnnounced
<1>6. CASE Downloaded
  <2>1. /\ UNCHANGED <<win, last, readyVersion, wire, crossed>>
        /\ check' \in CheckRec /\ check'.at = "install"
    BY <1>0, <1>6 DEF Downloaded, CheckRec
  <2>2. check' # NoCheck
    BY <2>1 DEF NoCheck
  <2> QED BY <2>1, <2>2 DEF IInv, Types, StagedIsAnnounced, ViewTrue, YoungestIsLast,
                            UncrossedKnows, ReadyNotFailed, Mounted, Mounting
<1>7. CASE Installed
  <2>1. /\ check' = NoCheck /\ SetState(Ready(check.version)) /\ NoCheck \in CheckRec
        /\ UNCHANGED win /\ readyVersion' = check.version /\ check.version \in Nat
    BY <1>0, <1>7 DEF Installed, Ends, NoCheck, CheckRec
  <2> QED BY <2>1, StateTypes, BroadcastKeepsViews DEF IInv, Types, StagedIsAnnounced
<1> QED BY <1>1, <1>2, <1>3, <1>4, <1>5, <1>6, <1>7 DEF CheckGoesOn

-----------------------------------------------------------------------------
(* The windows *)

\* The youngest of what is still to be heard stays the youngest.
LEMMA YoungestOfTail ==
    ASSUME NEW S, NEW q \in Seq(S), q # <<>>
    PROVE  /\ Head(q) \in S /\ Tail(q) \in Seq(S)
           /\ Tail(q) = <<>> => Head(q) = q[Len(q)]
           /\ Tail(q) # <<>> => Tail(q)[Len(Tail(q))] = q[Len(q)]
<1>1. /\ Tail(q) \in Seq(S) /\ Len(Tail(q)) = Len(q) - 1 /\ Head(q) \in S
      /\ \A i \in 1 .. Len(Tail(q)) : Tail(q)[i] = q[i + 1]
  BY HeadTailProperties
<1>2. Len(q) \in Nat \ {0} /\ Len(Tail(q)) \in Nat /\ Head(q) = q[1]
  BY <1>1, EmptySeq
<1>3. Tail(q) = <<>> => Len(q) = 1
  <2>1. ASSUME Tail(q) = <<>> PROVE Len(Tail(q)) = 0
    <3>1. Len(<<>>) = 0
      OBVIOUS
    <3> QED BY <2>1, <3>1, Zenon
  <2> QED BY <1>1, <1>2, <2>1
<1>4. Tail(q) # <<>> => Len(Tail(q)) \in Nat \ {0}
  BY <1>1, EmptySeq
<1> QED BY <1>1, <1>2, <1>3, <1>4

\* A step of one window changes nothing for the others.
LEMMA OneWindow ==
    ASSUME IInv, NEW w \in Windows, NEW r \in WindowRec,
           UNCHANGED hostVars, win' = [win EXCEPT ![w] = r],
           \/ UNCHANGED <<wire, crossed>>
           \/ /\ wire' = [wire EXCEPT ![w] = Tail(@)] /\ wire[w] # <<>>
              /\ crossed' \in {crossed, crossed \ {w}},
           ViewTrue(w)'
    PROVE  IInv'
<1>1. /\ win' \in [Windows -> WindowRec] /\ wire' \in [Windows -> Seq(StateRec)]
      /\ \A v \in Windows \ {w} : win'[v] = win[v] /\ wire'[v] = wire[v]
      /\ \A v \in Windows \ {w} : v \in crossed' <=> v \in crossed
  <2>1. wire[w] # <<>> => Tail(wire[w]) \in Seq(StateRec)
    BY YoungestOfTail DEF IInv, Types
  <2> QED BY <2>1 DEF IInv, Types
<1>2. ASSUME NEW v \in Windows \ {w} PROVE ViewTrue(v)'
  BY <1>1 DEF IInv, ViewTrue, YoungestIsLast, UncrossedKnows, ReadyNotFailed,
              Mounted, Mounting, hostVars
<1> QED BY <1>1, <1>2 DEF IInv, Types, StagedIsAnnounced, hostVars

\* What a broadcast leaves of a window that took note of it.
LEMMA ReflectType ==
    ASSUME NEW r \in WindowRec, NEW s \in StateRec,
           r.store.status = "ready" => ~r.failed
    PROVE  /\ Reflect(r, s) \in WindowRec
           /\ \A f \in {"seed", "snap", "listens", "hears", "store"} :
                 Reflect(r, s)[f] = r[f]
           /\ s.status = "ready" => ~Reflect(r, s).failed
BY DEF Reflect, ShowReady, WindowRec, StateRec, Statuses

LEMMA WindowKeeps ==
    ASSUME IInv, NEW w \in Windows, Mount(w) \/ ViewGoesOn(w) \/ Handle(w)
    PROVE  IInv'
<1> USE DEF ViewStep
<1>0. /\ win[w] \in WindowRec /\ wire[w] \in Seq(StateRec) /\ last \in StateRec
      /\ DOMAIN win = Windows /\ DOMAIN wire = Windows
      /\ YoungestIsLast(w) /\ UncrossedKnows(w) /\ ReadyNotFailed(w)
  BY DEF IInv, Types, ViewTrue
<1>1. CASE Mount(w)
  <2> DEFINE r == [win[w] EXCEPT !.seed = "asked"]
  <2>1. r \in WindowRec /\ win' = [win EXCEPT ![w] = r] /\ win'[w] = r
    BY <1>0, <1>1 DEF Mount, WindowRec
  <2>2. UNCHANGED <<hostVars, wire, crossed>>
    BY <1>1 DEF Mount
  <2>3. ViewTrue(w)'
    BY <1>0, <1>1, <2>1, <2>2
    DEF Mount, ViewTrue, YoungestIsLast, UncrossedKnows, ReadyNotFailed, Mounted,
        Mounting, hostVars
  <2> QED BY <2>1, <2>2, <2>3, OneWindow
<1>2. CASE Listens(w)
  <2> DEFINE r == [win[w] EXCEPT !.listens = TRUE]
  <2>1. r \in WindowRec /\ win' = [win EXCEPT ![w] = r] /\ win'[w] = r
    BY <1>0, <1>2 DEF Listens, WindowRec
  <2>2. UNCHANGED <<hostVars, wire, crossed>>
    BY <1>2 DEF Listens
  <2>3. ViewTrue(w)'
    BY <1>0, <1>2, <2>1, <2>2
    DEF Listens, ViewTrue, YoungestIsLast, UncrossedKnows, ReadyNotFailed, Mounted,
        Mounting, hostVars
  <2> QED BY <2>1, <2>2, <2>3, OneWindow
<1>3. CASE HearsProbes(w)
  <2> DEFINE r == [win[w] EXCEPT !.hears = TRUE]
  <2>1. r \in WindowRec /\ win' = [win EXCEPT ![w] = r] /\ win'[w] = r
    BY <1>0, <1>3 DEF HearsProbes, WindowRec
  <2>2. UNCHANGED <<hostVars, wire, crossed>>
    BY <1>3 DEF HearsProbes
  <2>3. ViewTrue(w)'
    BY <1>0, <2>1, <2>2
    DEF ViewTrue, YoungestIsLast, UncrossedKnows, ReadyNotFailed, Mounted, Mounting,
        hostVars
  <2> QED BY <2>1, <2>2, <2>3, OneWindow
<1>4. CASE Snapshot(w)
  <2> DEFINE r == [win[w] EXCEPT !.seed = "answered", !.snap = last]
  <2>1. r \in WindowRec /\ win' = [win EXCEPT ![w] = r] /\ win'[w] = r
    BY <1>0, <1>4 DEF Snapshot, WindowRec
  <2>2. UNCHANGED <<hostVars, wire, crossed>>
    BY <1>4 DEF Snapshot
  <2>3. ViewTrue(w)'
    BY <1>0, <1>4, <2>1, <2>2
    DEF Snapshot, ViewTrue, YoungestIsLast, UncrossedKnows, ReadyNotFailed, Mounted,
        Mounting, hostVars
  <2> QED BY <2>1, <2>2, <2>3, OneWindow
<1>5. CASE Seed(w)
  <2> DEFINE seeded == [win[w] EXCEPT !.seed = "settled", !.store = win[w].snap,
                                      !.snap = Plain("idle")]
             r == IF win[w].snap.status = "ready" /\ win[w].store.status # "ready"
                  THEN ShowReady(seeded, win[w].snap.version) ELSE seeded
  <2>1. seeded \in WindowRec /\ r \in WindowRec
    BY <1>0, StateTypes DEF WindowRec, StateRec, ShowReady, Statuses
  <2>2. /\ r.seed = "settled" /\ r.listens = win[w].listens /\ r.store = win[w].snap
        /\ r.store.status = "ready" => ~r.failed
    BY <1>0 DEF WindowRec, ShowReady, ReadyNotFailed
  <2>3. win' = [win EXCEPT ![w] = r] /\ win'[w] = r /\ win[w].seed = "answered"
    BY <1>0, <1>5 DEF Seed
  <2>4. UNCHANGED <<hostVars, wire, crossed>>
    BY <1>5 DEF Seed
  <2> HIDE DEF r, seeded
  <2>5. ViewTrue(w)'
    BY <1>0, <2>2, <2>3, <2>4
    DEF ViewTrue, YoungestIsLast, UncrossedKnows, ReadyNotFailed, Mounted, Mounting,
        hostVars
  <2> QED BY <2>1, <2>3, <2>4, <2>5, OneWindow
<1>6. CASE Handle(w)
  <2> DEFINE s == Head(wire[w])
             r == [Reflect(win[w], s) EXCEPT !.store = s]
  <2>1. wire[w] # <<>> /\ s \in StateRec
    BY <1>0, <1>6 DEF Handle
  <2>2. /\ Reflect(win[w], s) \in WindowRec
        /\ Reflect(win[w], s).seed = win[w].seed
        /\ Reflect(win[w], s).snap = win[w].snap
        /\ Reflect(win[w], s).listens = win[w].listens
        /\ s.status = "ready" => ~Reflect(win[w], s).failed
    BY <1>0, <2>1, ReflectType DEF ReadyNotFailed
  <2>3. /\ r \in WindowRec /\ r.seed = win[w].seed /\ r.snap = win[w].snap
        /\ r.listens = win[w].listens /\ r.store = s
        /\ s.status = "ready" => ~r.failed
    <3> HIDE DEF s
    <3> QED BY <2>1, <2>2 DEF WindowRec
  <2>4. /\ win' = [win EXCEPT ![w] = r] /\ win'[w] = r
        /\ wire' = [wire EXCEPT ![w] = Tail(@)] /\ wire'[w] = Tail(wire[w])
        /\ crossed' = IF Mounting(w) THEN crossed ELSE crossed \ {w}
        /\ UNCHANGED hostVars
    BY <1>0, <1>6 DEF Handle
  <2>5. /\ Tail(wire[w]) = <<>> => s = last
        /\ Tail(wire[w]) # <<>> => Tail(wire[w])[Len(Tail(wire[w]))] = last
        /\ win[w].listens
    BY <1>0, <2>1, YoungestOfTail DEF YoungestIsLast
  <2> HIDE DEF r, s
  <2>6. ViewTrue(w)'
    BY <1>0, <2>1, <2>3, <2>4, <2>5
    DEF ViewTrue, YoungestIsLast, UncrossedKnows, ReadyNotFailed, Mounted, Mounting,
        hostVars
  <2> QED BY <2>1, <2>3, <2>4, <2>6, OneWindow
<1> QED BY <1>1, <1>2, <1>3, <1>4, <1>5, <1>6 DEF ViewGoesOn

\* Restarting.
LEMMA RestartKeeps ==
    ASSUME IInv,
           \/ \E w \in Windows : RestartNow(w) \/ RestartWhenIdle(w)
           \/ IdleGoesOn \/ IdleChanges
           \/ \E w \in Windows : \E next \in {"none", "unseen", "seen"} : Works(w, next)
           \/ UNCHANGED vars
    PROVE  IInv'
<1>1. ASSUME NEW w \in Windows, RestartWhenIdle(w) PROVE IInv'
  <2> DEFINE r == [win[w] EXCEPT !.toast = 0]
  <2>1. /\ r \in WindowRec /\ win' = [win EXCEPT ![w] = r] /\ win'[w] = r
        /\ UNCHANGED <<hostVars, wire, crossed>>
    BY <1>1 DEF RestartWhenIdle, WindowRec, IInv, Types
  <2>2. ViewTrue(w)'
    BY <2>1 DEF IInv, ViewTrue, YoungestIsLast, UncrossedKnows, ReadyNotFailed, Mounted,
                Mounting, hostVars, Types, WindowRec
  <2> QED BY <2>1, <2>2, OneWindow
<1>2. CASE UNCHANGED <<hostVars, viewVars>>
  BY <1>2 DEF IInv, Types, StagedIsAnnounced, ViewTrue, YoungestIsLast, UncrossedKnows,
              ReadyNotFailed, Mounted, Mounting, hostVars, viewVars
<1> QED BY <1>1, <1>2 DEF RestartNow, Probe, IdleGoesOn, Decide, Answer, VetoArrives,
                          IdleStep, IdleChanges, Works, vars

LEMMA NextTrue == IInv /\ [Next]_vars => IInv'
BY HostKeeps, WindowKeeps, RestartKeeps DEF Next

\* "A staged ready update is never demoted" (updater.rs), and a window that has
\* heard everything shows what the host announced.
THEOREM StateIsTrueAlways == Spec => []StateIsTrue
<1>1. IInv => StateIsTrue
  BY DEF IInv, StagedIsAnnounced, ViewTrue, UncrossedKnows, ReadyNotFailed, StateIsTrue,
         Mounting
<1> QED BY <1>1, InitTrue, NextTrue, PTL DEF Spec

-----------------------------------------------------------------------------
(* The idle loop *)

\* A veto of the last probe that has arrived is in the flag, which is reset by the
\* next probe only.
VetoIsKept ==
    /\ reply \in [Windows -> {"none", "asked", "free", "vetoing", "vetoed"}]
    /\ \A w \in Windows : reply[w] = "vetoed" => vetoed

LEMMA VetoIsKeptAlways == Spec => []VetoIsKept
<1>1. Init => VetoIsKept
  BY DEF Init, VetoIsKept
<1>2. VetoIsKept /\ [Next]_vars => VetoIsKept'
  <2> SUFFICES ASSUME VetoIsKept, [Next]_vars PROVE VetoIsKept'
    OBVIOUS
  <2>1. CASE UNCHANGED <<reply, vetoed>>
    BY <2>1 DEF VetoIsKept
  <2>2. CASE Probe \/ Decide
    BY <2>2 DEF VetoIsKept, Probe, Decide
  <2>3. ASSUME NEW w \in Windows, Answer(w) \/ VetoArrives(w) PROVE VetoIsKept'
    BY <2>3 DEF VetoIsKept, Answer, VetoArrives
  <2>4. CASE \/ \E manual \in BOOLEAN : Begin(manual)
             \/ Progress \/ CheckGoesOn
    BY <2>1, <2>4 DEF Begin, Progress, CheckGoesOn, CheckFails, NoUpdate, SameVersion,
                      Found, Downloaded, UpdateFails, Installed, HostStep, idleVars
  <2>5. CASE \E w \in Windows : Mount(w) \/ ViewGoesOn(w) \/ Handle(w)
    BY <2>1, <2>5 DEF Mount, ViewGoesOn, Listens, HearsProbes, Snapshot, Seed, Handle,
                      ViewStep, idleVars
  <2>6. CASE \/ \E w \in Windows : RestartNow(w) \/ RestartWhenIdle(w)
             \/ IdleChanges \/ UNCHANGED vars
             \/ \E w \in Windows : \E next \in {"none", "unseen", "seen"} : Works(w, next)
    BY <2>1, <2>6 DEF RestartNow, RestartWhenIdle, IdleChanges, Works, idleVars, vars
  <2> QED BY <2>2, <2>3, <2>4, <2>5, <2>6 DEF Next, IdleGoesOn
<1> QED BY <1>1, <1>2, PTL DEF Spec

\* The idle loop of updater.rs never restarts over a veto of its probe that has come in.
THEOREM RestartsSafely == Spec => SafeRestart
<1> DEFINE Safe == gone = "no" /\ gone' = "idle" => \A w \in Windows : reply[w] # "vetoed"
<1>1. VetoIsKept /\ [Next]_vars => [Safe]_vars
  <2> SUFFICES ASSUME VetoIsKept, Next, gone = "no", gone' = "idle"
               PROVE  \A w \in Windows : reply[w] # "vetoed"
    OBVIOUS
  <2>1. Decide
    BY DEF Next, IdleGoesOn, Begin, Progress, CheckGoesOn, CheckFails, NoUpdate,
           SameVersion, Found, Downloaded, UpdateFails, Installed, HostStep, Mount,
           ViewGoesOn, Listens, HearsProbes, Snapshot, Seed, Handle, ViewStep,
           RestartNow, RestartWhenIdle, Probe, Answer, VetoArrives, IdleStep,
           IdleChanges, Works, vars
  <2> QED BY <2>1 DEF Decide, VetoIsKept
<1> QED BY <1>1, VetoIsKeptAlways, PTL DEF Spec, SafeRestart
=============================================================================
