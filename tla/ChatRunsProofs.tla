--------------------------- MODULE ChatRunsProofs ---------------------------
(***************************************************************************)
(* That a thread never streams two answers, that no message is lost or said *)
(* twice and every transcript is in order, and that what the chat panel     *)
(* keeps stays defined, for any number of threads, messages and deaths of   *)
(* the sidecar.  The argument: everything there is of a message, parked, in *)
(* a transcript, in one that is being rewritten or at work, belongs to one  *)
(* thread.  So whatever starts a run does it for a message that is at work  *)
(* nowhere else, in a thread whose status, which the guards look at, says   *)
(* that it is at rest; and what runs is the last thing said there.          *)
(***************************************************************************)
EXTENDS ChatRuns, SequenceTheorems, FiniteSetTheorems, TLAPS

RunRec == [thread : Threads \cup {None},
           at : {"none", "prepare", "start", "await", "over"},
           settled : BOOLEAN,
           side : {"none", "unheard", "ended", "lost"} \cup AtWork,
           cancel : {"no", "sent", "arrived"},
           word : BOOLEAN]

Turn == [who : {"user", "assistant"}, msg : Msgs]

\* The types that the argument rests on.
Types ==
    /\ visible \in Threads
    /\ status \in [Threads -> {"idle", "streaming"}]
    /\ turn \in [Threads -> Msgs \cup {None}]
    /\ queued \in [Threads -> Seq(Msgs)]
    /\ script \in [Threads -> Seq(Turn)]
    /\ rewrite \in [Threads -> Seq(Turn) \cup {None}]
    /\ run \in [Msgs -> RunRec]
    /\ \A m \in Msgs : Running(m) => run[m].thread \in Threads

\* Message m is, in one way or another, in thread t.
Touches(m, t) ==
    \/ \E i \in DOMAIN queued[t] : queued[t][i] = m
    \/ \E i \in DOMAIN script[t] : script[t][i].msg = m
    \/ rewrite[t] # None /\ \E i \in DOMAIN rewrite[t] : rewrite[t][i].msg = m
    \/ Running(m) /\ run[m].thread = t

OneHome ==
    \A m \in Msgs : \A t, u \in Threads : Touches(m, t) /\ Touches(m, u) => t = u

\* What is in a thread has been submitted.
Known == \A m \in Msgs : \A t \in Threads : Touches(m, t) => m \in taken \cup gone

IInv == Types /\ OneHome /\ Known /\ OneStream

-----------------------------------------------------------------------------
(* Sequences: where the elements of a changed sequence come from *)

LEMMA AppendElems ==
    ASSUME NEW S, NEW s \in Seq(S), NEW x \in S
    PROVE  /\ Append(s, x) \in Seq(S)
           /\ \A i \in DOMAIN Append(s, x) :
                 \/ i \in DOMAIN s /\ Append(s, x)[i] = s[i]
                 \/ Append(s, x)[i] = x
OBVIOUS

LEMMA TailElems ==
    ASSUME NEW S, NEW s \in Seq(S), s # <<>>
    PROVE  /\ Tail(s) \in Seq(S) /\ Head(s) \in S
           /\ \E j \in DOMAIN s : s[j] = Head(s)
           /\ \A i \in DOMAIN Tail(s) : \E j \in DOMAIN s : s[j] = Tail(s)[i]
OBVIOUS

LEMMA FrontElems ==
    ASSUME NEW S, NEW s \in Seq(S), Len(s) >= 2
    PROVE  /\ Front(s) \in Seq(S)
           /\ \A i \in DOMAIN Front(s) : i \in DOMAIN s /\ s[i] = Front(s)[i]
           /\ Len(s) - 1 \in DOMAIN s /\ s[Len(s) - 1] \in S
BY DEF Front

LEMMA RemoveAtElems ==
    ASSUME NEW S, NEW s \in Seq(S), NEW i \in DOMAIN s
    PROVE  /\ RemoveAt(s, i) \in Seq(S)
           /\ \A k \in DOMAIN RemoveAt(s, i) :
                 \E j \in DOMAIN s : s[j] = RemoveAt(s, i)[k]
<1> DEFINE a == SubSeq(s, 1, i - 1)
           b == SubSeq(s, i + 1, Len(s))
<1>0. i \in 1..Len(s) /\ Len(s) \in Nat
  OBVIOUS
<1>1. a \in Seq(S) /\ Len(a) = i - 1 /\ \A k \in 1..(i - 1) : a[k] = s[k]
  BY <1>0
<1>2. b \in Seq(S) /\ Len(b) = Len(s) - i /\ \A k \in 1..(Len(s) - i) : b[k] = s[i + k]
  BY <1>0
<1>3. RemoveAt(s, i) = a \o b
  BY DEF RemoveAt
<1> HIDE DEF a, b
<1>4. a \o b \in Seq(S) /\ Len(a \o b) = Len(s) - 1
  BY <1>0, <1>1, <1>2
<1>5. ASSUME NEW k \in DOMAIN (a \o b)
      PROVE  \E j \in DOMAIN s : s[j] = (a \o b)[k]
  <2>0. k \in 1..(Len(s) - 1)
    BY <1>4
  <2>1. CASE k < i
    <3>1. (a \o b)[k] = a[k] /\ a[k] = s[k]
      BY <2>0, <2>1, <1>0, <1>1, <1>2
    <3> QED
      BY <3>1, <2>0, <1>0
  <2>2. CASE k >= i
    <3>1. (a \o b)[k] = b[k - (i - 1)]
      BY <2>0, <2>2, <1>0, <1>1, <1>2
    <3>2. b[k - (i - 1)] = s[k + 1]
      BY <2>0, <2>2, <1>0, <1>2
    <3> QED
      BY <3>1, <3>2, <2>0, <1>0
  <2> QED
    BY <2>0, <2>1, <2>2, <1>0
<1> QED
  BY <1>3, <1>4, <1>5

-----------------------------------------------------------------------------
(* What kinds of steps keep the invariant *)

\* A step that puts no message anywhere new.
LEMMA HomeKeeps ==
    ASSUME OneHome, Known,
           \A m \in Msgs : \A t \in Threads : Touches(m, t)' => Touches(m, t),
           taken \cup gone \subseteq taken' \cup gone'
    PROVE  OneHome' /\ Known'
<1>1. OneHome'
  BY DEF OneHome
<1>2. Known'
  BY DEF Known
<1> QED
  BY <1>1, <1>2

\* A step that puts a message that has not been submitted into one thread.
LEMMA HomeGrows ==
    ASSUME OneHome, Known,
           NEW f \in Msgs \ (taken \cup gone), NEW v \in Threads,
           \A m \in Msgs : \A t \in Threads :
              Touches(m, t)' => Touches(m, t) \/ (m = f /\ t = v),
           taken \cup gone \cup {f} \subseteq taken' \cup gone'
    PROVE  OneHome' /\ Known'
<1>0. \A t \in Threads : ~Touches(f, t)
  BY DEF Known
<1>1. OneHome'
  BY <1>0 DEF OneHome
<1>2. Known'
  BY DEF Known
<1> QED
  BY <1>1, <1>2

\* A run that gets on, or is told something: it is at work where it was.
LEMMA Tweaks ==
    ASSUME IInv, run' \in [Msgs -> RunRec],
           \A m \in Msgs : /\ Running(m)' <=> Running(m)
                           /\ run'[m].thread = run[m].thread,
           UNCHANGED <<visible, status, turn, queued, script, rewrite, taken, gone, crossed>>
    PROVE  IInv'
<1>1. Types'
  BY DEF IInv, Types
<1>2. \A m \in Msgs : \A t \in Threads : Touches(m, t)' => Touches(m, t)
  BY DEF Touches
<1>3. OneHome' /\ Known'
  BY <1>2, HomeKeeps DEF IInv
<1>4. \A t \in Threads : Live(t)' = Live(t)
  BY DEF Live
<1>5. OneStream'
  BY <1>4 DEF IInv, OneStream
<1> QED
  BY <1>1, <1>3, <1>5 DEF IInv

\* A run that begins in a thread at rest, for a message at work nowhere else.
LEMMA Begins ==
    ASSUME Types, OneStream, NEW t \in Threads, NEW m \in Msgs, Begin(t, m),
           Running(m) => run[m].thread = t,
           crossed \subseteq crossed',
           t \notin crossed' => Live(t) = {}
    PROVE  /\ OneStream'
           /\ status' \in [Threads -> {"idle", "streaming"}]
           /\ turn' \in [Threads -> Msgs \cup {None}]
           /\ run' \in [Msgs -> RunRec]
           /\ \A x \in Msgs : Running(x)' => run'[x].thread \in Threads
           /\ \A x \in Msgs : \A u \in Threads :
                 (Running(x) /\ run[x].thread = u)' =>
                    (Running(x) /\ run[x].thread = u) \/ (x = m /\ u = t)
<1>1. /\ run' \in [Msgs -> RunRec]
      /\ run'[m].thread = t /\ Running(m)'
      /\ \A x \in Msgs \ {m} : run'[x] = run[x] /\ (Running(x)' <=> Running(x))
  BY DEF Begin, Types, RunRec, NoRun, Running
<1>2. status' \in [Threads -> {"idle", "streaming"}]
  BY DEF Begin, Types
<1>3. turn' \in [Threads -> Msgs \cup {None}]
  BY DEF Begin, Types
<1>4. \A x \in Msgs : Running(x)' => run'[x].thread \in Threads
  BY <1>1 DEF Types
<1>5. OneStream'
  <2> SUFFICES ASSUME NEW u \in Threads, u \notin crossed'
               PROVE  /\ Live(u)' = {turn'[u]} \ {None}
                      /\ status'[u] = "streaming" <=> Live(u)' # {}
    BY DEF OneStream
  <2>1. CASE u = t
    <3>1. Live(u)' = {m}
      BY <2>1, <1>1 DEF Live
    <3>2. turn'[u] = m /\ status'[u] = "streaming"
      BY <2>1 DEF Begin, Types
    <3> QED
      BY <3>1, <3>2, NoneAssumption
  <2>2. CASE u # t
    <3>1. Live(u)' = Live(u)
      BY <2>2, <1>1 DEF Live
    <3>2. turn'[u] = turn[u] /\ status'[u] = status[u]
      BY <2>2 DEF Begin, Types
    <3> QED
      BY <3>1, <3>2 DEF OneStream
  <2> QED
    BY <2>1, <2>2
<1> QED
  BY <1>1, <1>2, <1>3, <1>4, <1>5

LEMMA OverIsRecord ==
    ASSUME NEW r \in RunRec
    PROVE  Over(r) \in RunRec /\ Over(r).at = "over" /\ Over(r).thread = r.thread
BY DEF Over, NoRun, RunRec

\* A run that ends, with its answer written under it.
LEMMA Commits ==
    ASSUME IInv, NEW m \in Msgs, Running(m), Commit(m)
    PROVE  IInv'
<1> DEFINE t == run[m].thread
<1> USE DEF IInv
<1>0. t \in Threads
  BY DEF Types
<1>1. /\ run' \in [Msgs -> RunRec]
      /\ ~Running(m)'
      /\ \A x \in Msgs \ {m} : run'[x] = run[x] /\ (Running(x)' <=> Running(x))
  <2>1. run[m] \in RunRec
    BY DEF Types
  <2>2. Over(run[m]) \in RunRec /\ Over(run[m]).at = "over"
    BY <2>1, OverIsRecord
  <2>3. run' = [run EXCEPT ![m] = Over(run[m])]
    BY DEF Commit
  <2> QED
    BY <2>2, <2>3 DEF Types, Running
<1>2. /\ script' = [script EXCEPT ![t] = Append(script[t], Says("assistant", m))]
      /\ script[t] \in Seq(Turn) /\ Says("assistant", m) \in Turn
      /\ Says("assistant", m).msg = m
  BY <1>0 DEF Commit, Types, Says, Turn
<1>3. /\ script' \in [Threads -> Seq(Turn)]
      /\ \A u \in Threads : u # t => script'[u] = script[u]
      /\ \A j \in DOMAIN script'[t] :
            \/ j \in DOMAIN script[t] /\ script[t][j] = script'[t][j]
            \/ script'[t][j].msg = m
  <2>1. /\ Append(script[t], Says("assistant", m)) \in Seq(Turn)
        /\ \A j \in DOMAIN Append(script[t], Says("assistant", m)) :
              \/ j \in DOMAIN script[t]
                 /\ Append(script[t], Says("assistant", m))[j] = script[t][j]
              \/ Append(script[t], Says("assistant", m))[j] = Says("assistant", m)
    BY <1>2, AppendElems
  <2> HIDE DEF t
  <2> QED
    BY <1>0, <1>2, <2>1 DEF Types
<1>4. UNCHANGED <<visible, rewrite, queued, taken, gone, crossed>>
  BY DEF Commit, histVars
<1>5. Types'
  <2>1. status' \in [Threads -> {"idle", "streaming"}] /\ turn' \in [Threads -> Msgs \cup {None}]
    BY <1>0 DEF Commit, Types
  <2>2. \A x \in Msgs : Running(x)' => run'[x].thread \in Threads
    BY <1>1 DEF Types
  <2> QED
    BY <1>1, <1>3, <1>4, <2>1, <2>2 DEF Types
<1>6. \A x \in Msgs : \A u \in Threads : Touches(x, u)' => Touches(x, u)
  <2>1. Touches(m, t)
    BY DEF Touches
  <2> HIDE DEF t
  <2> QED
    BY <1>1, <1>3, <1>4, <2>1 DEF Touches
<1>7. OneHome' /\ Known'
  BY <1>4, <1>6, HomeKeeps
<1>8. OneStream'
  <2> SUFFICES ASSUME NEW u \in Threads, u \notin crossed
               PROVE  /\ Live(u)' = {turn'[u]} \ {None}
                      /\ status'[u] = "streaming" <=> Live(u)' # {}
    BY <1>4 DEF OneStream
  <2>1. CASE u = t
    <3>1. Live(u) = {m}
      <4>1. m \in Live(u)
        BY <2>1 DEF Live
      <4> QED
        BY <4>1 DEF OneStream
    <3>2. Live(u)' = {}
      BY <3>1, <1>1 DEF Live
    <3>3. turn'[u] = None /\ status'[u] = "idle"
      BY <2>1 DEF Commit, Types
    <3> QED
      BY <3>2, <3>3
  <2>2. CASE u # t
    <3>1. Live(u)' = Live(u)
      BY <2>2, <1>1 DEF Live
    <3>2. turn'[u] = turn[u] /\ status'[u] = status[u]
      BY <2>2 DEF Commit, Types
    <3> QED
      BY <3>1, <3>2 DEF OneStream
  <2> QED
    BY <2>1, <2>2
<1> QED
  BY <1>5, <1>7, <1>8

-----------------------------------------------------------------------------
(* The user's steps, and the drain *)

LEMMA FreshIsFresh ==
    ASSUME Unsent # {}
    PROVE  Fresh \in Msgs \ (taken \cup gone)
<1>1. Fresh \in Unsent
  BY DEF Fresh
<1> QED
  BY <1>1 DEF Unsent

\* A turn of the user's is written and its message begins to run, in one step.
LEMMA WriteAndBegin ==
    ASSUME IInv, NEW t \in Threads, NEW m \in Msgs, Write(t, m), Begin(t, m),
           UNCHANGED <<visible, rewrite>>,
           queued' \in [Threads -> Seq(Msgs)],
           \A x \in Msgs : \A u \in Threads :
              (\E i \in DOMAIN queued'[u] : queued'[u][i] = x) =>
                 (\E i \in DOMAIN queued[u] : queued[u][i] = x),
           Running(m) => run[m].thread = t,
           crossed \subseteq crossed',
           t \notin crossed' => Live(t) = {}
    PROVE  /\ Types' /\ OneStream'
           /\ \A x \in Msgs : \A u \in Threads :
                 Touches(x, u)' => Touches(x, u) \/ (x = m /\ u = t)
<1> USE DEF IInv
<1>1. /\ OneStream'
      /\ status' \in [Threads -> {"idle", "streaming"}]
      /\ turn' \in [Threads -> Msgs \cup {None}]
      /\ run' \in [Msgs -> RunRec]
      /\ \A x \in Msgs : Running(x)' => run'[x].thread \in Threads
      /\ \A x \in Msgs : \A u \in Threads :
            (Running(x) /\ run[x].thread = u)' =>
               (Running(x) /\ run[x].thread = u) \/ (x = m /\ u = t)
  BY Begins
<1>2. /\ script' = [script EXCEPT ![t] = Append(script[t], Says("user", m))]
      /\ script[t] \in Seq(Turn) /\ Says("user", m) \in Turn
      /\ Says("user", m).msg = m
  BY DEF Write, Types, Says, Turn
<1>3. /\ script' \in [Threads -> Seq(Turn)]
      /\ \A u \in Threads : u # t => script'[u] = script[u]
      /\ \A j \in DOMAIN script'[t] :
            \/ j \in DOMAIN script[t] /\ script[t][j] = script'[t][j]
            \/ script'[t][j].msg = m
  <2>1. /\ Append(script[t], Says("user", m)) \in Seq(Turn)
        /\ \A j \in DOMAIN Append(script[t], Says("user", m)) :
              \/ j \in DOMAIN script[t]
                 /\ Append(script[t], Says("user", m))[j] = script[t][j]
              \/ Append(script[t], Says("user", m))[j] = Says("user", m)
    BY <1>2, AppendElems
  <2> QED
    BY <1>2, <2>1 DEF Types
<1>4. Types'
  BY <1>1, <1>3 DEF Types
<1>5. ASSUME NEW x \in Msgs, NEW u \in Threads, Touches(x, u)'
      PROVE  Touches(x, u) \/ (x = m /\ u = t)
  BY <1>1, <1>3, <1>5 DEF Touches
<1> QED
  BY <1>1, <1>4, <1>5

LEMMA SendKeeps ==
    ASSUME IInv, Send
    PROVE  IInv'
<1> DEFINE v == visible
           m == Fresh
<1> USE DEF IInv
<1>0. /\ m \in Msgs \ (taken \cup gone) /\ v \in Threads
      /\ UNCHANGED <<visible, rewrite, gone, crossed>> /\ taken' = taken \cup {m}
  BY FreshIsFresh DEF Send, Types
<1>1. \A u \in Threads : ~Touches(m, u)
  BY <1>0 DEF Known
<1>2. ~Running(m)
  BY <1>0, <1>1 DEF Touches, Types
<1>3. CASE Park(v, m)
  <2>1. /\ queued' = [queued EXCEPT ![v] = Append(queued[v], m)]
        /\ UNCHANGED <<status, turn, script, run>>
    BY <1>3 DEF Park
  <2>2. /\ Append(queued[v], m) \in Seq(Msgs)
        /\ \A i \in DOMAIN Append(queued[v], m) :
              \/ i \in DOMAIN queued[v] /\ Append(queued[v], m)[i] = queued[v][i]
              \/ Append(queued[v], m)[i] = m
    <3>1. queued[v] \in Seq(Msgs)
      BY <1>0 DEF Types
    <3> QED
      BY <1>0, <3>1, AppendElems
  <2>3. /\ queued' \in [Threads -> Seq(Msgs)]
        /\ \A u \in Threads : u # v => queued'[u] = queued[u]
        /\ queued'[v] = Append(queued[v], m)
    BY <1>0, <2>1, <2>2 DEF Types
  <2>4. Types'
    BY <1>0, <2>1, <2>3 DEF Types, Running
  <2>5. \A x \in Msgs : \A u \in Threads :
           Touches(x, u)' => Touches(x, u) \/ (x = m /\ u = v)
    BY <1>0, <2>1, <2>2, <2>3 DEF Touches, Running
  <2>6. OneHome' /\ Known'
    BY <1>0, <2>5, HomeGrows
  <2>7. OneStream'
    BY <1>0, <2>1 DEF OneStream, Live, Running
  <2> QED
    BY <2>4, <2>6, <2>7
<1>4. CASE SendNow(v, m)
  <2>1. status[v] # "streaming" /\ Write(v, m) /\ Begin(v, m) /\ UNCHANGED queued
    BY <1>4 DEF SendNow
  <2>2. v \notin crossed' => Live(v) = {}
    BY <1>0, <2>1 DEF OneStream
  <2>3. /\ Types' /\ OneStream'
        /\ \A x \in Msgs : \A u \in Threads :
              Touches(x, u)' => Touches(x, u) \/ (x = m /\ u = v)
    <3>1. queued' \in [Threads -> Seq(Msgs)]
      BY <2>1 DEF Types
    <3> HIDE DEF v, m, IInv
    <3> QED
      BY <1>0, <1>2, <2>1, <2>2, <3>1, WriteAndBegin
  <2>4. OneHome' /\ Known'
    BY <1>0, <2>3, HomeGrows
  <2> QED
    BY <2>3, <2>4
<1> QED
  BY <1>3, <1>4 DEF Send

LEMMA SlashCommandKeeps ==
    ASSUME IInv, SlashCommand
    PROVE  IInv'
<1> DEFINE v == visible
           m == Fresh
<1>0. /\ m \in Msgs \ (taken \cup gone) /\ v \in Threads
      /\ UNCHANGED <<visible, rewrite, queued, gone>> /\ taken' = taken \cup {m}
      /\ Write(v, m) /\ Begin(v, m)
      /\ crossed \subseteq crossed' /\ (v \notin crossed' => Live(v) = {})
  BY FreshIsFresh DEF SlashCommand, IInv, Types
<1>1. \A u \in Threads : ~Touches(m, u)
  BY <1>0 DEF IInv, Known
<1>2. ~Running(m)
  BY <1>0, <1>1 DEF IInv, Touches, Types
<1>3. queued' \in [Threads -> Seq(Msgs)]
  BY <1>0 DEF IInv, Types
<1> HIDE DEF v, m
<1>4. /\ Types' /\ OneStream'
      /\ \A x \in Msgs : \A u \in Threads :
            Touches(x, u)' => Touches(x, u) \/ (x = m /\ u = v)
  BY <1>0, <1>2, <1>3, WriteAndBegin
<1>5. OneHome' /\ Known'
  BY <1>0, <1>4, HomeGrows DEF IInv
<1> QED
  BY <1>4, <1>5 DEF IInv

LEMMA DrainKeeps ==
    ASSUME IInv, Drain
    PROVE  IInv'
<1> DEFINE v == visible
           m == Head(queued[v])
<1> USE DEF IInv
<1>0. /\ v \in Threads /\ status[v] # "streaming" /\ queued[v] # <<>>
      /\ queued' = [queued EXCEPT ![v] = Tail(queued[v])]
      /\ Write(v, m) /\ Begin(v, m)
      /\ UNCHANGED <<visible, rewrite, taken, gone, crossed>>
  BY DEF Drain, Types, histVars
<1>1. queued[v] \in Seq(Msgs)
  BY <1>0 DEF Types
<1>2. /\ Tail(queued[v]) \in Seq(Msgs) /\ m \in Msgs
      /\ \E j \in DOMAIN queued[v] : queued[v][j] = m
      /\ \A i \in DOMAIN Tail(queued[v]) :
            \E j \in DOMAIN queued[v] : queued[v][j] = Tail(queued[v])[i]
  BY <1>0, <1>1, TailElems
<1>3. Touches(m, v)
  BY <1>2 DEF Touches
<1>4. Running(m) => run[m].thread = v
  BY <1>0, <1>2, <1>3 DEF OneHome, Touches, Types
<1>5. v \notin crossed' => Live(v) = {}
  BY <1>0 DEF OneStream
<1>6. /\ queued' \in [Threads -> Seq(Msgs)]
      /\ queued'[v] = Tail(queued[v])
      /\ \A u \in Threads : u # v => queued'[u] = queued[u]
  BY <1>0, <1>2 DEF Types
<1> HIDE DEF v, m
<1>7. \A x \in Msgs : \A u \in Threads :
         (\E i \in DOMAIN queued'[u] : queued'[u][i] = x) =>
            (\E i \in DOMAIN queued[u] : queued[u][i] = x)
  BY <1>2, <1>6
<1>8. /\ Types' /\ OneStream'
      /\ \A x \in Msgs : \A u \in Threads :
            Touches(x, u)' => Touches(x, u) \/ (x = m /\ u = v)
  <2> HIDE DEF IInv
  <2> QED
    BY <1>0, <1>2, <1>4, <1>5, <1>6, <1>7, WriteAndBegin
<1>9. OneHome' /\ Known'
  BY <1>0, <1>3, <1>8, HomeKeeps
<1> QED
  BY <1>8, <1>9

LEMMA RegenerateKeeps ==
    ASSUME IInv, Regenerate
    PROVE  IInv'
<1> DEFINE v == visible
           turns == script[v]
           m == turns[Len(turns) - 1].msg
<1> USE DEF IInv
<1>0. /\ v \in Threads /\ status[v] # "streaming" /\ Len(turns) >= 2
      /\ Begin(v, m)
      /\ rewrite' = [rewrite EXCEPT ![v] = Front(turns)]
      /\ UNCHANGED <<visible, queued, script, taken, gone, crossed>>
  BY DEF Regenerate, Types, histVars
<1>1. turns \in Seq(Turn)
  BY <1>0 DEF Types
<1>2. /\ Front(turns) \in Seq(Turn)
      /\ \A i \in DOMAIN Front(turns) : i \in DOMAIN turns /\ turns[i] = Front(turns)[i]
      /\ Len(turns) - 1 \in DOMAIN turns /\ turns[Len(turns) - 1] \in Turn
  <2> HIDE DEF turns
  <2> QED
    BY <1>0, <1>1, FrontElems
<1>3. m \in Msgs /\ Touches(m, v)
  BY <1>2 DEF Touches, Turn
<1>4. Running(m) => run[m].thread = v
  BY <1>0, <1>3 DEF OneHome, Touches, Types
<1>5. v \notin crossed' => Live(v) = {}
  BY <1>0 DEF OneStream
<1>6. /\ rewrite' \in [Threads -> Seq(Turn) \cup {None}]
      /\ rewrite'[v] = Front(turns)
      /\ \A u \in Threads : u # v => rewrite'[u] = rewrite[u]
  BY <1>0, <1>2 DEF Types
<1> HIDE DEF v, turns, m
<1>7. /\ OneStream'
      /\ status' \in [Threads -> {"idle", "streaming"}]
      /\ turn' \in [Threads -> Msgs \cup {None}]
      /\ run' \in [Msgs -> RunRec]
      /\ \A x \in Msgs : Running(x)' => run'[x].thread \in Threads
      /\ \A x \in Msgs : \A u \in Threads :
            (Running(x) /\ run[x].thread = u)' =>
               (Running(x) /\ run[x].thread = u) \/ (x = m /\ u = v)
  <2>1. crossed \subseteq crossed'
    BY <1>0
  <2> HIDE DEF IInv
  <2> QED
    BY <1>0, <1>3, <1>4, <1>5, <2>1, Begins DEF IInv
<1>8. Types'
  BY <1>0, <1>6, <1>7 DEF Types
<1>9. ASSUME NEW x \in Msgs, NEW u \in Threads, Touches(x, u)'
      PROVE  Touches(x, u)
  <2>1. ASSUME rewrite'[u] # None, NEW i \in DOMAIN rewrite'[u], rewrite'[u][i].msg = x
        PROVE  Touches(x, u)
    <3>1. CASE u = v
      BY <1>2, <1>6, <2>1, <3>1 DEF Touches, turns
    <3>2. CASE u # v
      BY <1>6, <2>1, <3>2 DEF Touches
    <3> QED
      BY <3>1, <3>2
  <2>2. (Running(x) /\ run[x].thread = u)' => Touches(x, u)
    BY <1>3, <1>7 DEF Touches
  <2> QED
    BY <1>0, <1>9, <2>1, <2>2 DEF Touches
<1>10. OneHome' /\ Known'
  BY <1>0, <1>9, HomeKeeps
<1> QED
  BY <1>7, <1>8, <1>10

LEMMA RewrittenKeeps ==
    ASSUME IInv, NEW t \in Threads, Rewritten(t)
    PROVE  IInv'
<1> USE DEF IInv
<1>0. /\ rewrite[t] # None
      /\ script' = [script EXCEPT ![t] = rewrite[t]]
      /\ rewrite' = [rewrite EXCEPT ![t] = None]
      /\ UNCHANGED <<visible, status, turn, queued, run, taken, gone, crossed>>
  BY DEF Rewritten, storeVars, histVars
<1>1. Types'
  BY <1>0 DEF Types, Running
<1>2. ASSUME NEW m \in Msgs, NEW u \in Threads, Touches(m, u)'
      PROVE  Touches(m, u)
  BY <1>0, <1>2 DEF Touches, Types, Running
<1>3. OneHome' /\ Known'
  BY <1>0, <1>2, HomeKeeps
<1>4. OneStream'
  BY <1>0 DEF OneStream, Live, Running
<1> QED
  BY <1>1, <1>3, <1>4

LEMMA RemoveQueuedKeeps ==
    ASSUME IInv, RemoveQueued
    PROVE  IInv'
<1> DEFINE v == visible
<1> USE DEF IInv
<1>0. PICK i \in DOMAIN queued[v] :
         /\ queued' = [queued EXCEPT ![v] = RemoveAt(queued[v], i)]
         /\ taken' = taken \ {queued[v][i]}
         /\ gone' = gone \cup {queued[v][i]}
         /\ UNCHANGED <<visible, status, turn, script, rewrite, run, crossed>>
  BY DEF RemoveQueued
<1>1. v \in Threads /\ queued[v] \in Seq(Msgs)
  BY DEF Types
<1>2. /\ RemoveAt(queued[v], i) \in Seq(Msgs)
      /\ \A k \in DOMAIN RemoveAt(queued[v], i) :
            \E j \in DOMAIN queued[v] : queued[v][j] = RemoveAt(queued[v], i)[k]
  BY <1>1, RemoveAtElems
<1>3. /\ queued' \in [Threads -> Seq(Msgs)]
      /\ queued'[v] = RemoveAt(queued[v], i)
      /\ \A u \in Threads : u # v => queued'[u] = queued[u]
  BY <1>0, <1>1, <1>2 DEF Types
<1>4. Types'
  BY <1>0, <1>3 DEF Types, Running
<1>5. ASSUME NEW m \in Msgs, NEW u \in Threads, Touches(m, u)'
      PROVE  Touches(m, u)
  <2> HIDE DEF v
  <2> QED
    BY <1>0, <1>2, <1>3, <1>5 DEF Touches, Running
<1>6. taken \cup gone \subseteq taken' \cup gone'
  BY <1>0
<1>7. OneHome' /\ Known'
  BY <1>5, <1>6, HomeKeeps
<1>8. OneStream'
  BY <1>0 DEF OneStream, Live, Running
<1> QED
  BY <1>4, <1>7, <1>8

\* Steps that change nothing of what the invariant is about.
LEMMA Elsewhere ==
    ASSUME IInv, visible' \in Threads,
           UNCHANGED <<status, turn, queued, script, rewrite, run, crossed>>,
           taken \cup gone \subseteq taken' \cup gone'
    PROVE  IInv'
<1> USE DEF IInv
<1>1. Types'
  BY DEF Types, Running
<1>2. \A m \in Msgs : \A t \in Threads : Touches(m, t)' => Touches(m, t)
  BY DEF Touches, Running
<1>3. OneHome' /\ Known'
  BY <1>2, HomeKeeps
<1>4. OneStream'
  BY DEF OneStream, Live, Running
<1> QED
  BY <1>1, <1>3, <1>4

-----------------------------------------------------------------------------
(* The rest: aborts, and what is on the way between the panel and the sidecar *)

LEMMA AbortKeeps ==
    ASSUME IInv, NEW R \in SUBSET Msgs, Abort(R),
           UNCHANGED <<visible, status, turn, queued, script, rewrite, taken, gone, crossed>>
    PROVE  IInv'
<1>1. run \in [Msgs -> RunRec]
  BY DEF IInv, Types
<1>2. /\ run' \in [Msgs -> RunRec]
      /\ \A m \in Msgs : /\ Running(m)' <=> Running(m)
                         /\ run'[m].thread = run[m].thread
  BY <1>1 DEF Abort, RunRec, Running
<1> QED
  BY <1>2, Tweaks

LEMMA StepOfKeeps ==
    ASSUME IInv, NEW m \in Msgs, NEW r \in RunRec, StepOf(m, r),
           r.thread = run[m].thread,
           r.at \notin {"none", "over"} <=> Running(m)
    PROVE  IInv'
<1>1. run \in [Msgs -> RunRec]
  BY DEF IInv, Types
<1>2. run' = [run EXCEPT ![m] = r]
  BY DEF StepOf
<1>3. run' \in [Msgs -> RunRec]
  BY <1>1, <1>2
<1>4. \A x \in Msgs : /\ Running(x)' <=> Running(x)
                      /\ run'[x].thread = run[x].thread
  BY <1>1, <1>2 DEF Running
<1>5. UNCHANGED <<visible, status, turn, queued, script, rewrite, taken, gone, crossed>>
  BY DEF StepOf, storeVars, histVars
<1> QED
  BY <1>3, <1>4, <1>5, Tweaks

LEMMA AdvanceKeeps ==
    ASSUME IInv, NEW m \in Msgs, Advance(m)
    PROVE  IInv'
<1>0. run[m] \in RunRec
  BY DEF IInv, Types
<1>1. CASE Register(m)
  <2>1. /\ [run[m] EXCEPT !.at = "start"] \in RunRec
        /\ [run[m] EXCEPT !.at = "start"].at \notin {"none", "over"} /\ Running(m)
        /\ [run[m] EXCEPT !.at = "start"].thread = run[m].thread
        /\ StepOf(m, [run[m] EXCEPT !.at = "start"])
    BY <1>0, <1>1 DEF Register, RunRec, Running
  <2> QED
    BY <2>1, StepOfKeeps
<1>2. CASE Started(m)
  <2>1. /\ [run[m] EXCEPT !.at = "await"] \in RunRec
        /\ [run[m] EXCEPT !.at = "await"].at \notin {"none", "over"} /\ Running(m)
        /\ [run[m] EXCEPT !.at = "await"].thread = run[m].thread
        /\ StepOf(m, [run[m] EXCEPT !.at = "await"])
    BY <1>0, <1>2 DEF Started, RunRec, Running
  <2> QED
    BY <2>1, StepOfKeeps
<1>3. CASE Finish(m)
  BY <1>3, Commits DEF Finish, Running
<1>4. CASE Accept(m)
  <2>1. /\ [run[m] EXCEPT !.side = "working"] \in RunRec
        /\ [run[m] EXCEPT !.side = "working"].at = run[m].at
        /\ [run[m] EXCEPT !.side = "working"].thread = run[m].thread
        /\ StepOf(m, [run[m] EXCEPT !.side = "working"])
    BY <1>0, <1>4 DEF Accept, RunRec, AtWork
  <2> QED
    BY <2>1, StepOfKeeps DEF Running
<1>5. CASE CancelArrives(m)
  <2> DEFINE r == [run[m] EXCEPT !.cancel = "arrived",
                                 !.side = IF @ = "working" THEN "cancelling" ELSE @]
  <2>1. r \in RunRec /\ r.at = run[m].at /\ r.thread = run[m].thread
    BY <1>0 DEF RunRec, AtWork
  <2>2. StepOf(m, r)
    BY <1>5 DEF CancelArrives
  <2> HIDE DEF r
  <2> QED
    BY <2>1, <2>2, StepOfKeeps DEF Running
<1>6. CASE End(m)
  <2> DEFINE e == [run[m] EXCEPT !.side = "ended", !.word = Registered(m)]
             r == IF run[m].at = "over" THEN Over(e) ELSE e
  <2>1. e \in RunRec /\ e.at = run[m].at /\ e.thread = run[m].thread
    <3>1. Registered(m) \in BOOLEAN
      BY DEF Registered
    <3> QED
      BY <1>0, <3>1 DEF RunRec
  <2>2. StepOf(m, r)
    BY <1>6 DEF End
  <2> HIDE DEF e
  <2>3. r \in RunRec /\ r.thread = run[m].thread /\ r.at = run[m].at
    BY <2>1, OverIsRecord
  <2> HIDE DEF r
  <2> QED
    BY <2>2, <2>3, StepOfKeeps DEF Running
<1>7. CASE Hear(m)
  <2> DEFINE r == [run[m] EXCEPT !.word = FALSE, !.settled = TRUE]
  <2>1. r \in RunRec /\ r.at = run[m].at /\ r.thread = run[m].thread
    BY <1>0 DEF RunRec
  <2>2. StepOf(m, r)
    BY <1>7 DEF Hear
  <2> HIDE DEF r
  <2> QED
    BY <2>1, <2>2, StepOfKeeps DEF Running
<1> QED
  BY <1>1, <1>2, <1>3, <1>4, <1>5, <1>6, <1>7 DEF Advance

\* A run that nobody will answer for is where it was.
LEMMA LeftThere ==
    ASSUME NEW m \in Msgs, run[m] \in RunRec, AcceptAdrift(m) \/ Unheard(m)
    PROVE  \E r \in RunRec :
              /\ StepOf(m, r) /\ r.thread = run[m].thread
              /\ r.at = "start" /\ run[m].at = "start"
              /\ r.settled = run[m].settled /\ r.word = run[m].word
              /\ run[m].side = "none" /\ r.side # "lost"
<1>1. PICK s \in {"adrift", "unheard"} : StepOf(m, [run[m] EXCEPT !.side = s])
  BY DEF AcceptAdrift, Unheard
<1>2. run[m].at = "start" /\ run[m].side = "none"
  BY DEF AcceptAdrift, Unheard
<1> DEFINE r == [run[m] EXCEPT !.side = s]
<1>3. /\ r \in RunRec /\ r.thread = run[m].thread /\ r.at = run[m].at
      /\ r.settled = run[m].settled /\ r.word = run[m].word /\ r.side = s
  BY DEF RunRec, AtWork
<1> QED BY <1>1, <1>2, <1>3

LEMMA DieKeeps ==
    ASSUME IInv, Die
    PROVE  IInv'
<1>1. run \in [Msgs -> RunRec]
  BY DEF IInv, Types
<1>2. ASSUME NEW m \in Msgs
      PROVE  run'[m] \in RunRec /\ run'[m].thread = run[m].thread /\ run'[m].at = run[m].at
  <2> DEFINE r == [run[m] EXCEPT !.side = "lost"]
  <2>1. r \in RunRec /\ r.at = run[m].at /\ r.thread = run[m].thread
    BY <1>1 DEF RunRec
  <2>2. run'[m] = IF run[m].side \in AtWork
                  THEN IF r.at = "over" THEN Over(r) ELSE r
                  ELSE run[m]
    BY DEF Die
  <2> HIDE DEF r
  <2> QED
    BY <1>1, <2>1, <2>2, OverIsRecord
<1>3. DOMAIN run' = Msgs /\ run' = [m \in Msgs |-> run'[m]]
  BY DEF Die
<1>4. run' \in [Msgs -> RunRec]
  BY <1>2, <1>3
<1>5. UNCHANGED <<visible, status, turn, queued, script, rewrite, taken, gone, crossed>>
  BY DEF Die, storeVars, histVars
<1> QED
  BY <1>2, <1>4, <1>5, Tweaks DEF Running

LEMMA HearDeathKeeps ==
    ASSUME IInv, HearDeath
    PROVE  IInv'
<1>1. run \in [Msgs -> RunRec]
  BY DEF IInv, Types
<1>2. /\ run' \in [Msgs -> RunRec]
      /\ \A m \in Msgs : run'[m].at = run[m].at /\ run'[m].thread = run[m].thread
  BY <1>1 DEF HearDeath, RunRec
<1>3. UNCHANGED <<visible, status, turn, queued, script, rewrite, taken, gone, crossed>>
  BY DEF HearDeath, storeVars, histVars
<1> QED
  BY <1>2, <1>3, Tweaks DEF Running

LEMMA UserKeeps ==
    ASSUME IInv, User
    PROVE  IInv'
<1>0. visible \in Threads
  BY DEF IInv, Types
<1>1. CASE SendDropped
  BY <1>0, <1>1, Elsewhere DEF SendDropped, storeVars
<1>2. CASE Stop
  <2>1. /\ Abort(Live(visible)) /\ Live(visible) \in SUBSET Msgs
        /\ UNCHANGED <<visible, status, turn, queued, script, rewrite, taken, gone, crossed>>
    BY <1>2 DEF Stop, Live
  <2> QED
    BY <2>1, AbortKeeps
<1>3. ASSUME NEW t \in Threads, Show(t) PROVE IInv'
  BY <1>3, Elsewhere DEF Show, storeVars, histVars
<1>4. ASSUME NEW t \in Threads, Offline(t) PROVE IInv'
  <2>1. /\ Abort(Live(t)) /\ Live(t) \in SUBSET Msgs
        /\ UNCHANGED <<visible, status, turn, queued, script, rewrite, taken, gone, crossed>>
    BY <1>4 DEF Offline, Live, storeVars, histVars
  <2> QED
    BY <2>1, AbortKeeps
<1> QED
  BY <1>1, <1>2, <1>3, <1>4, SendKeeps, SlashCommandKeeps, RegenerateKeeps,
     RemoveQueuedKeeps DEF User

-----------------------------------------------------------------------------

LEMMA InitIInv == Init => IInv
<1> SUFFICES ASSUME Init PROVE IInv
  OBVIOUS
<1>1. \A m \in Msgs : run[m] = NoRun /\ ~Running(m)
  BY DEF Init, NoRun, Running
<1>2. Types
  <2>1. NoRun \in RunRec
    BY DEF NoRun, RunRec
  <2>2. run \in [Msgs -> RunRec]
    BY <2>1 DEF Init
  <2>3. /\ queued \in [Threads -> Seq(Msgs)]
        /\ script \in [Threads -> Seq(Turn)]
    BY DEF Init
  <2> QED
    BY <1>1, <2>2, <2>3 DEF Init, Types
<1>3. \A m \in Msgs : \A t \in Threads : ~Touches(m, t)
  BY <1>1 DEF Init, Touches
<1>4. OneHome /\ Known
  BY <1>3 DEF OneHome, Known
<1>5. OneStream
  BY <1>1 DEF Init, OneStream, Live
<1> QED
  BY <1>2, <1>4, <1>5 DEF IInv

LEMMA NextIInv == IInv /\ [Next]_vars => IInv'
<1> SUFFICES ASSUME IInv, [Next]_vars PROVE IInv'
  OBVIOUS
<1>1. CASE User
  BY <1>1, UserKeeps
<1>2. CASE Drain
  BY <1>2, DrainKeeps
<1>3. CASE Die
  BY <1>3, DieKeeps
<1>4. CASE HearDeath
  BY <1>4, HearDeathKeeps
<1>5. ASSUME NEW t \in Threads, Rewritten(t) PROVE IInv'
  BY <1>5, RewrittenKeeps
<1>6. ASSUME NEW m \in Msgs, Advance(m) PROVE IInv'
  BY <1>6, AdvanceKeeps
<1>7. ASSUME NEW m \in Msgs, StartFails(m) PROVE IInv'
  BY <1>7, Commits DEF StartFails, Running
<1>8. CASE UNCHANGED vars
  <2>1. visible \in Threads
    BY DEF IInv, Types
  <2> QED
    BY <1>8, <2>1, Elsewhere DEF vars, storeVars, histVars
<1>9. ASSUME NEW m \in Msgs, AcceptAdrift(m) \/ Unheard(m) PROVE IInv'
  <2>1. run[m] \in RunRec
    BY DEF IInv, Types
  <2>2. PICK r \in RunRec :
          StepOf(m, r) /\ r.thread = run[m].thread /\ r.at = "start" /\ run[m].at = "start"
    BY <1>9, <2>1, LeftThere
  <2> QED
    BY <2>2, StepOfKeeps DEF Running
<1> QED
  BY <1>1, <1>2, <1>3, <1>4, <1>5, <1>6, <1>7, <1>8, <1>9 DEF Next

\* A thread streams one answer at most, and its status says whether it does,
\* for any number of threads, messages and deaths of the sidecar.
THEOREM OneStreamAlways == Spec => []OneStream
<1>1. IInv => OneStream
  BY DEF IInv
<1> QED
  BY <1>1, InitIInv, NextIInv, PTL DEF Spec

-----------------------------------------------------------------------------
(* That a run which is over is not at work in the sidecar.  As long as no  *)
(* process has died, a run settles, and its end is on the way, only when   *)
(* the sidecar has ended it.                                               *)

Truthful(r) ==
    /\ r.side # "lost"
    /\ r.settled \/ r.word => r.side = "ended"
    /\ r.at = "over" => r.side = "none"

SideInv ==
    /\ crashes \in Nat
    /\ crashes = 0 => ~died /\ \A m \in Msgs : Truthful(run[m])

LEMMA BeginIsTruthful ==
    ASSUME Types, SideInv, NEW t \in Threads, NEW m \in Msgs, Begin(t, m),
           UNCHANGED <<died, crashes>>
    PROVE  SideInv'
<1>1. run' = [run EXCEPT ![m] = [NoRun EXCEPT !.thread = t, !.at = "prepare"]]
  BY DEF Begin
<1>2. Truthful([NoRun EXCEPT !.thread = t, !.at = "prepare"])
  BY DEF Truthful, NoRun
<1> QED
  BY <1>1, <1>2 DEF SideInv, Types, Truthful

LEMMA AbortIsTruthful ==
    ASSUME Types, SideInv, NEW R \in SUBSET Msgs, Abort(R), UNCHANGED <<died, crashes>>
    PROVE  SideInv'
<1>1. ASSUME NEW m \in Msgs, Truthful(run[m]) PROVE Truthful(run'[m])
  BY <1>1 DEF Abort, Truthful, Types, RunRec
<1> QED
  BY <1>1 DEF SideInv, Truthful

LEMMA StepIsTruthful ==
    ASSUME Types, SideInv, NEW m \in Msgs, NEW r \in RunRec, StepOf(m, r),
           Truthful(run[m]) => Truthful(r)
    PROVE  SideInv'
BY DEF StepOf, SideInv, Types, Truthful

LEMMA CommitIsTruthful ==
    ASSUME Types, SideInv, NEW m \in Msgs, Commit(m),
           run[m].settled \/ run[m].side \in {"none", "lost"}
    PROVE  SideInv'
<1>1. run[m] \in RunRec
  BY DEF Types
<1>2. ASSUME Truthful(run[m]) PROVE Truthful(Over(run[m]))
  BY <1>1, <1>2 DEF Truthful, Over, NoRun, RunRec, AtWork
<1>3. run' = [run EXCEPT ![m] = Over(run[m])] /\ UNCHANGED <<died, crashes>>
  BY DEF Commit
<1> QED
  BY <1>2, <1>3 DEF SideInv, Types, Truthful

LEMMA AdvanceIsTruthful ==
    ASSUME Types, SideInv, NEW m \in Msgs, Advance(m)
    PROVE  SideInv'
<1>0. run[m] \in RunRec
  BY DEF Types
<1>1. CASE Register(m)
  <2> DEFINE r == [run[m] EXCEPT !.at = "start"]
  <2>1. r \in RunRec /\ (Truthful(run[m]) => Truthful(r))
    BY <1>0 DEF RunRec, Truthful
  <2> QED
    BY <1>1, <2>1, StepIsTruthful DEF Register
<1>2. CASE Started(m)
  <2> DEFINE r == [run[m] EXCEPT !.at = "await"]
  <2>1. r \in RunRec /\ (Truthful(run[m]) => Truthful(r))
    BY <1>0 DEF RunRec, Truthful
  <2> QED
    BY <1>2, <2>1, StepIsTruthful DEF Started
<1>3. CASE Finish(m)
  BY <1>3, CommitIsTruthful DEF Finish
<1>4. CASE Accept(m)
  <2> DEFINE r == [run[m] EXCEPT !.side = "working"]
  <2>1. r \in RunRec /\ (Truthful(run[m]) => Truthful(r))
    BY <1>0, <1>4 DEF RunRec, Truthful, Accept, AtWork
  <2> QED
    BY <1>4, <2>1, StepIsTruthful DEF Accept
<1>5. CASE CancelArrives(m)
  <2> DEFINE r == [run[m] EXCEPT !.cancel = "arrived",
                                 !.side = IF @ = "working" THEN "cancelling" ELSE @]
  <2>1. r \in RunRec /\ (Truthful(run[m]) => Truthful(r))
    BY <1>0 DEF RunRec, Truthful, AtWork
  <2> QED
    BY <1>5, <2>1, StepIsTruthful DEF CancelArrives
<1>6. CASE End(m)
  <2> DEFINE e == [run[m] EXCEPT !.side = "ended", !.word = Registered(m)]
             r == IF run[m].at = "over" THEN Over(e) ELSE e
  <2>1. e \in RunRec /\ e.at = run[m].at /\ e.side = "ended"
    <3>1. Registered(m) \in BOOLEAN
      BY DEF Registered
    <3> QED
      BY <1>0, <3>1 DEF RunRec
  <2>2. StepOf(m, r)
    BY <1>6 DEF End
  <2>3. run[m].side \in {"working", "cancelling"}
    BY <1>6 DEF End
  <2> HIDE DEF e
  <2>4. r \in RunRec /\ (Truthful(run[m]) => Truthful(r))
    BY <2>1, <2>3, OverIsRecord DEF Truthful
  <2> HIDE DEF r
  <2> QED
    BY <2>2, <2>4, StepIsTruthful
<1>7. CASE Hear(m)
  <2> DEFINE r == [run[m] EXCEPT !.word = FALSE, !.settled = TRUE]
  <2>1. r \in RunRec /\ (Truthful(run[m]) => Truthful(r))
    BY <1>0, <1>7 DEF RunRec, Truthful, Hear
  <2> QED
    BY <1>7, <2>1, StepIsTruthful DEF Hear
<1> QED
  BY <1>1, <1>2, <1>3, <1>4, <1>5, <1>6, <1>7 DEF Advance

LEMMA NextSideInv == Types /\ SideInv /\ [Next]_vars => SideInv'
<1> SUFFICES ASSUME Types, SideInv, [Next]_vars PROVE SideInv'
  OBVIOUS
<1>0. visible \in Threads
  BY DEF Types
<1>1. CASE Send
  <2>1. UNCHANGED <<died, crashes>>
    BY <1>1 DEF Send
  <2>2. CASE Park(visible, Fresh)
    BY <2>1, <2>2 DEF Park, SideInv, Truthful
  <2>3. CASE SendNow(visible, Fresh)
    BY <1>0, <1>1, <2>1, <2>3, FreshIsFresh, BeginIsTruthful DEF SendNow, Send
  <2> QED
    BY <1>1, <2>2, <2>3 DEF Send
<1>2. CASE SlashCommand
  BY <1>0, <1>2, FreshIsFresh, BeginIsTruthful DEF SlashCommand
<1>3. CASE Regenerate
  <2> DEFINE m == script[visible][Len(script[visible]) - 1].msg
  <2>1. /\ Begin(visible, m) /\ Len(script[visible]) >= 2
        /\ UNCHANGED <<died, crashes>>
    BY <1>3 DEF Regenerate
  <2>2. script[visible] \in Seq(Turn)
    BY <1>0 DEF Types
  <2>3. m \in Msgs
    <3>1. script[visible][Len(script[visible]) - 1] \in Turn
      BY <2>1, <2>2, FrontElems
    <3> QED
      BY <3>1 DEF Turn
  <2> QED
    BY <1>0, <2>1, <2>3, BeginIsTruthful
<1>4. CASE Stop
  <2>1. /\ Abort(Live(visible)) /\ Live(visible) \in SUBSET Msgs
        /\ UNCHANGED <<died, crashes>>
    BY <1>4 DEF Stop, Live
  <2> QED
    BY <2>1, AbortIsTruthful
<1>5. ASSUME NEW t \in Threads, Offline(t) PROVE SideInv'
  <2>1. /\ Abort(Live(t)) /\ Live(t) \in SUBSET Msgs
        /\ UNCHANGED <<died, crashes>>
    BY <1>5 DEF Offline, Live
  <2> QED
    BY <2>1, AbortIsTruthful
<1>6. CASE Drain
  <2>1. /\ Begin(visible, Head(queued[visible])) /\ queued[visible] # <<>>
        /\ UNCHANGED <<died, crashes>>
    BY <1>6 DEF Drain
  <2>2. queued[visible] \in Seq(Msgs)
    BY <1>0 DEF Types
  <2>3. Head(queued[visible]) \in Msgs
    BY <2>1, <2>2, TailElems
  <2> QED
    BY <1>0, <2>1, <2>3, BeginIsTruthful
<1>7. CASE Die
  BY <1>7 DEF Die, SideInv
<1>8. CASE HearDeath
  BY <1>8 DEF HearDeath, SideInv
<1>9. ASSUME NEW m \in Msgs, Advance(m) PROVE SideInv'
  BY <1>9, AdvanceIsTruthful
<1>10. ASSUME NEW m \in Msgs, StartFails(m) PROVE SideInv'
  BY <1>10, CommitIsTruthful DEF StartFails
<1>11. ASSUME UNCHANGED <<run, died, crashes>> PROVE SideInv'
  BY <1>11 DEF SideInv, Truthful
<1>12. CASE SendDropped
  BY <1>11, <1>12 DEF SendDropped
<1>13. CASE RemoveQueued
  BY <1>11, <1>13 DEF RemoveQueued
<1>14. ASSUME NEW t \in Threads, Show(t) \/ Rewritten(t) PROVE SideInv'
  BY <1>11, <1>14 DEF Show, Rewritten
<1>15. CASE UNCHANGED vars
  BY <1>11, <1>15 DEF vars
<1>16. ASSUME NEW m \in Msgs, AcceptAdrift(m) \/ Unheard(m) PROVE SideInv'
  <2>1. run[m] \in RunRec
    BY DEF Types
  <2>2. PICK r \in RunRec :
          /\ StepOf(m, r) /\ r.at = "start"
          /\ r.settled = run[m].settled /\ r.word = run[m].word
          /\ run[m].side = "none" /\ r.side # "lost"
    BY <1>16, <2>1, LeftThere
  <2>3. Truthful(run[m]) => Truthful(r)
    BY <2>2 DEF Truthful
  <2> QED
    BY <2>2, <2>3, StepIsTruthful
<1> QED
  BY <1>1, <1>2, <1>3, <1>4, <1>5, <1>6, <1>7, <1>8, <1>9, <1>10, <1>12, <1>13,
     <1>14, <1>15, <1>16 DEF Next, User

\* A run that the panel has done with is not at work in the sidecar, however its
\* end, the user's Stop and the network's going interleave, for any number of
\* threads and messages.
THEOREM NoOrphansAlways == Spec => []NoOrphans
<1>1. Init => SideInv
  BY DEF Init, SideInv, Truthful, NoRun
<1>2. SideInv => NoOrphans
  BY DEF SideInv, NoOrphans, Truthful
<1>3. IInv => Types
  BY DEF IInv
<1> QED
  BY <1>1, <1>2, <1>3, InitIInv, NextIInv, NextSideInv, PTL DEF Spec

-----------------------------------------------------------------------------
(* The types, the latch among them: it is held by a run of its thread.     *)

TypeInv ==
    /\ IInv
    /\ latch \in [Threads -> Msgs \cup {None}]
    /\ TypeOK

\* A run of t may begin, or be told something; it does not end.
LEMMA LatchStays ==
    ASSUME TypeInv, \A t \in Threads : Live(t) \subseteq Live(t)', UNCHANGED latch
    PROVE  /\ latch' \in [Threads -> Msgs \cup {None}]
           /\ \A t \in Threads : latch'[t] \in Live(t)' \cup {None}
BY DEF TypeInv, TypeOK

LEMMA BeginAddsLive ==
    ASSUME Types, NEW t \in Threads, NEW m \in Msgs, Begin(t, m),
           Running(m) => run[m].thread = t
    PROVE  \A u \in Threads : Live(u)' = IF u = t THEN Live(u) \cup {m} ELSE Live(u)
<1>1. /\ run'[m].thread = t /\ Running(m)'
      /\ \A x \in Msgs \ {m} : run'[x] = run[x] /\ (Running(x)' <=> Running(x))
  BY DEF Begin, Types, RunRec, NoRun, Running
<1> QED BY <1>1 DEF Live

\* Whoever begins to run is a message of the thread, or none that was there.
LEMMA BeginnersStay ==
    ASSUME IInv
    PROVE  /\ Unsent # {} => ~Running(Fresh)
           /\ queued[visible] # <<>> =>
                 /\ Head(queued[visible]) \in Msgs
                 /\ Running(Head(queued[visible])) => run[Head(queued[visible])].thread = visible
           /\ Len(script[visible]) >= 2 =>
                 LET m == script[visible][Len(script[visible]) - 1].msg
                 IN  m \in Msgs /\ (Running(m) => run[m].thread = visible)
<1>0. visible \in Threads
  BY DEF IInv, Types
<1>1. Unsent # {} => ~Running(Fresh)
  BY FreshIsFresh DEF IInv, Known, Touches, Types
<1>2. ASSUME queued[visible] # <<>>
      PROVE  /\ Head(queued[visible]) \in Msgs
             /\ Running(Head(queued[visible])) => run[Head(queued[visible])].thread = visible
  <2>1. queued[visible] \in Seq(Msgs)
    BY <1>0 DEF IInv, Types
  <2>2. /\ Head(queued[visible]) \in Msgs
        /\ \E j \in DOMAIN queued[visible] : queued[visible][j] = Head(queued[visible])
    BY <1>2, <2>1, TailElems
  <2> QED BY <1>0, <2>2 DEF IInv, OneHome, Touches, Types
<1>3. ASSUME Len(script[visible]) >= 2
      PROVE  LET m == script[visible][Len(script[visible]) - 1].msg
             IN  m \in Msgs /\ (Running(m) => run[m].thread = visible)
  <2> DEFINE turns == script[visible]
             m == turns[Len(turns) - 1].msg
  <2>1. turns \in Seq(Turn) /\ Len(turns) >= 2
    BY <1>0, <1>3 DEF IInv, Types
  <2>2. Len(turns) - 1 \in DOMAIN turns /\ turns[Len(turns) - 1] \in Turn
    <3> HIDE DEF turns
    <3> QED BY <2>1, FrontElems
  <2>3. m \in Msgs /\ Touches(m, visible)
    BY <2>2 DEF Touches, Turn
  <2> QED BY <1>0, <2>3 DEF IInv, OneHome, Touches, Types
<1> QED BY <1>1, <1>2, <1>3

\* The rest of the types, beside the latch.
RestTypes ==
    /\ paused \in [Threads -> BOOLEAN]
    /\ died \in BOOLEAN /\ crashes \in 0..MaxCrashes
    /\ taken \subseteq Msgs /\ gone \subseteq Msgs \ taken
    /\ stopped \subseteq Threads /\ crossed \subseteq Threads

LEMMA RestStays ==
    ASSUME IInv, RestTypes, [Next]_vars
    PROVE  RestTypes'
<1>0. visible \in Threads /\ run \in [Msgs -> RunRec]
  BY DEF IInv, Types
<1>1. CASE Send
  BY <1>0, <1>1, FreshIsFresh DEF Send, Park, SendNow, RestTypes
<1>2. CASE SendDropped
  BY <1>2, FreshIsFresh DEF SendDropped, RestTypes, storeVars
<1>3. CASE SlashCommand
  BY <1>0, <1>3, FreshIsFresh DEF SlashCommand, RestTypes
<1>4. CASE RemoveQueued
  <2>1. PICK i \in DOMAIN queued[visible] :
           /\ taken' = taken \ {queued[visible][i]}
           /\ gone' = gone \cup {queued[visible][i]}
           /\ UNCHANGED <<paused, died, crashes, stopped, crossed>>
    BY <1>4 DEF RemoveQueued
  <2>2. queued[visible][i] \in Msgs
    BY <1>0 DEF IInv, Types
  <2> QED BY <2>1, <2>2 DEF RestTypes
<1>5. CASE Stop
  BY <1>0, <1>5 DEF Stop, RestTypes
<1>6. CASE Die
  BY <1>6, CrashesAssumption DEF Die, RestTypes, storeVars, histVars
<1>7. CASE HearDeath
  BY <1>7 DEF HearDeath, RestTypes, storeVars, histVars
<1>8. CASE UNCHANGED <<paused, died, crashes, histVars>>
  BY <1>8 DEF RestTypes, histVars
<1>9. ASSUME NEW m \in Msgs, Advance(m) \/ StartFails(m) \/ AcceptAdrift(m) \/ Unheard(m)
      PROVE  RestTypes'
  BY <1>8, <1>9 DEF Advance, Register, Started, Finish, Accept, CancelArrives, End, Hear,
     StartFails, AcceptAdrift, Unheard, StepOf, Commit, storeVars, histVars
<1>10. CASE Regenerate \/ Drain \/ \E t \in Threads : Show(t) \/ Offline(t) \/ Rewritten(t)
  BY <1>8, <1>10 DEF Regenerate, Drain, Show, Offline, Rewritten, storeVars, histVars
<1>11. CASE UNCHANGED vars
  BY <1>8, <1>11 DEF vars, storeVars, histVars
<1> QED
  BY <1>1, <1>2, <1>3, <1>4, <1>5, <1>6, <1>7, <1>9, <1>10, <1>11 DEF Next, User

\* A continuation that does not end its run leaves it where it is at work.
LEMMA AdvanceGoesOn ==
    ASSUME Types, NEW m \in Msgs, Advance(m), ~Finish(m)
    PROVE  \A x \in Msgs : /\ Running(x) <=> Running(x)'
                           /\ run'[x].thread = run[x].thread
                           /\ run[x].at = "none" <=> run'[x].at = "none"
<1>0. run[m] \in RunRec /\ DOMAIN run = Msgs
  BY DEF Types
<1>1. ASSUME NEW r, StepOf(m, r), r.thread = run[m].thread,
             r.at \notin {"none", "over"} <=> Running(m),
             r.at = "none" <=> run[m].at = "none"
      PROVE  \A x \in Msgs : /\ Running(x) <=> Running(x)'
                             /\ run'[x].thread = run[x].thread
                             /\ run[x].at = "none" <=> run'[x].at = "none"
  <2>1. run' = [run EXCEPT ![m] = r]
    BY <1>1 DEF StepOf
  <2>2. run'[m] = r /\ \A x \in Msgs \ {m} : run'[x] = run[x]
    BY <1>0, <2>1
  <2> QED BY <1>1, <2>2 DEF Running
<1>2. CASE Register(m)
  <2> DEFINE r == [run[m] EXCEPT !.at = "start"]
  <2>1. StepOf(m, r) /\ r.thread = run[m].thread /\ r.at = "start" /\ run[m].at = "prepare"
    BY <1>0, <1>2 DEF Register, RunRec
  <2> HIDE DEF r
  <2> QED BY <1>1, <2>1 DEF Running
<1>3. CASE Started(m)
  <2> DEFINE r == [run[m] EXCEPT !.at = "await"]
  <2>1. StepOf(m, r) /\ r.thread = run[m].thread /\ r.at = "await" /\ run[m].at = "start"
    BY <1>0, <1>3 DEF Started, RunRec
  <2> HIDE DEF r
  <2> QED BY <1>1, <2>1 DEF Running
<1>4. CASE Accept(m)
  <2> DEFINE r == [run[m] EXCEPT !.side = "working"]
  <2>1. StepOf(m, r) /\ r.thread = run[m].thread /\ r.at = run[m].at
    BY <1>0, <1>4 DEF Accept, RunRec
  <2> HIDE DEF r
  <2> QED BY <1>1, <2>1 DEF Running
<1>5. CASE CancelArrives(m)
  <2> DEFINE r == [run[m] EXCEPT !.cancel = "arrived",
                                 !.side = IF @ = "working" THEN "cancelling" ELSE @]
  <2>1. StepOf(m, r) /\ r.thread = run[m].thread /\ r.at = run[m].at
    BY <1>0, <1>5 DEF CancelArrives, RunRec
  <2> HIDE DEF r
  <2> QED BY <1>1, <2>1 DEF Running
<1>6. CASE End(m)
  <2> DEFINE e == [run[m] EXCEPT !.side = "ended", !.word = Registered(m)]
             r == IF run[m].at = "over" THEN Over(e) ELSE e
  <2>1. e \in RunRec /\ e.at = run[m].at /\ e.thread = run[m].thread
    <3>1. Registered(m) \in BOOLEAN
      BY DEF Registered
    <3> QED BY <1>0, <3>1 DEF RunRec
  <2>2. StepOf(m, r)
    BY <1>6 DEF End
  <2> HIDE DEF e
  <2>3. r.thread = run[m].thread /\ r.at = run[m].at
    BY <2>1, OverIsRecord
  <2> HIDE DEF r
  <2> QED BY <1>1, <2>2, <2>3 DEF Running
<1>7. CASE Hear(m)
  <2> DEFINE r == [run[m] EXCEPT !.word = FALSE, !.settled = TRUE]
  <2>1. StepOf(m, r) /\ r.thread = run[m].thread /\ r.at = run[m].at
    BY <1>0, <1>7 DEF Hear, RunRec
  <2> HIDE DEF r
  <2> QED BY <1>1, <2>1 DEF Running
<1> QED
  BY <1>2, <1>3, <1>4, <1>5, <1>6, <1>7 DEF Advance

LEMMA LatchKeeps ==
    ASSUME TypeInv, [Next]_vars
    PROVE  /\ latch' \in [Threads -> Msgs \cup {None}]
           /\ \A t \in Threads : latch'[t] \in Live(t)' \cup {None}
<1>0. /\ IInv /\ Types /\ visible \in Threads /\ run \in [Msgs -> RunRec]
      /\ latch \in [Threads -> Msgs \cup {None}]
      /\ \A t \in Threads : latch[t] \in Live(t) \cup {None}
  BY DEF TypeInv, TypeOK, IInv, Types
<1>1. ASSUME NEW m \in Msgs, Begin(visible, m), Running(m) => run[m].thread = visible,
             latch' \in {latch, [latch EXCEPT ![visible] = m]}
      PROVE  /\ latch' \in [Threads -> Msgs \cup {None}]
             /\ \A t \in Threads : latch'[t] \in Live(t)' \cup {None}
  BY <1>0, <1>1, BeginAddsLive
<1>2. CASE Send
  <2>1. Unsent # {} /\ UNCHANGED latch
    BY <1>2 DEF Send
  <2>2. CASE Park(visible, Fresh)
    <3>1. \A t \in Threads : Live(t) \subseteq Live(t)'
      BY <2>2 DEF Park, Live, Running
    <3> QED BY <2>1, <3>1, LatchStays
  <2>3. CASE SendNow(visible, Fresh)
    BY <1>0, <1>1, <2>1, <2>3, BeginnersStay, FreshIsFresh DEF SendNow
  <2> QED BY <1>2, <2>2, <2>3 DEF Send
<1>3. CASE SlashCommand
  BY <1>0, <1>1, <1>3, BeginnersStay, FreshIsFresh DEF SlashCommand
<1>4. CASE Regenerate
  <2> DEFINE m == script[visible][Len(script[visible]) - 1].msg
  <2>1. /\ Begin(visible, m) /\ Len(script[visible]) >= 2
        /\ latch' = [latch EXCEPT ![visible] = m]
    BY <1>4 DEF Regenerate
  <2>2. m \in Msgs /\ (Running(m) => run[m].thread = visible)
    BY <1>0, <2>1, BeginnersStay
  <2> QED BY <1>1, <2>1, <2>2
<1>5. CASE Drain
  <2>1. /\ Begin(visible, Head(queued[visible])) /\ queued[visible] # <<>>
        /\ UNCHANGED latch
    BY <1>5 DEF Drain
  <2> QED BY <1>0, <1>1, <2>1, BeginnersStay
<1>6. ASSUME NEW m \in Msgs, Running(m), Commit(m)
      PROVE  /\ latch' \in [Threads -> Msgs \cup {None}]
             /\ \A t \in Threads : latch'[t] \in Live(t)' \cup {None}
  <2> DEFINE t == run[m].thread
  <2>1. /\ latch' = [latch EXCEPT ![t] = IF latch[t] = m THEN None ELSE latch[t]]
        /\ run' = [run EXCEPT ![m] = Over(run[m])]
    BY <1>6 DEF Commit
  <2>2. \A u \in Threads : Live(u) \ {m} \subseteq Live(u)'
    BY <1>0, <2>1 DEF Live, Running
  <2>3. t \in Threads /\ \A u \in Threads : m \in Live(u) => u = t
    BY <1>0, <1>6 DEF Types, Live
  <2> HIDE DEF t
  <2>4. \A u \in Threads : latch'[u] = IF u = t /\ latch[u] = m THEN None ELSE latch[u]
    BY <1>0, <2>1, <2>3
  <2>5. latch' \in [Threads -> Msgs \cup {None}]
    BY <1>0, <2>1
  <2> QED BY <1>0, <2>2, <2>3, <2>4, <2>5
<1>7. ASSUME \A m \in Msgs : (Running(m) => Running(m)') /\ run'[m].thread = run[m].thread,
             UNCHANGED latch
      PROVE  /\ latch' \in [Threads -> Msgs \cup {None}]
             /\ \A t \in Threads : latch'[t] \in Live(t)' \cup {None}
  <2>1. \A t \in Threads : Live(t) \subseteq Live(t)'
    BY <1>7 DEF Live
  <2> QED BY <1>7, <2>1, LatchStays
<1>8. CASE SendDropped \/ RemoveQueued \/ UNCHANGED vars
           \/ \E t \in Threads : Show(t) \/ Rewritten(t)
  <2>1. UNCHANGED <<run, latch>>
    BY <1>8 DEF SendDropped, RemoveQueued, Show, Rewritten, vars
  <2> QED BY <1>7, <2>1 DEF Running
<1>9. CASE Stop \/ \E t \in Threads : Offline(t)
  <2>1. UNCHANGED latch /\ \E R \in SUBSET Msgs : Abort(R)
    BY <1>9 DEF Stop, Offline, Live
  <2>2. \A m \in Msgs : run'[m].at = run[m].at /\ run'[m].thread = run[m].thread
    BY <1>0, <2>1 DEF Abort, RunRec
  <2> QED BY <1>7, <2>1, <2>2 DEF Running
<1>10. CASE Die \/ HearDeath
  <2>1. UNCHANGED latch
    BY <1>10 DEF Die, HearDeath
  <2>2. \A m \in Msgs : run'[m].at = run[m].at /\ run'[m].thread = run[m].thread
    <3>1. CASE HearDeath
      BY <1>0, <3>1 DEF HearDeath, RunRec
    <3>2. CASE Die
      <4> TAKE m \in Msgs
      <4> DEFINE r == [run[m] EXCEPT !.side = "lost"]
      <4>1. r \in RunRec /\ r.at = run[m].at /\ r.thread = run[m].thread
        BY <1>0 DEF RunRec
      <4>2. run'[m] = IF run[m].side \in AtWork
                      THEN IF r.at = "over" THEN Over(r) ELSE r
                      ELSE run[m]
        BY <3>2 DEF Die
      <4> HIDE DEF r
      <4> QED BY <4>1, <4>2, OverIsRecord
    <3> QED BY <1>10, <3>1, <3>2
  <2> QED BY <1>7, <2>1, <2>2 DEF Running
<1>11. ASSUME NEW m \in Msgs, Advance(m)
       PROVE  /\ latch' \in [Threads -> Msgs \cup {None}]
              /\ \A t \in Threads : latch'[t] \in Live(t)' \cup {None}
  <2>1. CASE Finish(m)
    BY <1>6, <2>1 DEF Finish, Running
  <2>2. CASE ~Finish(m)
    <3>1. UNCHANGED latch
      BY <1>11, <2>2 DEF Advance, Register, Started, Accept, CancelArrives, End, Hear, StepOf
    <3>2. \A x \in Msgs : (Running(x) => Running(x)') /\ run'[x].thread = run[x].thread
      BY <1>11, <2>2, AdvanceGoesOn, <1>0
    <3> QED BY <1>7, <3>1, <3>2
  <2> QED BY <2>1, <2>2
<1>12. ASSUME NEW m \in Msgs, StartFails(m)
       PROVE  /\ latch' \in [Threads -> Msgs \cup {None}]
              /\ \A t \in Threads : latch'[t] \in Live(t)' \cup {None}
  BY <1>6, <1>12 DEF StartFails, Running
<1>13. ASSUME NEW m \in Msgs, AcceptAdrift(m) \/ Unheard(m)
       PROVE  /\ latch' \in [Threads -> Msgs \cup {None}]
              /\ \A t \in Threads : latch'[t] \in Live(t)' \cup {None}
  <2>1. PICK r \in RunRec :
          StepOf(m, r) /\ r.thread = run[m].thread /\ r.at = "start" /\ run[m].at = "start"
    BY <1>0, <1>13, LeftThere
  <2>2. UNCHANGED latch /\ \A x \in Msgs : run'[x].at = run[x].at /\ run'[x].thread = run[x].thread
    BY <1>0, <2>1 DEF StepOf
  <2> QED BY <1>7, <2>2 DEF Running
<1> QED
  BY <1>2, <1>3, <1>4, <1>5, <1>8, <1>9, <1>10, <1>11, <1>12, <1>13 DEF Next, User

LEMMA TypesAgree == TypeInv <=> /\ IInv /\ RestTypes
                               /\ latch \in [Threads -> Msgs \cup {None}]
                               /\ \A t \in Threads : latch[t] \in Live(t) \cup {None}
<1>1. IInv => (TypeOK <=> RestTypes /\ \A t \in Threads : latch[t] \in Live(t) \cup {None})
  <2>1. IInv => (TypeOK => RestTypes /\ \A t \in Threads : latch[t] \in Live(t) \cup {None})
    BY DEF TypeOK, RestTypes
  <2>2. IInv /\ RestTypes /\ (\A t \in Threads : latch[t] \in Live(t) \cup {None}) => TypeOK
    BY DEF IInv, Types, TypeOK, RestTypes, RunRec, Turn
  <2> QED BY <2>1, <2>2
<1> QED BY <1>1 DEF TypeInv

\* Whatever the panel, the runs and the events await stays defined, and the latch
\* is held by nobody or by a run at work in its thread, so that it is let go when
\* that run ends, for any number of threads and messages.
THEOREM TypeCorrect == Spec => []TypeOK
<1>1. Init => TypeInv
  <2> SUFFICES ASSUME Init PROVE TypeInv
    OBVIOUS
  <2>1. RestTypes
    <3>1. paused \in [Threads -> BOOLEAN] /\ crashes \in 0..MaxCrashes
      BY CrashesAssumption DEF Init
    <3> QED BY <3>1 DEF Init, RestTypes
  <2>2. /\ latch \in [Threads -> Msgs \cup {None}]
        /\ \A t \in Threads : latch[t] \in Live(t) \cup {None}
    BY DEF Init
  <2> QED BY <2>1, <2>2, InitIInv, TypesAgree
<1>2. TypeInv /\ [Next]_vars => TypeInv'
  <2> SUFFICES ASSUME TypeInv, [Next]_vars PROVE TypeInv'
    OBVIOUS
  <2>1. IInv /\ RestTypes
    BY TypesAgree
  <2>2. IInv' /\ RestTypes'
    BY <2>1, NextIInv, RestStays
  <2>3. TypeOK'
    BY <2>2, LatchKeeps DEF TypeOK, IInv, Types, RestTypes, RunRec, Turn
  <2> QED BY <2>2, <2>3, LatchKeeps DEF TypeInv
<1>3. TypeInv => TypeOK
  BY DEF TypeInv
<1> QED
  BY <1>1, <1>2, <1>3, PTL DEF Spec

-----------------------------------------------------------------------------
(* That no message is lost, and that the transcript is in order.  A message *)
(* waits in the queue and has not run, or is said and has: so what begins to*)
(* run has not been said before.  What runs is the last thing said, so its  *)
(* answer goes behind it; and an answer that is thrown away is the last.    *)

\* What is parked in a thread is parked once and has not run; what has been said
\* there has.
ParkedWaits(t) ==
    /\ \A i, j \in DOMAIN queued[t] : queued[t][i] = queued[t][j] => i = j
    /\ \A i \in DOMAIN queued[t] : run[queued[t][i]].at = "none"

SpokenRan(t) ==
    /\ \A i \in DOMAIN script[t] : run[script[t][i].msg].at # "none"
    /\ rewrite[t] # None =>
          \A i \in DOMAIN rewrite[t] : run[rewrite[t][i].msg].at # "none"

\* Only what the panel took is anywhere.
OnlyTaken ==
    \A m \in Msgs :
        run[m].at # "none" \/ (\E t \in Threads : Touches(m, t)) => m \in taken

\* A message is a turn of its thread once, and is followed by its answer.
SpokenOnce(t) ==
    \A i, j \in DOMAIN script[t] :
        script[t][i] = script[t][j] /\ script[t][i].who = "user" => i = j

InOrder(t) ==
    \A i \in DOMAIN script[t] :
        IF script[t][i].who = "assistant"
        THEN i > 1 /\ script[t][i - 1] = Says("user", script[t][i].msg)
        ELSE IF i = Len(script[t]) THEN script[t][i].msg \in Live(t)
             ELSE script[t][i + 1] = Says("assistant", script[t][i].msg)

\* The message that runs is the last thing said, or is about to be: the answer
\* behind it is on its way out.
RunsLast(t) ==
    \A m \in Live(t) :
        IF rewrite[t] = None
        THEN script[t] # <<>> /\ Last(script[t]) = Says("user", m)
        ELSE /\ Len(script[t]) >= 2 /\ rewrite[t] = Front(script[t])
             /\ Last(script[t]) = Says("assistant", m)

RewritesLive(t) == rewrite[t] # None => Live(t) # {}

\* No message that was taken has gone.
InHand(m) ==
    \E t \in Threads : \/ \E i \in DOMAIN queued[t] : queued[t][i] = m
                       \/ \E i \in DOMAIN script[t] : script[t][i] = Says("user", m)

\* What is said of a thread on its own.
Orderly(t) == SpokenOnce(t) /\ InOrder(t) /\ RunsLast(t) /\ RewritesLive(t)

PlaceInv ==
    /\ \A t \in Threads : ParkedWaits(t) /\ SpokenRan(t)
    /\ OnlyTaken
    /\ \A t \in Threads \ crossed : Orderly(t)
    /\ crossed = {} => \A m \in taken : InHand(m)

\* Sequences by places.
LEMMA AppendPlaces ==
    ASSUME NEW S, NEW s \in Seq(S), NEW x \in S
    PROVE  /\ Len(s) \in Nat /\ DOMAIN s = 1 .. Len(s)
           /\ Append(s, x) \in Seq(S)
           /\ Len(Append(s, x)) = Len(s) + 1
           /\ DOMAIN Append(s, x) = 1 .. Len(s) + 1
           /\ \A i \in 1 .. Len(s) : Append(s, x)[i] = s[i]
           /\ Append(s, x)[Len(s) + 1] = x
           /\ Append(s, x) # <<>> /\ Last(Append(s, x)) = x
BY DEF Last

LEMMA TailPlaces ==
    ASSUME NEW S, NEW s \in Seq(S), s # <<>>
    PROVE  /\ Len(s) \in Nat /\ DOMAIN s = 1 .. Len(s) /\ 1 \in DOMAIN s
           /\ DOMAIN Tail(s) = 1 .. Len(s) - 1
           /\ \A i \in 1 .. Len(s) - 1 : Tail(s)[i] = s[i + 1]
           /\ Head(s) = s[1]
OBVIOUS

LEMMA FrontPlaces ==
    ASSUME NEW S, NEW s \in Seq(S), Len(s) >= 2
    PROVE  /\ Len(s) \in Nat /\ DOMAIN s = 1 .. Len(s)
           /\ Front(s) \in Seq(S) /\ Len(Front(s)) = Len(s) - 1
           /\ DOMAIN Front(s) = 1 .. Len(s) - 1
           /\ \A i \in 1 .. Len(s) - 1 : Front(s)[i] = s[i]
           /\ Last(s) = s[Len(s)] /\ Front(s) # <<>>
           /\ Last(Front(s)) = s[Len(s) - 1]
<1> DEFINE f == SubSeq(s, 1, Len(s) - 1)
<1>1. Len(s) \in Nat /\ DOMAIN s = 1 .. Len(s)
  OBVIOUS
<1>2. f \in Seq(S) /\ Len(f) = Len(s) - 1 /\ \A i \in 1 .. Len(s) - 1 : f[i] = s[i]
  BY <1>1
<1>3. Front(s) = f /\ Last(s) = s[Len(s)] /\ Last(f) = f[Len(f)]
  BY DEF Front, Last
<1> HIDE DEF f
<1>4. DOMAIN f = 1 .. Len(s) - 1 /\ f # <<>>
  BY <1>1, <1>2
<1>5. Last(f) = s[Len(s) - 1]
  BY <1>1, <1>2, <1>3
<1> QED BY <1>1, <1>2, <1>3, <1>4, <1>5

LEMMA RemovePlaces ==
    ASSUME NEW S, NEW s \in Seq(S), NEW i \in DOMAIN s
    PROVE  /\ Len(s) \in Nat /\ DOMAIN s = 1 .. Len(s)
           /\ DOMAIN RemoveAt(s, i) = 1 .. Len(s) - 1
           /\ \A k \in 1 .. Len(s) - 1 :
                 RemoveAt(s, i)[k] = IF k < i THEN s[k] ELSE s[k + 1]
<1> DEFINE a == SubSeq(s, 1, i - 1)
           b == SubSeq(s, i + 1, Len(s))
<1>0. i \in 1..Len(s) /\ Len(s) \in Nat /\ DOMAIN s = 1 .. Len(s)
  OBVIOUS
<1>1. a \in Seq(S) /\ Len(a) = i - 1 /\ \A k \in 1..(i - 1) : a[k] = s[k]
  BY <1>0
<1>2. b \in Seq(S) /\ Len(b) = Len(s) - i /\ \A k \in 1..(Len(s) - i) : b[k] = s[i + k]
  BY <1>0
<1>3. RemoveAt(s, i) = a \o b
  BY DEF RemoveAt
<1> HIDE DEF a, b
<1>4. /\ a \o b \in Seq(S) /\ Len(a \o b) = Len(a) + Len(b)
      /\ \A k \in 1 .. Len(a) + Len(b) :
            (a \o b)[k] = IF k <= Len(a) THEN a[k] ELSE b[k - Len(a)]
  <2>1. a \in Seq(S) /\ b \in Seq(S)
    BY <1>1, <1>2
  <2> QED BY <2>1, ConcatProperties
<1>5. DOMAIN (a \o b) = 1 .. Len(s) - 1
  <2>1. Len(a \o b) = Len(s) - 1
    BY <1>0, <1>1, <1>2, <1>4
  <2> QED BY <1>4, <2>1
<1>6. ASSUME NEW k \in 1 .. Len(s) - 1
      PROVE  (a \o b)[k] = IF k < i THEN s[k] ELSE s[k + 1]
  <2>1. k \in Nat /\ k \in 1 .. Len(a) + Len(b) /\ (k <= Len(a) <=> k < i)
    BY <1>0, <1>1, <1>2
  <2>2. CASE k < i
    BY <2>1, <2>2, <1>0, <1>1, <1>4
  <2>3. CASE ~(k < i)
    <3>1. k - (i - 1) \in 1 .. (Len(s) - i) /\ i + (k - (i - 1)) = k + 1
      BY <2>1, <2>3, <1>0
    <3>2. (a \o b)[k] = b[k - (i - 1)]
      BY <2>1, <2>3, <1>1, <1>4
    <3>3. b[k - (i - 1)] = s[i + (k - (i - 1))]
      BY <3>1, <1>2
    <3> QED BY <2>3, <3>1, <3>2, <3>3
  <2> QED BY <2>2, <2>3
<1> QED BY <1>0, <1>3, <1>5, <1>6

LEMMA TurnsAreOfMsgs ==
    ASSUME NEW s \in Seq(Turn)
    PROVE  \A i \in DOMAIN s : s[i] \in Turn /\ s[i].msg \in Msgs
<1>1. \A i \in DOMAIN s : s[i] \in Turn
  OBVIOUS
<1> QED BY <1>1 DEF Turn

-----------------------------------------------------------------------------
(* Kinds of steps *)

\* A thread in which nothing is said, and none begins or ends.
LEMMA SpeechStays ==
    ASSUME Types, NEW u \in Threads, script'[u] = script[u], rewrite'[u] = rewrite[u],
           \A x \in Msgs : run[x].at # "none" => run'[x].at # "none"
    PROVE  /\ SpokenRan(u) => SpokenRan(u)'
           /\ Live(u)' = Live(u) /\ Orderly(u) => Orderly(u)'
<1>0. script[u] \in Seq(Turn) /\ (rewrite[u] # None => rewrite[u] \in Seq(Turn))
  BY DEF Types
<1>1. /\ \A i \in DOMAIN script[u] : script[u][i].msg \in Msgs
      /\ rewrite[u] # None => \A i \in DOMAIN rewrite[u] : rewrite[u][i].msg \in Msgs
  BY <1>0, TurnsAreOfMsgs
<1>2. SpokenRan(u) => SpokenRan(u)'
  BY <1>1 DEF SpokenRan
<1>3. ASSUME Live(u)' = Live(u), Orderly(u)
      PROVE  Orderly(u)'
  <2>1. SpokenOnce(u)'
    BY <1>3 DEF Orderly, SpokenOnce
  <2>2. InOrder(u)'
    BY <1>3 DEF Orderly, InOrder
  <2>3. RunsLast(u)'
    BY <1>3 DEF Orderly, RunsLast
  <2>4. RewritesLive(u)'
    BY <1>3 DEF Orderly, RewritesLive
  <2> QED BY <2>1, <2>2, <2>3, <2>4 DEF Orderly
<1> QED BY <1>2, <1>3

\* A message that has not run is said, and begins to run.
LEMMA Speaks ==
    ASSUME Types, NEW t \in Threads, NEW m \in Msgs, Write(t, m), Begin(t, m),
           rewrite' = rewrite, run[m].at = "none", SpokenRan(t)
    PROVE  /\ SpokenRan(t)'
           /\ Orderly(t) /\ Live(t) = {} => Orderly(t)'
           /\ \A x \in Msgs : run[x].at # "none" => run'[x].at # "none"
           /\ \A x \in Msgs \ {m} : run'[x] = run[x]
           /\ run'[m].at # "none"
           /\ \A u \in Threads \ {t} : script'[u] = script[u]
           /\ \A i \in DOMAIN script[t] : i \in DOMAIN script'[t] /\ script'[t][i] = script[t][i]
           /\ \E i \in DOMAIN script'[t] : script'[t][i] = Says("user", m)
<1> DEFINE s == script[t]
           n == Len(s)
           e == Says("user", m)
<1>0. /\ s \in Seq(Turn) /\ e \in Turn /\ e.who = "user" /\ e.msg = m
      /\ run \in [Msgs -> RunRec] /\ rewrite \in [Threads -> Seq(Turn) \cup {None}]
  BY DEF Types, Says, Turn
<1>1. script'[t] = Append(s, e) /\ \A u \in Threads \ {t} : script'[u] = script[u]
  BY DEF Write, Types
<1>2. /\ n \in Nat /\ DOMAIN s = 1 .. n /\ DOMAIN script'[t] = 1 .. n + 1
      /\ Len(script'[t]) = n + 1
      /\ \A i \in 1 .. n : script'[t][i] = s[i] /\ s[i] \in Turn
      /\ script'[t][n + 1] = e
      /\ script'[t] # <<>> /\ Last(script'[t]) = e
  <2> HIDE DEF s, e
  <2>1. \A i \in 1 .. n : s[i] \in Turn
    BY <1>0
  <2> QED BY <1>0, <1>1, <2>1, AppendPlaces
<1>3. /\ run'[m].at = "prepare"
      /\ \A x \in Msgs \ {m} : run'[x] = run[x]
  BY <1>0 DEF Begin, NoRun
<1>4. Live(t)' = Live(t) \cup {m}
  BY <1>0, BeginAddsLive DEF Running
<1>5. SpokenRan(t)'
  <2>1. \A i \in 1 .. n : s[i].msg \in Msgs /\ run[s[i].msg].at # "none"
    BY <1>2 DEF SpokenRan, Turn
  <2>2. \A i \in DOMAIN script'[t] : run'[script'[t][i].msg].at # "none"
    <3>1. e.msg = m
      BY <1>0
    <3> HIDE DEF s, e, n
    <3>2. \A x \in Msgs : run[x].at # "none" => run'[x].at # "none"
      BY <1>3
    <3>3. \A i \in 1 .. n : run'[script'[t][i].msg].at # "none"
      BY <1>2, <2>1, <3>2
    <3>4. run'[script'[t][n + 1].msg].at # "none"
      BY <1>2, <1>3, <3>1
    <3> QED BY <1>2, <3>3, <3>4
  <2>3. rewrite[t] # None =>
           \A i \in DOMAIN rewrite[t] : run'[rewrite[t][i].msg].at # "none"
    <3>1. rewrite[t] # None => \A i \in DOMAIN rewrite[t] : rewrite[t][i].msg \in Msgs
      BY <1>0, TurnsAreOfMsgs
    <3> QED BY <1>3, <3>1 DEF SpokenRan
  <2> QED BY <2>2, <2>3 DEF SpokenRan
<1>6. ASSUME Orderly(t), Live(t) = {}
      PROVE  Orderly(t)'
  <2>0. /\ rewrite[t] = None /\ rewrite'[t] = None
        /\ \A i \in 1 .. n : s[i] # e
    BY <1>0, <1>2, <1>6 DEF Orderly, RewritesLive, SpokenRan
  <2> HIDE DEF e
  <2>1. SpokenOnce(t)'
    <3>1. \A i, j \in 1 .. n : s[i] = s[j] /\ s[i].who = "user" => i = j
      BY <1>2, <1>6 DEF Orderly, SpokenOnce
    <3>2. \A i, j \in 1 .. n + 1 :
             script'[t][i] = script'[t][j] /\ script'[t][i].who = "user" => i = j
      <4> HIDE DEF s, n
      <4> QED BY <1>2, <2>0, <3>1
    <3> QED BY <1>2, <3>2 DEF SpokenOnce
  <2>2. InOrder(t)'
    <3>1. \A i \in 1 .. n :
             IF s[i].who = "assistant"
             THEN i > 1 /\ s[i - 1] = Says("user", s[i].msg)
             ELSE i # n /\ s[i + 1] = Says("assistant", s[i].msg)
      BY <1>2, <1>6 DEF Orderly, InOrder
    <3>2. \A i \in 1 .. n + 1 :
             IF script'[t][i].who = "assistant"
             THEN i > 1 /\ script'[t][i - 1] = Says("user", script'[t][i].msg)
             ELSE IF i = n + 1 THEN script'[t][i].msg \in Live(t)'
                  ELSE script'[t][i + 1] = Says("assistant", script'[t][i].msg)
      <4> HIDE DEF s, n
      <4>1. ASSUME NEW i \in 1 .. n
            PROVE  IF script'[t][i].who = "assistant"
                   THEN i > 1 /\ script'[t][i - 1] = Says("user", script'[t][i].msg)
                   ELSE script'[t][i + 1] = Says("assistant", script'[t][i].msg)
        BY <1>2, <3>1
      <4>2. script'[t][n + 1].who # "assistant" /\ script'[t][n + 1].msg \in Live(t)'
        BY <1>0, <1>2, <1>4
      <4> QED BY <1>2, <4>1, <4>2
    <3> QED BY <1>2, <3>2 DEF InOrder
  <2>3. RunsLast(t)'
    BY <1>2, <1>4, <1>6, <2>0 DEF RunsLast, e
  <2>4. RewritesLive(t)'
    BY <2>0 DEF RewritesLive
  <2> QED BY <2>1, <2>2, <2>3, <2>4 DEF Orderly
<1>7. \E i \in DOMAIN script'[t] : script'[t][i] = Says("user", m)
  <2>1. n + 1 \in DOMAIN script'[t]
    BY <1>2
  <2> QED BY <1>2, <2>1
<1>8. \A i \in DOMAIN script[t] : i \in DOMAIN script'[t] /\ script'[t][i] = script[t][i]
  BY <1>2
<1> QED BY <1>1, <1>3, <1>5, <1>6, <1>7, <1>8

\* A step that parks nothing, says nothing and begins nothing.
LEMMA NothingMoves ==
    ASSUME IInv, PlaceInv, UNCHANGED <<queued, script, rewrite, taken, crossed>>,
           \A x \in Msgs : /\ Running(x) <=> Running(x)'
                           /\ run'[x].thread = run[x].thread
                           /\ run[x].at = "none" <=> run'[x].at = "none"
    PROVE  PlaceInv'
<1>1. \A t \in Threads : Live(t)' = Live(t)
  BY DEF Live
<1>2. ASSUME NEW t \in Threads PROVE ParkedWaits(t)' /\ SpokenRan(t)'
  <2>1. queued[t] \in Seq(Msgs)
    BY DEF IInv, Types
  <2>2. \A i \in DOMAIN queued[t] : queued[t][i] \in Msgs
    BY <2>1
  <2>3. ParkedWaits(t)'
    BY <2>2 DEF PlaceInv, ParkedWaits
  <2>4. SpokenRan(t)'
    BY SpeechStays DEF PlaceInv, IInv
  <2> QED BY <2>3, <2>4
<1>3. ASSUME NEW t \in Threads \ crossed' PROVE Orderly(t)'
  BY <1>1, SpeechStays DEF PlaceInv, IInv
<1>4. OnlyTaken'
  BY DEF PlaceInv, OnlyTaken, Touches
<1>5. crossed' = {} => \A m \in taken' : InHand(m)'
  BY DEF PlaceInv, InHand
<1> QED BY <1>2, <1>3, <1>4, <1>5 DEF PlaceInv

\* A message that has not run, and is not parked any more, is said and runs.
LEMMA SpeaksKeeps ==
    ASSUME IInv, PlaceInv, NEW t \in Threads, NEW m \in Msgs, Write(t, m), Begin(t, m),
           rewrite' = rewrite, run[m].at = "none",
           taken' = taken \cup {m}, crossed \subseteq crossed',
           t \notin crossed' => Live(t) = {},
           \A u \in Threads :
              /\ \A i, j \in DOMAIN queued'[u] : queued'[u][i] = queued'[u][j] => i = j
              /\ \A i \in DOMAIN queued'[u] :
                    /\ queued'[u][i] # m
                    /\ \E j \in DOMAIN queued[u] : queued[u][j] = queued'[u][i]
              /\ \A i \in DOMAIN queued[u] :
                    \/ queued[u][i] = m
                    \/ \E j \in DOMAIN queued'[u] : queued'[u][j] = queued[u][i]
    PROVE  PlaceInv'
<1>0. Types /\ ~Running(m)
  BY DEF IInv, Running
<1>1. SpokenRan(t)
  BY DEF PlaceInv
<1>2. /\ SpokenRan(t)'
      /\ Orderly(t) /\ Live(t) = {} => Orderly(t)'
      /\ \A x \in Msgs : run[x].at # "none" => run'[x].at # "none"
      /\ \A x \in Msgs \ {m} : run'[x] = run[x]
      /\ run'[m].at # "none"
      /\ \A u \in Threads \ {t} : script'[u] = script[u]
      /\ \A i \in DOMAIN script[t] : i \in DOMAIN script'[t] /\ script'[t][i] = script[t][i]
      /\ \E i \in DOMAIN script'[t] : script'[t][i] = Says("user", m)
  BY <1>0, <1>1, Speaks
<1>3. \A u \in Threads : Live(u)' = IF u = t THEN Live(u) \cup {m} ELSE Live(u)
  BY <1>0, BeginAddsLive
<1>4. ASSUME NEW u \in Threads PROVE ParkedWaits(u)'
  <2>1. \A i \in DOMAIN queued[u] : queued[u][i] \in Msgs /\ run[queued[u][i]].at = "none"
    BY <1>0 DEF Types, PlaceInv, ParkedWaits
  <2>2. \A i \in DOMAIN queued'[u] : run'[queued'[u][i]].at = "none"
    BY <1>2, <2>1
  <2> QED BY <2>2 DEF ParkedWaits
<1>5. ASSUME NEW u \in Threads PROVE SpokenRan(u)'
  BY <1>0, <1>2, SpeechStays DEF PlaceInv
<1>6. ASSUME NEW u \in Threads \ crossed' PROVE Orderly(u)'
  <2>1. Orderly(u)
    BY DEF PlaceInv
  <2>2. CASE u = t
    BY <1>2, <2>1, <2>2
  <2>3. CASE u # t
    BY <1>0, <1>2, <1>3, <2>1, <2>3, SpeechStays
  <2> QED BY <2>2, <2>3
<1>7. OnlyTaken'
  <2> SUFFICES ASSUME NEW x \in Msgs, x # m,
                      run'[x].at # "none" \/ \E u \in Threads : Touches(x, u)'
               PROVE  x \in taken
    BY DEF OnlyTaken
  <2>1. ASSUME NEW u \in Threads, Touches(x, u)'
        PROVE  Touches(x, u)
    <3>1. ASSUME NEW i \in DOMAIN queued'[u], queued'[u][i] = x
          PROVE  Touches(x, u)
      BY <3>1 DEF Touches
    <3>2. ASSUME NEW i \in DOMAIN script'[u], script'[u][i].msg = x
          PROVE  Touches(x, u)
      <4>1. CASE u # t
        BY <1>2, <3>2, <4>1 DEF Touches
      <4>2. CASE u = t
        <5>1. /\ script[t] \in Seq(Turn) /\ Says("user", m) \in Turn
              /\ Says("user", m).msg = m
              /\ script'[t] = Append(script[t], Says("user", m))
          BY <1>0 DEF Types, Says, Turn, Write
        <5>2. \/ i \in DOMAIN script[t] /\ script'[t][i] = script[t][i]
              \/ script'[t][i] = Says("user", m)
          BY <3>2, <4>2, <5>1, AppendElems
        <5> QED BY <3>2, <4>2, <5>1, <5>2 DEF Touches
      <4> QED BY <4>1, <4>2
    <3>3. Running(x)' /\ run'[x].thread = u => Touches(x, u)
      BY <1>2 DEF Touches, Running
    <3>4. rewrite'[u] # None /\ (\E i \in DOMAIN rewrite'[u] : rewrite'[u][i].msg = x)
             => Touches(x, u)
      BY DEF Touches
    <3> QED BY <2>1, <3>1, <3>2, <3>3, <3>4 DEF Touches
  <2>2. run'[x].at = run[x].at
    BY <1>2
  <2> QED BY <2>1, <2>2 DEF PlaceInv, OnlyTaken
<1>8. ASSUME crossed' = {}, NEW x \in taken' PROVE InHand(x)'
  <2>1. CASE x = m
    BY <1>2, <2>1 DEF InHand
  <2>2. CASE x # m
    <3>1. InHand(x)
      BY <1>8, <2>2 DEF PlaceInv
    <3>2. PICK u \in Threads : \/ \E i \in DOMAIN queued[u] : queued[u][i] = x
                               \/ \E i \in DOMAIN script[u] : script[u][i] = Says("user", x)
      BY <3>1 DEF InHand
    <3>3. ASSUME NEW i \in DOMAIN queued[u], queued[u][i] = x PROVE InHand(x)'
      BY <2>2, <3>3 DEF InHand
    <3>4. ASSUME NEW i \in DOMAIN script[u], script[u][i] = Says("user", x) PROVE InHand(x)'
      BY <1>2, <3>4 DEF InHand
    <3> QED BY <3>2, <3>3, <3>4
  <2> QED BY <2>1, <2>2
<1> QED BY <1>4, <1>5, <1>6, <1>7, <1>8 DEF PlaceInv

-----------------------------------------------------------------------------
(* The steps *)

\* A fresh message has not run and is nowhere.
LEMMA FreshIsNowhere ==
    ASSUME IInv, PlaceInv, Unsent # {}
    PROVE  /\ Fresh \in Msgs /\ run[Fresh].at = "none"
           /\ \A t \in Threads : ~Touches(Fresh, t)
BY FreshIsFresh DEF PlaceInv, OnlyTaken

\* A fresh message that is said at once.
LEMMA FreshSpeaks ==
    ASSUME IInv, PlaceInv, Unsent # {}, Write(visible, Fresh), Begin(visible, Fresh),
           UNCHANGED <<queued, rewrite>>, taken' = taken \cup {Fresh},
           crossed \subseteq crossed', visible \notin crossed' => Live(visible) = {}
    PROVE  PlaceInv'
<1>1. /\ Fresh \in Msgs /\ run[Fresh].at = "none" /\ visible \in Threads
      /\ \A t \in Threads : ~Touches(Fresh, t)
  BY FreshIsNowhere DEF IInv, Types
<1>2. \A u \in Threads :
         /\ \A i, j \in DOMAIN queued'[u] : queued'[u][i] = queued'[u][j] => i = j
         /\ \A i \in DOMAIN queued'[u] :
               /\ queued'[u][i] # Fresh
               /\ \E j \in DOMAIN queued[u] : queued[u][j] = queued'[u][i]
         /\ \A i \in DOMAIN queued[u] :
               \/ queued[u][i] = Fresh
               \/ \E j \in DOMAIN queued'[u] : queued'[u][j] = queued[u][i]
  BY <1>1 DEF PlaceInv, ParkedWaits, Touches
<1> QED BY <1>1, <1>2, SpeaksKeeps

LEMMA ParkPlaces ==
    ASSUME IInv, PlaceInv, Unsent # {}, Park(visible, Fresh),
           taken' = taken \cup {Fresh}, UNCHANGED <<rewrite, crossed>>
    PROVE  PlaceInv'
<1> DEFINE v == visible
           f == Fresh
<1>0. /\ f \in Msgs /\ run[f].at = "none" /\ v \in Threads
      /\ \A t \in Threads : ~Touches(f, t)
      /\ queued[v] \in Seq(Msgs)
      /\ UNCHANGED <<script, run, rewrite, crossed>>
  BY FreshIsNowhere DEF IInv, Types, Park
<1>1. /\ queued'[v] = Append(queued[v], f)
      /\ \A u \in Threads \ {v} : queued'[u] = queued[u]
  BY <1>0 DEF Park, IInv, Types
<1>2. /\ DOMAIN queued[v] = 1 .. Len(queued[v]) /\ Len(queued[v]) \in Nat
      /\ DOMAIN queued'[v] = 1 .. Len(queued[v]) + 1
      /\ \A i \in 1 .. Len(queued[v]) : queued'[v][i] = queued[v][i]
      /\ queued'[v][Len(queued[v]) + 1] = f
  <2> HIDE DEF v, f
  <2> QED BY <1>0, <1>1, AppendPlaces
<1>3. ASSUME NEW u \in Threads PROVE ParkedWaits(u)'
  <2>1. CASE u # v
    BY <1>0, <1>1, <2>1 DEF PlaceInv, ParkedWaits
  <2>2. CASE u = v
    <3>1. /\ \A i, j \in 1 .. Len(queued[v]) : queued[v][i] = queued[v][j] => i = j
          /\ \A i \in 1 .. Len(queued[v]) : run[queued[v][i]].at = "none"
      BY <1>0, <1>2 DEF PlaceInv, ParkedWaits
    <3>2. \A i \in 1 .. Len(queued[v]) : queued[v][i] # f
      BY <1>0, <1>2 DEF Touches
    <3> HIDE DEF v, f
    <3>3. \A i, j \in DOMAIN queued'[v] : queued'[v][i] = queued'[v][j] => i = j
      BY <1>2, <3>1, <3>2
    <3>4. \A i \in DOMAIN queued'[v] : run[queued'[v][i]].at = "none"
      BY <1>0, <1>2, <3>1
    <3> QED BY <1>0, <2>2, <3>3, <3>4 DEF ParkedWaits
  <2> QED BY <2>1, <2>2
<1>4. \A u \in Threads : Live(u)' = Live(u)
  BY <1>0 DEF Live, Running
<1>5. ASSUME NEW u \in Threads
      PROVE  SpokenRan(u)' /\ (u \notin crossed' => Orderly(u)')
  BY <1>0, <1>4, SpeechStays DEF PlaceInv, IInv
<1>6. OnlyTaken'
  <2> SUFFICES ASSUME NEW x \in Msgs, x # f,
                      run'[x].at # "none" \/ \E u \in Threads : Touches(x, u)'
               PROVE  x \in taken
    BY DEF OnlyTaken
  <2>1. ASSUME NEW u \in Threads, Touches(x, u)' PROVE Touches(x, u)
    <3>1. ASSUME NEW i \in DOMAIN queued'[u], queued'[u][i] = x PROVE Touches(x, u)
      <4>1. CASE u # v
        BY <1>1, <3>1, <4>1 DEF Touches
      <4>2. CASE u = v
        <5>1. i \in 1 .. Len(queued[v])
          <6> HIDE DEF v, f
          <6> QED BY <1>2, <3>1, <4>2
        <5> QED BY <1>2, <3>1, <4>2, <5>1 DEF Touches
      <4> QED BY <4>1, <4>2
    <3> QED BY <1>0, <2>1, <3>1 DEF Touches, Running
  <2> QED BY <1>0, <2>1 DEF PlaceInv, OnlyTaken
<1>7. ASSUME crossed' = {}, NEW x \in taken' PROVE InHand(x)'
  <2>1. CASE x = f
    <3>1. Len(queued[v]) + 1 \in DOMAIN queued'[v]
      BY <1>2
    <3> QED BY <1>0, <1>2, <2>1, <3>1 DEF InHand
  <2>2. CASE x # f
    <3>1. InHand(x)
      BY <1>0, <1>7, <2>2 DEF PlaceInv
    <3>2. \A i \in DOMAIN queued[v] : i \in DOMAIN queued'[v] /\ queued'[v][i] = queued[v][i]
      BY <1>2
    <3> QED BY <1>0, <1>1, <3>1, <3>2 DEF InHand
  <2> QED BY <2>1, <2>2
<1> QED BY <1>3, <1>5, <1>6, <1>7 DEF PlaceInv

LEMMA DrainPlaces ==
    ASSUME IInv, PlaceInv, Drain
    PROVE  PlaceInv'
<1> DEFINE v == visible
           q == queued[v]
           m == Head(q)
<1>0. /\ v \in Threads /\ status[v] # "streaming" /\ q # <<>> /\ q \in Seq(Msgs)
      /\ queued' = [queued EXCEPT ![v] = Tail(q)]
      /\ Write(v, m) /\ Begin(v, m)
      /\ UNCHANGED <<rewrite, taken, crossed>>
  BY DEF Drain, IInv, Types, histVars
<1>1. /\ Len(q) \in Nat /\ DOMAIN q = 1 .. Len(q) /\ 1 \in DOMAIN q
      /\ DOMAIN Tail(q) = 1 .. Len(q) - 1
      /\ \A i \in 1 .. Len(q) - 1 : Tail(q)[i] = q[i + 1]
      /\ m = q[1]
  <2>1. q \in Seq(Msgs) /\ q # <<>>
    BY <1>0
  <2> HIDE DEF q
  <2> QED BY <2>1, TailPlaces
<1>2. queued'[v] = Tail(q) /\ \A u \in Threads \ {v} : queued'[u] = queued[u]
  BY <1>0 DEF IInv, Types
<1>3. /\ m \in Msgs /\ run[m].at = "none" /\ Touches(m, v)
      /\ \A i, j \in 1 .. Len(q) : q[i] = q[j] => i = j
  BY <1>0, <1>1 DEF PlaceInv, ParkedWaits, Touches
<1>4. m \in taken
  BY <1>0, <1>3 DEF PlaceInv, OnlyTaken
<1>5. \A u \in Threads \ {v} : \A i \in DOMAIN queued[u] : queued[u][i] # m
  BY <1>0, <1>3 DEF IInv, OneHome, Touches
<1>6. v \notin crossed' => Live(v) = {}
  BY <1>0 DEF IInv, OneStream
<1>7. ASSUME NEW u \in Threads
      PROVE  /\ \A i, j \in DOMAIN queued'[u] : queued'[u][i] = queued'[u][j] => i = j
             /\ \A i \in DOMAIN queued'[u] :
                   /\ queued'[u][i] # m
                   /\ \E j \in DOMAIN queued[u] : queued[u][j] = queued'[u][i]
             /\ \A i \in DOMAIN queued[u] :
                   \/ queued[u][i] = m
                   \/ \E j \in DOMAIN queued'[u] : queued'[u][j] = queued[u][i]
  <2>1. CASE u # v
    BY <1>2, <1>5, <2>1 DEF PlaceInv, ParkedWaits
  <2>2. CASE u = v
    <3>0. queued[u] = q /\ queued'[u] = Tail(q)
      BY <1>2, <2>2
    <3> HIDE DEF q, m
    <3>1. \A i, j \in 1 .. Len(q) - 1 : Tail(q)[i] = Tail(q)[j] => i = j
      <4> TAKE i, j \in 1 .. Len(q) - 1
      <4>1. Tail(q)[i] = q[i + 1] /\ Tail(q)[j] = q[j + 1]
        BY <1>1
      <4>2. i + 1 \in 1 .. Len(q) /\ j + 1 \in 1 .. Len(q)
        BY <1>1
      <4>3. q[i + 1] = q[j + 1] => i + 1 = j + 1
        BY <1>3, <4>2
      <4> QED BY <4>1, <4>3
    <3>2. \A i \in 1 .. Len(q) - 1 :
             Tail(q)[i] # m /\ \E j \in 1 .. Len(q) : q[j] = Tail(q)[i]
      <4> TAKE i \in 1 .. Len(q) - 1
      <4>1. Tail(q)[i] = q[i + 1] /\ i + 1 \in 1 .. Len(q) /\ i + 1 # 1 /\ 1 \in 1 .. Len(q)
        BY <1>1
      <4>2. q[i + 1] # q[1]
        BY <1>3, <4>1
      <4> QED BY <1>1, <4>1, <4>2
    <3>3. \A i \in 1 .. Len(q) :
             q[i] = m \/ \E j \in 1 .. Len(q) - 1 : Tail(q)[j] = q[i]
      <4> TAKE i \in 1 .. Len(q)
      <4>1. CASE i = 1
        BY <1>1, <4>1
      <4>2. CASE i # 1
        <5>1. i - 1 \in 1 .. Len(q) - 1 /\ (i - 1) + 1 = i
          BY <1>1, <4>2
        <5> QED BY <1>1, <5>1
      <4> QED BY <4>1, <4>2
    <3>4. DOMAIN queued[u] = 1 .. Len(q) /\ DOMAIN queued'[u] = 1 .. Len(q) - 1
      BY <1>1, <3>0
    <3>5. \A i, j \in DOMAIN queued'[u] : queued'[u][i] = queued'[u][j] => i = j
      BY <3>0, <3>1, <3>4
    <3>6. \A i \in DOMAIN queued'[u] :
             /\ queued'[u][i] # m
             /\ \E j \in DOMAIN queued[u] : queued[u][j] = queued'[u][i]
      BY <3>0, <3>2, <3>4
    <3>7. \A i \in DOMAIN queued[u] :
             \/ queued[u][i] = m
             \/ \E j \in DOMAIN queued'[u] : queued'[u][j] = queued[u][i]
      BY <3>0, <3>3, <3>4
    <3> QED BY <3>5, <3>6, <3>7
  <2> QED BY <2>1, <2>2
<1>8. /\ rewrite' = rewrite /\ taken' = taken \cup {m} /\ crossed \subseteq crossed'
  BY <1>0, <1>4
<1> HIDE DEF v, q, m
<1> QED BY ZenonT(30), <1>0, <1>3, <1>6, <1>7, <1>8, SpeaksKeeps

LEMMA SaysApart ==
    ASSUME NEW x, NEW y, NEW a, NEW b, Says(a, x) = Says(b, y)
    PROVE  a = b /\ x = y
<1>1. Says(a, x).who = Says(b, y).who /\ Says(a, x).msg = Says(b, y).msg
  OBVIOUS
<1> HIDE DEF Says
<1>2. /\ Says(a, x).who = a /\ Says(b, y).who = b
      /\ Says(a, x).msg = x /\ Says(b, y).msg = y
  BY DEF Says
<1> QED BY <1>1, <1>2

LEMMA RegeneratePlaces ==
    ASSUME IInv, PlaceInv, Regenerate
    PROVE  PlaceInv'
<1> DEFINE v == visible
           s == script[v]
           n == Len(s)
           m == s[n - 1].msg
<1>0. /\ v \in Threads /\ status[v] # "streaming" /\ n >= 2 /\ s \in Seq(Turn)
      /\ Last(s).who = "assistant" /\ s[n - 1].who = "user"
      /\ Begin(v, m)
      /\ rewrite' = [rewrite EXCEPT ![v] = Front(s)]
      /\ UNCHANGED <<queued, script, taken, crossed>>
  BY DEF Regenerate, IInv, Types, histVars
<1>1. /\ n \in Nat /\ DOMAIN s = 1 .. n
      /\ Front(s) \in Seq(Turn) /\ Len(Front(s)) = n - 1
      /\ DOMAIN Front(s) = 1 .. n - 1
      /\ \A i \in 1 .. n - 1 : Front(s)[i] = s[i]
      /\ Last(s) = s[n]
  <2>1. s \in Seq(Turn) /\ Len(s) >= 2
    BY <1>0
  <2> HIDE DEF s
  <2> QED BY <2>1, FrontPlaces
<1>2. rewrite'[v] = Front(s) /\ \A u \in Threads \ {v} : rewrite'[u] = rewrite[u]
  BY <1>0 DEF IInv, Types
<1>3. n - 1 \in DOMAIN s /\ n \in DOMAIN s
  BY <1>0, <1>1
<1>4. m \in Msgs /\ run[m].at # "none" /\ Touches(m, v)
  <2>1. m \in Msgs
    BY <1>0, <1>3, TurnsAreOfMsgs
  <2> QED BY <1>0, <1>3, <2>1 DEF PlaceInv, SpokenRan, Touches
<1>5. Running(m) => run[m].thread = v
  BY <1>0, <1>4 DEF IInv, OneHome, Touches, Types
<1>6. m \in taken
  BY <1>0, <1>4 DEF PlaceInv, OnlyTaken
<1>7. /\ \A x \in Msgs \ {m} : run'[x] = run[x]
      /\ run'[m].at = "prepare"
      /\ \A x \in Msgs : run[x].at = "none" <=> run'[x].at = "none"
  BY <1>0, <1>4 DEF Begin, IInv, Types, NoRun
<1>8. \A u \in Threads : Live(u)' = IF u = v THEN Live(u) \cup {m} ELSE Live(u)
  <2> HIDE DEF v, m
  <2> QED BY <1>0, <1>4, <1>5, BeginAddsLive DEF IInv
<1>9. ASSUME NEW u \in Threads PROVE ParkedWaits(u)'
  <2>1. \A i \in DOMAIN queued[u] : queued[u][i] \in Msgs
    BY DEF IInv, Types
  <2> QED BY <1>0, <1>7, <2>1 DEF PlaceInv, ParkedWaits
<1>10. ASSUME NEW u \in Threads PROVE SpokenRan(u)'
  <2>1. CASE u # v
    <3>1. script'[u] = script[u] /\ rewrite'[u] = rewrite[u] /\ SpokenRan(u) /\ Types
      BY <1>0, <1>2, <2>1 DEF PlaceInv, IInv
    <3> QED BY <1>7, <3>1, SpeechStays
  <2>2. CASE u = v
    <3>1. \A i \in DOMAIN s : s[i].msg \in Msgs /\ run[s[i].msg].at # "none"
      BY <1>0, TurnsAreOfMsgs DEF PlaceInv, SpokenRan
    <3>2. \A i \in DOMAIN s : run'[s[i].msg].at # "none"
      BY <1>7, <3>1
    <3>3. \A i \in DOMAIN Front(s) : i \in DOMAIN s /\ Front(s)[i] = s[i]
      BY <1>1
    <3> QED BY <1>0, <1>2, <2>2, <3>2, <3>3 DEF SpokenRan
  <2> QED BY <2>1, <2>2
<1>11. ASSUME NEW u \in Threads \ crossed' PROVE Orderly(u)'
  <2>0. Orderly(u)
    BY <1>0 DEF PlaceInv
  <2>1. CASE u # v
    <3>1. /\ script'[u] = script[u] /\ rewrite'[u] = rewrite[u] /\ Types
          /\ Live(u)' = Live(u)
      BY <1>0, <1>2, <1>8, <2>1 DEF IInv
    <3> QED BY <1>7, <2>0, <3>1, SpeechStays
  <2>2. CASE u = v
    <3>1. Live(u) = {} /\ Live(u)' = {m} /\ script'[u] = script[u]
      BY <1>0, <1>8, <2>2 DEF IInv, OneStream
    <3>2. SpokenOnce(u)'
      BY <2>0, <2>2, <3>1 DEF Orderly, SpokenOnce
    <3>3. InOrder(u)'
      BY <2>0, <2>2, <3>1 DEF Orderly, InOrder
    <3>4. RunsLast(u)'
      <4>1. s[n] = Says("assistant", m)
        <5>1. s[n] \in Turn /\ s[n].who = "assistant" /\ s[n - 1] = Says("user", s[n].msg)
          BY <1>0, <1>1, <1>3, <2>0, <2>2 DEF Orderly, InOrder
        <5>2. s[n] = Says("assistant", s[n].msg) /\ s[n].msg = m
          BY <5>1 DEF Turn, Says
        <5> QED BY <5>2
      <4>2. rewrite'[u] # None /\ rewrite'[u] = Front(script'[u]) /\ script'[u] = s
        BY <1>0, <1>1, <1>2, <2>2, NoneAssumption DEF Turn
      <4> QED BY <1>0, <1>1, <1>2, <3>1, <4>1, <4>2 DEF RunsLast
    <3>5. RewritesLive(u)'
      BY <3>1 DEF RewritesLive
    <3> QED BY <2>2, <3>2, <3>3, <3>4, <3>5 DEF Orderly
  <2> QED BY <2>1, <2>2
<1>12. OnlyTaken'
  <2> SUFFICES ASSUME NEW x \in Msgs, x # m,
                      run'[x].at # "none" \/ \E u \in Threads : Touches(x, u)'
               PROVE  x \in taken
    BY <1>0, <1>6 DEF OnlyTaken
  <2>1. ASSUME NEW u \in Threads, Touches(x, u)' PROVE Touches(x, u)
    <3>1. ASSUME NEW i \in DOMAIN rewrite'[u], rewrite'[u] # None, rewrite'[u][i].msg = x
          PROVE  Touches(x, u)
      <4>1. CASE u # v
        BY <1>2, <3>1, <4>1 DEF Touches
      <4>2. CASE u = v
        <5>1. i \in DOMAIN s /\ s[i].msg = x
          BY <1>1, <1>2, <3>1, <4>2
        <5> QED BY <4>2, <5>1 DEF Touches
      <4> QED BY <4>1, <4>2
    <3>2. Running(x)' /\ run'[x].thread = u => Touches(x, u)
      BY <1>7 DEF Touches, Running
    <3> QED BY <1>0, <2>1, <3>1, <3>2 DEF Touches
  <2>2. run'[x].at = run[x].at
    BY <1>7
  <2> QED BY <2>1, <2>2 DEF PlaceInv, OnlyTaken
<1>13. crossed' = {} => \A x \in taken' : InHand(x)'
  BY <1>0 DEF PlaceInv, InHand
<1> QED BY <1>9, <1>10, <1>11, <1>12, <1>13 DEF PlaceInv

\* In order, what runs behind an answer that is thrown away is its message.
LEMMA RewriteEndsLive ==
    ASSUME IInv, NEW t \in Threads, Orderly(t), rewrite[t] # None, NEW m \in Live(t)
    PROVE  /\ Len(script[t]) \in Nat /\ Len(script[t]) >= 2
           /\ DOMAIN script[t] = 1 .. Len(script[t])
           /\ DOMAIN rewrite[t] = 1 .. Len(script[t]) - 1
           /\ Len(rewrite[t]) = Len(script[t]) - 1
           /\ \A i \in 1 .. Len(script[t]) - 1 : rewrite[t][i] = script[t][i]
           /\ script[t][Len(script[t])] = Says("assistant", m)
           /\ script[t][Len(script[t]) - 1] = Says("user", m)
           /\ rewrite[t] # <<>> /\ Last(rewrite[t]) = Says("user", m)
<1> DEFINE s == script[t]
           n == Len(s)
<1>1. /\ s \in Seq(Turn) /\ n >= 2 /\ rewrite[t] = Front(s)
      /\ Last(s) = Says("assistant", m)
  BY DEF IInv, Types, Orderly, RunsLast
<1>2. /\ n \in Nat /\ DOMAIN s = 1 .. n
      /\ Len(Front(s)) = n - 1 /\ DOMAIN Front(s) = 1 .. n - 1
      /\ \A i \in 1 .. n - 1 : Front(s)[i] = s[i]
      /\ Last(s) = s[n] /\ Front(s) # <<>> /\ Last(Front(s)) = s[n - 1]
  <2> HIDE DEF s
  <2> QED BY <1>1, FrontPlaces
<1>3. s[n] = Says("assistant", m) /\ s[n].who = "assistant" /\ s[n].msg = m
  BY <1>1, <1>2 DEF Says
<1>4. n \in DOMAIN script[t]
  BY <1>1, <1>2
<1>5. s[n - 1] = Says("user", m)
  BY <1>3, <1>4 DEF Orderly, InOrder
<1> QED BY <1>1, <1>2, <1>3, <1>5

LEMMA RewrittenPlaces ==
    ASSUME IInv, PlaceInv, NEW t \in Threads, Rewritten(t)
    PROVE  PlaceInv'
<1> DEFINE s == script[t]
           n == Len(s)
<1>0. /\ rewrite[t] # None /\ rewrite[t] \in Seq(Turn)
      /\ script'[t] = rewrite[t] /\ rewrite'[t] = None
      /\ \A u \in Threads \ {t} : script'[u] = script[u] /\ rewrite'[u] = rewrite[u]
      /\ UNCHANGED <<queued, run, taken, crossed>>
  BY DEF Rewritten, IInv, Types, storeVars, histVars
<1>1. \A u \in Threads : Live(u)' = Live(u)
  BY <1>0 DEF Live, Running
<1>2. ASSUME NEW u \in Threads PROVE ParkedWaits(u)'
  BY <1>0 DEF PlaceInv, ParkedWaits
<1>3. ASSUME NEW u \in Threads PROVE SpokenRan(u)'
  BY <1>0 DEF PlaceInv, SpokenRan
<1>4. ASSUME Orderly(t)
      PROVE  /\ \A i \in DOMAIN s : s[i].who = "user" =>
                   i \in DOMAIN script'[t] /\ script'[t][i] = s[i]
             /\ Orderly(t)'
  <2>1. PICK m \in Live(t) : TRUE
    BY <1>0, <1>4 DEF Orderly, RewritesLive
  <2>2. /\ n \in Nat /\ n >= 2 /\ DOMAIN s = 1 .. n
        /\ DOMAIN script'[t] = 1 .. n - 1 /\ Len(script'[t]) = n - 1
        /\ \A i \in 1 .. n - 1 : script'[t][i] = s[i]
        /\ s[n] = Says("assistant", m) /\ s[n - 1] = Says("user", m)
        /\ script'[t] # <<>> /\ Last(script'[t]) = Says("user", m)
    BY <1>0, <1>4, <2>1, RewriteEndsLive
  <2>3. s[n].who # "user" /\ s[n - 1].who # "assistant" /\ s[n - 1].msg = m
    BY <2>2 DEF Says
  <2>4. SpokenOnce(t)'
    <3>1. \A i, j \in 1 .. n : s[i] = s[j] /\ s[i].who = "user" => i = j
      BY <1>4, <2>2 DEF Orderly, SpokenOnce
    <3>2. \A i, j \in 1 .. n - 1 :
             script'[t][i] = script'[t][j] /\ script'[t][i].who = "user" => i = j
      <4> HIDE DEF s, n
      <4>1. \A i \in 1 .. n - 1 : i \in 1 .. n
        BY <2>2
      <4> QED BY <2>2, <3>1, <4>1
    <3> QED BY <2>2, <3>2 DEF SpokenOnce
  <2>5. InOrder(t)'
    <3>1. \A i \in 1 .. n :
             IF s[i].who = "assistant"
             THEN i > 1 /\ s[i - 1] = Says("user", s[i].msg)
             ELSE IF i = n THEN s[i].msg \in Live(t)
                  ELSE s[i + 1] = Says("assistant", s[i].msg)
      BY <1>4, <2>2 DEF Orderly, InOrder
    <3>2. ASSUME NEW i \in 1 .. n - 1
          PROVE  IF script'[t][i].who = "assistant"
                 THEN i > 1 /\ script'[t][i - 1] = Says("user", script'[t][i].msg)
                 ELSE IF i = n - 1 THEN script'[t][i].msg \in Live(t)
                      ELSE script'[t][i + 1] = Says("assistant", script'[t][i].msg)
      <4> HIDE DEF s, n
      <4>1. i \in 1 .. n /\ i # n /\ script'[t][i] = s[i]
        BY <2>2
      <4>2. ASSUME i > 1 PROVE script'[t][i - 1] = s[i - 1]
        <5>1. i - 1 \in 1 .. n - 1
          BY <2>2, <4>2
        <5> QED BY <2>2, <5>1
      <4>3. ASSUME i # n - 1 PROVE script'[t][i + 1] = s[i + 1]
        <5>1. i + 1 \in 1 .. n - 1
          BY <2>2, <4>3
        <5> QED BY <2>2, <5>1
      <4> QED BY <2>1, <2>3, <3>1, <4>1, <4>2, <4>3
    <3> QED BY <1>1, <2>2, <3>2 DEF InOrder
  <2>6. RunsLast(t)'
    <3> SUFFICES ASSUME NEW x \in Live(t)
                 PROVE  script'[t] # <<>> /\ Last(script'[t]) = Says("user", x)
      BY <1>0, <1>1 DEF RunsLast
    <3>1. s[n] = Says("assistant", x)
      BY <1>0, <1>4, RewriteEndsLive
    <3>2. x = m
      BY <2>2, <3>1, SaysApart
    <3> QED BY <2>2, <3>2
  <2>7. RewritesLive(t)'
    BY <1>0 DEF RewritesLive
  <2>8. \A i \in DOMAIN s : s[i].who = "user" =>
           i \in DOMAIN script'[t] /\ script'[t][i] = s[i]
    BY <2>2, <2>3
  <2> QED BY <2>4, <2>5, <2>6, <2>7, <2>8 DEF Orderly
<1>5. ASSUME NEW u \in Threads \ crossed' PROVE Orderly(u)'
  <2>1. Orderly(u)
    BY <1>0 DEF PlaceInv
  <2>2. CASE u # t
    <3>1. Types /\ UNCHANGED run
      BY <1>0 DEF IInv
    <3> QED BY <1>0, <1>1, <2>1, <2>2, <3>1, SpeechStays
  <2> QED BY <1>4, <2>1, <2>2
<1>6. OnlyTaken'
  <2>1. ASSUME NEW x \in Msgs, NEW u \in Threads, Touches(x, u)'
        PROVE  Touches(x, u)
    BY <1>0, <2>1 DEF Touches, Running
  <2> QED BY <1>0, <2>1 DEF PlaceInv, OnlyTaken
<1>7. ASSUME crossed' = {}, NEW x \in taken' PROVE InHand(x)'
  <2>1. InHand(x) /\ Orderly(t)
    BY <1>0, <1>7 DEF PlaceInv
  <2>2. \A i \in DOMAIN s : s[i] = Says("user", x) =>
           i \in DOMAIN script'[t] /\ script'[t][i] = s[i]
    BY <1>4, <2>1 DEF Says
  <2>3. PICK u \in Threads : \/ \E i \in DOMAIN queued[u] : queued[u][i] = x
                             \/ \E i \in DOMAIN script[u] : script[u][i] = Says("user", x)
    BY <2>1 DEF InHand
  <2>4. CASE u # t
    BY <1>0, <2>3, <2>4 DEF InHand
  <2>5. CASE u = t
    BY <1>0, <2>2, <2>3, <2>5 DEF InHand
  <2> QED BY <2>4, <2>5
<1> QED BY <1>2, <1>3, <1>5, <1>6, <1>7 DEF PlaceInv

LEMMA RemoveQueuedPlaces ==
    ASSUME IInv, PlaceInv, RemoveQueued
    PROVE  PlaceInv'
<1> DEFINE v == visible
           q == queued[v]
<1>0. PICK k \in DOMAIN q :
         /\ queued' = [queued EXCEPT ![v] = RemoveAt(q, k)]
         /\ taken' = taken \ {q[k]}
         /\ UNCHANGED <<script, rewrite, run, crossed>>
  BY DEF RemoveQueued
<1> DEFINE r == q[k]
<1>1. v \in Threads /\ q \in Seq(Msgs) /\ r \in Msgs
  BY <1>0 DEF IInv, Types
<1>2. /\ Len(q) \in Nat /\ DOMAIN q = 1 .. Len(q) /\ k \in 1 .. Len(q)
      /\ DOMAIN RemoveAt(q, k) = 1 .. Len(q) - 1
      /\ \A i \in 1 .. Len(q) - 1 :
            RemoveAt(q, k)[i] = IF i < k THEN q[i] ELSE q[i + 1]
  <2> HIDE DEF q
  <2> QED BY <1>0, <1>1, RemovePlaces
<1>3. queued'[v] = RemoveAt(q, k) /\ \A u \in Threads \ {v} : queued'[u] = queued[u]
  BY <1>0, <1>1 DEF IInv, Types
<1>4. /\ \A i, j \in 1 .. Len(q) : q[i] = q[j] => i = j
      /\ \A i \in 1 .. Len(q) : run[q[i]].at = "none"
  BY <1>1, <1>2 DEF PlaceInv, ParkedWaits
<1>5. /\ \A i, j \in 1 .. Len(q) - 1 : RemoveAt(q, k)[i] = RemoveAt(q, k)[j] => i = j
      /\ \A i \in 1 .. Len(q) - 1 : /\ run[RemoveAt(q, k)[i]].at = "none"
                                    /\ RemoveAt(q, k)[i] # r
                                    /\ \E j \in DOMAIN q : q[j] = RemoveAt(q, k)[i]
      /\ \A i \in 1 .. Len(q) :
            i # k => \E j \in 1 .. Len(q) - 1 : RemoveAt(q, k)[j] = q[i]
  <2> DEFINE from(i) == IF i < k THEN i ELSE i + 1
  <2>1. ASSUME NEW i \in 1 .. Len(q) - 1
        PROVE  RemoveAt(q, k)[i] = q[from(i)] /\ from(i) \in 1 .. Len(q) /\ from(i) # k
    <3>1. from(i) \in 1 .. Len(q) /\ from(i) # k
      <4> HIDE DEF q
      <4> QED BY <1>2
    <3>2. RemoveAt(q, k)[i] = q[from(i)]
      BY <1>2
    <3> QED BY <3>1, <3>2
  <2>2. ASSUME NEW i \in 1 .. Len(q) - 1, NEW j \in 1 .. Len(q) - 1, from(i) = from(j)
        PROVE  i = j
    <3> HIDE DEF q
    <3> QED BY <1>2, <2>2
  <2>3. ASSUME NEW i \in 1 .. Len(q), i # k
        PROVE  \E j \in 1 .. Len(q) - 1 : from(j) = i
    <3> HIDE DEF q
    <3>1. CASE i < k
      BY <1>2, <3>1
    <3>2. CASE ~(i < k)
      <4>1. i - 1 \in 1 .. Len(q) - 1 /\ from(i - 1) = i
        BY <1>2, <2>3, <3>2
      <4> QED BY <4>1
    <3> QED BY <3>1, <3>2
  <2> HIDE DEF from
  <2>4. ASSUME NEW i \in 1 .. Len(q) - 1, NEW j \in 1 .. Len(q) - 1,
               RemoveAt(q, k)[i] = RemoveAt(q, k)[j]
        PROVE  i = j
    <3>1. from(i) = from(j)
      BY <1>4, <2>1, <2>4
    <3> QED BY <2>2, <3>1
  <2>5. ASSUME NEW i \in 1 .. Len(q) - 1
        PROVE  /\ run[RemoveAt(q, k)[i]].at = "none"
               /\ RemoveAt(q, k)[i] # r
               /\ \E j \in DOMAIN q : q[j] = RemoveAt(q, k)[i]
    BY SMTT(20), <1>2, <1>4, <2>1
  <2>6. ASSUME NEW i \in 1 .. Len(q), i # k
        PROVE  \E j \in 1 .. Len(q) - 1 : RemoveAt(q, k)[j] = q[i]
    <3>1. PICK j \in 1 .. Len(q) - 1 : from(j) = i
      BY <2>3, <2>6
    <3> QED BY <2>1, <3>1
  <2> QED BY <2>4, <2>5, <2>6
<1>6. DOMAIN RemoveAt(q, k) = 1 .. Len(q) - 1 /\ DOMAIN q = 1 .. Len(q) /\ k \in 1 .. Len(q)
  BY <1>2
<1>7. ASSUME NEW u \in Threads PROVE ParkedWaits(u)'
  <2>1. CASE u # v
    BY <1>0, <1>3, <2>1 DEF PlaceInv, ParkedWaits
  <2>2. CASE u = v
    <3>1. queued'[u] = RemoveAt(q, k)
      BY <1>3, <2>2
    <3> HIDE DEF q
    <3>2. \A i, j \in DOMAIN queued'[u] : queued'[u][i] = queued'[u][j] => i = j
      BY <1>5, <1>6, <3>1
    <3>3. \A i \in DOMAIN queued'[u] : run[queued'[u][i]].at = "none"
      BY <1>5, <1>6, <3>1
    <3> QED BY <1>0, <3>2, <3>3 DEF ParkedWaits
  <2> QED BY <2>1, <2>2
<1>8. \A u \in Threads : Live(u)' = Live(u)
  BY <1>0 DEF Live, Running
<1>9. ASSUME NEW u \in Threads
      PROVE  SpokenRan(u)' /\ (u \notin crossed' => Orderly(u)')
  BY <1>0, <1>8, SpeechStays DEF PlaceInv, IInv
<1>10. ASSUME NEW x \in Msgs, NEW u \in Threads, Touches(x, u)'
       PROVE  Touches(x, u) /\ x # r
  <2>1. run[r].at = "none" /\ Touches(r, v)
    BY <1>1, <1>4, <1>6 DEF Touches
  <2>2. ASSUME NEW i \in DOMAIN queued'[u], queued'[u][i] = x
        PROVE  Touches(x, u) /\ x # r
    <3>1. CASE u # v
      <4>1. queued[u][i] = x /\ i \in DOMAIN queued[u]
        BY <1>3, <2>2, <3>1
      <4>2. Touches(x, u)
        BY <4>1 DEF Touches
      <4>3. x # r
        BY <1>1, <2>1, <3>1, <4>2 DEF IInv, OneHome
      <4> QED BY <4>2, <4>3
    <3>2. CASE u = v
      <4>1. i \in 1 .. Len(q) - 1 /\ RemoveAt(q, k)[i] = x
        BY <1>3, <1>6, <2>2, <3>2
      <4>2. x # r /\ \E j \in DOMAIN q : q[j] = x
        BY <1>5, <4>1
      <4> QED BY <3>2, <4>2 DEF Touches
    <3> QED BY <3>1, <3>2
  <2>3. ASSUME NEW i \in DOMAIN script[u], script[u][i].msg = x
        PROVE  Touches(x, u) /\ x # r
    BY <2>1, <2>3 DEF Touches, PlaceInv, SpokenRan
  <2>4. ASSUME rewrite[u] # None, NEW i \in DOMAIN rewrite[u], rewrite[u][i].msg = x
        PROVE  Touches(x, u) /\ x # r
    BY <2>1, <2>4 DEF Touches, PlaceInv, SpokenRan
  <2>5. ASSUME Running(x), run[x].thread = u
        PROVE  Touches(x, u) /\ x # r
    BY <2>1, <2>5 DEF Touches, Running
  <2> QED BY <1>0, <1>10, <2>2, <2>3, <2>4, <2>5 DEF Touches, Running
<1>11. OnlyTaken'
  <2>1. run[r].at = "none"
    BY <1>4, <1>6
  <2> QED BY <1>0, <1>10, <2>1 DEF PlaceInv, OnlyTaken
<1>12. ASSUME crossed' = {}, NEW x \in taken' PROVE InHand(x)'
  <2>1. InHand(x) /\ x # r
    BY <1>0, <1>12 DEF PlaceInv
  <2>2. PICK u \in Threads : \/ \E i \in DOMAIN queued[u] : queued[u][i] = x
                             \/ \E i \in DOMAIN script[u] : script[u][i] = Says("user", x)
    BY <2>1 DEF InHand
  <2>3. ASSUME NEW i \in DOMAIN queued[u], queued[u][i] = x PROVE InHand(x)'
    <3>1. CASE u # v
      BY <1>3, <2>3, <3>1 DEF InHand
    <3>2. CASE u = v
      <4>1. i \in 1 .. Len(q) /\ q[i] = x /\ i # k
        BY <1>6, <2>1, <2>3, <3>2
      <4>2. PICK j \in 1 .. Len(q) - 1 : RemoveAt(q, k)[j] = x
        BY <1>5, <4>1
      <4>3. j \in DOMAIN queued'[u] /\ queued'[u][j] = x
        BY <1>3, <1>6, <3>2, <4>2
      <4> QED BY <4>3 DEF InHand
    <3> QED BY <3>1, <3>2
  <2>4. ASSUME NEW i \in DOMAIN script[u], script[u][i] = Says("user", x) PROVE InHand(x)'
    BY <1>0, <2>4 DEF InHand
  <2> QED BY <2>2, <2>3, <2>4
<1> QED BY <1>7, <1>9, <1>11, <1>12 DEF PlaceInv

LEMMA CommitPlaces ==
    ASSUME IInv, PlaceInv, NEW m \in Msgs, Running(m), Commit(m)
    PROVE  PlaceInv'
<1>0. PICK t \in Threads : t = run[m].thread
  BY DEF IInv, Types
<1> DEFINE s == script[t]
           n == Len(s)
           e == Says("assistant", m)
<1>1. /\ rewrite[t] # None => Last(rewrite[t]) # Says("user", m)
      /\ script' = [script EXCEPT ![t] = Append(s, e)]
      /\ run' = [run EXCEPT ![m] = Over(run[m])]
      /\ UNCHANGED <<queued, rewrite, taken, crossed>>
      /\ s \in Seq(Turn) /\ e \in Turn /\ e.who = "assistant" /\ e.msg = m
  BY <1>0 DEF Commit, histVars, IInv, Types, Says, Turn
<1>2. /\ script'[t] = Append(s, e)
      /\ \A u \in Threads \ {t} : script'[u] = script[u]
  BY <1>1 DEF IInv, Types
<1>3. /\ n \in Nat /\ DOMAIN s = 1 .. n /\ DOMAIN script'[t] = 1 .. n + 1
      /\ Len(script'[t]) = n + 1
      /\ \A i \in 1 .. n : script'[t][i] = s[i]
      /\ script'[t][n + 1] = e
  <2> HIDE DEF s, e
  <2> QED BY <1>1, <1>2, AppendPlaces
<1>4. /\ \A x \in Msgs \ {m} : run'[x] = run[x]
      /\ run'[m].at = "over" /\ run[m].at # "none" /\ ~Running(m)'
  <2>1. run[m] \in RunRec
    BY DEF IInv, Types
  <2> QED BY <1>1, <2>1, OverIsRecord DEF IInv, Types, Running
<1>5. \A u \in Threads : Live(u)' = Live(u) \ {m}
  BY <1>4 DEF Live, Running
<1>6. \A u \in Threads \ {t} : Live(u)' = Live(u)
  BY <1>0, <1>5 DEF Live
<1>7. \A x \in Msgs : run[x].at # "none" <=> run'[x].at # "none"
  BY <1>4
<1>8. ASSUME NEW u \in Threads PROVE ParkedWaits(u)'
  <2>1. \A i \in DOMAIN queued[u] : queued[u][i] \in Msgs
    BY DEF IInv, Types
  <2> QED BY <1>1, <1>7, <2>1 DEF PlaceInv, ParkedWaits
<1>9. \A i \in DOMAIN script'[t] : \/ i \in DOMAIN s /\ script'[t][i] = s[i]
                                   \/ script'[t][i] = e
  BY <1>3
<1>10. ASSUME NEW u \in Threads PROVE SpokenRan(u)'
  <2>1. CASE u # t
    <3>1. script'[u] = script[u] /\ rewrite'[u] = rewrite[u] /\ Types /\ SpokenRan(u)
      BY <1>1, <1>2, <2>1 DEF PlaceInv, IInv
    <3> QED BY <1>7, <3>1, SpeechStays
  <2>2. CASE u = t
    <3>1. \A i \in DOMAIN s : run'[s[i].msg].at # "none"
      BY <1>1, <1>7, TurnsAreOfMsgs DEF PlaceInv, SpokenRan
    <3>2. \A i \in DOMAIN script'[t] : run'[script'[t][i].msg].at # "none"
      BY <1>1, <1>4, <1>9, <3>1
    <3>3. rewrite[t] # None => \A i \in DOMAIN rewrite[t] : run'[rewrite[t][i].msg].at # "none"
      <4>1. rewrite[t] # None => rewrite[t] \in Seq(Turn)
        BY DEF IInv, Types
      <4>2. rewrite[t] # None => \A i \in DOMAIN rewrite[t] : rewrite[t][i].msg \in Msgs
        BY <4>1, TurnsAreOfMsgs
      <4> QED BY <1>7, <4>2 DEF PlaceInv, SpokenRan
    <3> QED BY <1>1, <2>2, <3>2, <3>3 DEF SpokenRan
  <2> QED BY <2>1, <2>2
<1>11. ASSUME NEW u \in Threads \ crossed' PROVE Orderly(u)'
  <2>0. Orderly(u) /\ u \notin crossed
    BY <1>1 DEF PlaceInv
  <2>1. CASE u # t
    <3>1. /\ script'[u] = script[u] /\ rewrite'[u] = rewrite[u] /\ Types
          /\ Live(u)' = Live(u)
      BY <1>1, <1>2, <1>6, <2>1 DEF IInv
    <3> QED BY <1>7, <2>0, <3>1, SpeechStays
  <2>2. CASE u = t
    <3>1. m \in Live(t) /\ Live(t) = {m}
      BY <1>0, <2>0, <2>2 DEF Live, IInv, OneStream
    <3>2. rewrite[t] = None /\ rewrite'[t] = None
      <4>1. rewrite[t] # None => Last(rewrite[t]) = Says("user", m)
        BY <2>0, <2>2, <3>1, RewriteEndsLive
      <4> QED BY <1>1, <4>1
    <3>3. n > 0 /\ s[n] = Says("user", m) /\ s[n].who # "assistant" /\ s[n].msg = m
      <4>1. s # <<>> /\ Last(s) = Says("user", m)
        BY <2>0, <2>2, <3>1, <3>2 DEF Orderly, RunsLast
      <4>2. n > 0 /\ Last(s) = s[n]
        BY <1>1, <1>3, <4>1 DEF Last
      <4> QED BY <4>1, <4>2 DEF Says
    <3>4. Live(t)' = {}
      BY <1>5, <3>1
    <3>5. SpokenOnce(t)'
      <4>1. \A i, j \in 1 .. n : s[i] = s[j] /\ s[i].who = "user" => i = j
        BY <1>3, <2>0, <2>2 DEF Orderly, SpokenOnce
      <4>2. e.who # "user"
        BY <1>1
      <4>3. \A i, j \in 1 .. n + 1 :
               script'[t][i] = script'[t][j] /\ script'[t][i].who = "user" => i = j
        <5> HIDE DEF s, n, e
        <5> QED BY <1>3, <4>1, <4>2
      <4> QED BY <1>3, <4>3 DEF SpokenOnce
    <3>6. InOrder(t)'
      <4>1. \A i \in 1 .. n :
               IF s[i].who = "assistant"
               THEN i > 1 /\ s[i - 1] = Says("user", s[i].msg)
               ELSE i = n \/ s[i + 1] = Says("assistant", s[i].msg)
        BY <1>3, <2>0, <2>2 DEF Orderly, InOrder
      <4>2. e.who = "assistant" /\ e.msg = m /\ e = Says("assistant", m)
        BY <1>1
      <4> HIDE DEF s, n, e
      <4>3. ASSUME NEW i \in 1 .. n
            PROVE  IF script'[t][i].who = "assistant"
                   THEN i > 1 /\ script'[t][i - 1] = Says("user", script'[t][i].msg)
                   ELSE script'[t][i + 1] = Says("assistant", script'[t][i].msg)
        <5>1. script'[t][i] = s[i]
          BY <1>3
        <5>2. CASE i = n
          BY <1>3, <3>3, <4>2, <5>1, <5>2
        <5>3. CASE i # n
          <6>1. i + 1 \in 1 .. n /\ (i > 1 => i - 1 \in 1 .. n)
            BY <1>3, <5>3
          <6> QED BY <1>3, <4>1, <5>1, <5>3, <6>1
        <5> QED BY <5>2, <5>3
      <4>4. n + 1 > 1 /\ script'[t][n + 1 - 1] = Says("user", script'[t][n + 1].msg)
        <5>1. n + 1 - 1 = n /\ n \in 1 .. n
          BY <1>3, <3>3
        <5> QED BY <1>3, <3>3, <4>2, <5>1
      <4>5. ASSUME NEW i \in 1 .. n + 1
            PROVE  IF script'[t][i].who = "assistant"
                   THEN i > 1 /\ script'[t][i - 1] = Says("user", script'[t][i].msg)
                   ELSE IF i = n + 1 THEN script'[t][i].msg \in Live(t)'
                        ELSE script'[t][i + 1] = Says("assistant", script'[t][i].msg)
        <5>1. CASE i = n + 1
          BY <1>3, <4>2, <4>4, <5>1
        <5>2. CASE i # n + 1
          BY <1>3, <4>3, <5>2
        <5> QED BY <5>1, <5>2
      <4> QED BY <1>3, <4>5 DEF InOrder
    <3>7. RunsLast(t)'
      BY <3>4 DEF RunsLast
    <3>8. RewritesLive(t)'
      BY <3>2 DEF RewritesLive
    <3> QED BY <2>2, <3>5, <3>6, <3>7, <3>8 DEF Orderly
  <2> QED BY <2>1, <2>2
<1>12. OnlyTaken'
  <2>1. Touches(m, t)
    BY <1>0 DEF Touches
  <2>2. ASSUME NEW x \in Msgs, NEW u \in Threads, Touches(x, u)' PROVE Touches(x, u)
    <3>1. ASSUME NEW i \in DOMAIN script'[u], script'[u][i].msg = x PROVE Touches(x, u)
      <4>1. CASE u # t
        BY <1>2, <3>1, <4>1 DEF Touches
      <4>2. CASE u = t
        BY <1>1, <1>9, <2>1, <3>1, <4>2 DEF Touches
      <4> QED BY <4>1, <4>2
    <3>2. Running(x)' /\ run'[x].thread = u => Touches(x, u)
      BY <1>4 DEF Touches, Running
    <3> QED BY <1>1, <2>2, <3>1, <3>2 DEF Touches
  <2> QED BY <1>1, <1>7, <2>2 DEF PlaceInv, OnlyTaken
<1>13. ASSUME crossed' = {}, NEW x \in taken' PROVE InHand(x)'
  <2>1. InHand(x)
    BY <1>1, <1>13 DEF PlaceInv
  <2>2. \A i \in DOMAIN s : i \in DOMAIN script'[t] /\ script'[t][i] = s[i]
    BY <1>3
  <2> QED BY <1>1, <1>2, <2>1, <2>2 DEF InHand
<1> QED BY <1>8, <1>10, <1>11, <1>12, <1>13 DEF PlaceInv

-----------------------------------------------------------------------------
(* Every step *)

LEMMA PlaceInit == Init => PlaceInv
<1> SUFFICES ASSUME Init PROVE PlaceInv
  OBVIOUS
<1>1. /\ \A t \in Threads : queued[t] = <<>> /\ script[t] = <<>> /\ rewrite[t] = None
      /\ \A m \in Msgs : run[m].at = "none" /\ ~Running(m)
      /\ taken = {}
  BY DEF Init, NoRun, Running
<1>2. \A t \in Threads : Live(t) = {}
  BY <1>1 DEF Live
<1>3. \A t \in Threads : ParkedWaits(t) /\ SpokenRan(t)
  BY <1>1 DEF ParkedWaits, SpokenRan
<1>4. OnlyTaken
  BY <1>1 DEF OnlyTaken, Touches
<1>5. ASSUME NEW t \in Threads PROVE Orderly(t)
  BY <1>1, <1>2 DEF Orderly, SpokenOnce, InOrder, RunsLast, RewritesLive
<1> QED BY <1>1, <1>3, <1>4, <1>5 DEF PlaceInv

LEMMA PlaceNext ==
    ASSUME IInv, PlaceInv, [Next]_vars
    PROVE  PlaceInv'
<1>0. Types /\ OneStream /\ visible \in Threads /\ run \in [Msgs -> RunRec]
  BY DEF IInv, Types
<1>1. ASSUME UNCHANGED <<queued, script, rewrite, taken, crossed>>,
             \A m \in Msgs : run'[m].at = run[m].at /\ run'[m].thread = run[m].thread
      PROVE  PlaceInv'
  BY <1>1, NothingMoves DEF Running
<1>2. CASE Send
  <2>1. /\ Unsent # {} /\ taken' = taken \cup {Fresh} /\ UNCHANGED <<rewrite, crossed>>
        /\ Park(visible, Fresh) \/ SendNow(visible, Fresh)
    BY <1>2 DEF Send
  <2>2. CASE Park(visible, Fresh)
    BY <2>1, <2>2, ParkPlaces
  <2>3. CASE SendNow(visible, Fresh)
    <3>1. /\ Write(visible, Fresh) /\ Begin(visible, Fresh) /\ UNCHANGED queued
          /\ status[visible] # "streaming"
      BY <2>3 DEF SendNow
    <3>2. crossed \subseteq crossed' /\ (visible \notin crossed' => Live(visible) = {})
      BY <1>0, <2>1, <3>1 DEF OneStream
    <3> QED BY <2>1, <3>1, <3>2, FreshSpeaks
  <2> QED BY <2>1, <2>2, <2>3
<1>3. CASE SlashCommand
  <2>1. /\ Unsent # {} /\ Write(visible, Fresh) /\ Begin(visible, Fresh)
        /\ UNCHANGED <<queued, rewrite>> /\ taken' = taken \cup {Fresh}
    BY <1>3 DEF SlashCommand
  <2>2. crossed \subseteq crossed' /\ (visible \notin crossed' => Live(visible) = {})
    BY <1>3 DEF SlashCommand
  <2> QED BY <2>1, <2>2, FreshSpeaks
<1>4. CASE Regenerate
  BY <1>4, RegeneratePlaces
<1>5. CASE Drain
  BY <1>5, DrainPlaces
<1>6. CASE RemoveQueued
  BY <1>6, RemoveQueuedPlaces
<1>7. CASE \E t \in Threads : Rewritten(t)
  BY <1>7, RewrittenPlaces
<1>8. CASE SendDropped \/ UNCHANGED vars \/ \E t \in Threads : Show(t)
  <2>1. UNCHANGED <<queued, script, rewrite, taken, crossed, run>>
    BY <1>8 DEF SendDropped, Show, vars, storeVars, histVars
  <2> QED BY <1>1, <2>1
<1>9. CASE Stop \/ \E t \in Threads : Offline(t)
  <2>1. UNCHANGED <<queued, script, rewrite, taken, crossed>> /\ \E R \in SUBSET Msgs : Abort(R)
    BY <1>9 DEF Stop, Offline, Live, storeVars, histVars
  <2>2. \A m \in Msgs : run'[m].at = run[m].at /\ run'[m].thread = run[m].thread
    BY <1>0, <2>1 DEF Abort, RunRec
  <2> QED BY <1>1, <2>1, <2>2
<1>10. CASE HearDeath
  <2>1. UNCHANGED <<queued, script, rewrite, taken, crossed>>
    BY <1>10 DEF HearDeath, storeVars, histVars
  <2>2. \A m \in Msgs : run'[m].at = run[m].at /\ run'[m].thread = run[m].thread
    BY <1>0, <1>10 DEF HearDeath, RunRec
  <2> QED BY <1>1, <2>1, <2>2
<1>11. CASE Die
  <2>1. UNCHANGED <<queued, script, rewrite, taken, crossed>>
    BY <1>11 DEF Die, storeVars, histVars
  <2>2. ASSUME NEW m \in Msgs
        PROVE  run'[m].at = run[m].at /\ run'[m].thread = run[m].thread
    <3> DEFINE r == [run[m] EXCEPT !.side = "lost"]
    <3>1. r \in RunRec /\ r.at = run[m].at /\ r.thread = run[m].thread
      BY <1>0 DEF RunRec
    <3>2. run'[m] = IF run[m].side \in AtWork
                    THEN IF r.at = "over" THEN Over(r) ELSE r
                    ELSE run[m]
      BY <1>11 DEF Die
    <3> HIDE DEF r
    <3> QED BY <3>1, <3>2, OverIsRecord
  <2> QED BY <1>1, <2>1, <2>2
<1>12. ASSUME NEW m \in Msgs, Advance(m) PROVE PlaceInv'
  <2>1. CASE Finish(m)
    BY <2>1, CommitPlaces DEF Finish, Running
  <2>2. CASE ~Finish(m)
    <3>1. UNCHANGED <<queued, script, rewrite, taken, crossed>>
      BY <1>12, <2>2 DEF Advance, Register, Started, Accept, CancelArrives, End, Hear, StepOf,
         storeVars, histVars
    <3>2. \A x \in Msgs : /\ Running(x) <=> Running(x)'
                          /\ run'[x].thread = run[x].thread
                          /\ run[x].at = "none" <=> run'[x].at = "none"
      BY <1>0, <1>12, <2>2, AdvanceGoesOn
    <3> QED BY <3>1, <3>2, NothingMoves
  <2> QED BY <2>1, <2>2
<1>13. ASSUME NEW m \in Msgs, StartFails(m) PROVE PlaceInv'
  BY <1>13, CommitPlaces DEF StartFails, Running
<1>14. ASSUME NEW m \in Msgs, AcceptAdrift(m) \/ Unheard(m) PROVE PlaceInv'
  <2>1. PICK r \in RunRec :
          StepOf(m, r) /\ r.thread = run[m].thread /\ r.at = "start" /\ run[m].at = "start"
    BY <1>0, <1>14, LeftThere
  <2>2. UNCHANGED <<queued, script, rewrite, taken, crossed>>
    BY <2>1 DEF StepOf, storeVars, histVars
  <2>3. \A x \in Msgs : run'[x].at = run[x].at /\ run'[x].thread = run[x].thread
    BY <1>0, <2>1 DEF StepOf
  <2> QED BY <1>1, <2>2, <2>3
<1> QED
  BY <1>2, <1>3, <1>4, <1>5, <1>6, <1>7, <1>8, <1>9, <1>10, <1>11, <1>12, <1>13, <1>14
  DEF Next, User

-----------------------------------------------------------------------------
(* What the two invariants say of the message and its places *)

\* A set that has an element, and no two, has one.
LEMMA OneOf ==
    ASSUME NEW S, S # {}, \A x, y \in S : x = y
    PROVE  Cardinality(S) = 1
<1>1. PICK x : S = {x}
  OBVIOUS
<1> QED BY <1>1, FS_Singleton

LEMMA HomeIsTouched ==
    ASSUME NEW m \in Msgs, NEW t \in Home(m)
    PROVE  t \in Threads /\ Touches(m, t)
BY DEF Home, Places, Turns, Touches, Says

\* In a thread that no command crossed, a message is parked once and not said, or
\* said once and not parked.
LEMMA OnePlace ==
    ASSUME IInv, PlaceInv, NEW m \in Msgs, NEW t \in Home(m), t \notin crossed
    PROVE  /\ Cardinality(Places(m, t)) + Cardinality(Turns(m, t)) = 1
           /\ run[m].at = "none" <=> Turns(m, t) = {}
<1>0. t \in Threads /\ (Places(m, t) # {} \/ Turns(m, t) # {})
  BY DEF Home
<1>1. Places(m, t) # {} => run[m].at = "none"
  BY <1>0 DEF Places, PlaceInv, ParkedWaits
<1>2. Turns(m, t) # {} => run[m].at # "none"
  BY <1>0 DEF Turns, PlaceInv, SpokenRan, Says
<1>3. \A i, j \in Places(m, t) : i = j
  BY <1>0 DEF Places, PlaceInv, ParkedWaits
<1>4. \A i, j \in Turns(m, t) : i = j
  <2>1. SpokenOnce(t)
    BY <1>0 DEF PlaceInv, Orderly
  <2> QED BY <2>1 DEF Turns, SpokenOnce, Says
<1>5. CASE Turns(m, t) = {}
  <2>1. Cardinality(Places(m, t)) = 1
    BY <1>0, <1>3, <1>5, OneOf
  <2>2. Cardinality(Turns(m, t)) = 0
    BY <1>5, FS_EmptySet
  <2> QED BY <1>0, <1>1, <1>5, <2>1, <2>2
<1>6. CASE Turns(m, t) # {}
  <2>1. Cardinality(Turns(m, t)) = 1
    BY <1>4, <1>6, OneOf
  <2>2. Places(m, t) = {}
    BY <1>1, <1>2, <1>6
  <2>3. Cardinality(Places(m, t)) = 0
    BY <2>2, FS_EmptySet
  <2> QED BY <1>2, <1>6, <2>1, <2>3
<1> QED BY <1>5, <1>6

LEMMA PlacesTell == IInv /\ PlaceInv => MessagesInPlace
<1> SUFFICES ASSUME IInv, PlaceInv PROVE MessagesInPlace
  OBVIOUS
<1>1. ASSUME NEW m \in Msgs, m \notin taken
      PROVE  Home(m) = {} /\ run[m].at = "none"
  <2>1. run[m].at = "none" /\ \A t \in Threads : ~Touches(m, t)
    BY <1>1 DEF PlaceInv, OnlyTaken
  <2> QED BY <2>1, HomeIsTouched
<1>2. ASSUME NEW m \in Msgs, m \in taken, crossed = {}
      PROVE  Cardinality(Home(m)) = 1
  <2>1. InHand(m)
    BY <1>2 DEF PlaceInv
  <2>2. Home(m) # {}
    BY <2>1 DEF InHand, Home, Places, Turns
  <2>3. \A t, u \in Home(m) : t = u
    BY HomeIsTouched DEF IInv, OneHome
  <2> QED BY <2>2, <2>3, OneOf
<1>3. NothingLost
  BY <1>1, <1>2, OnePlace DEF NothingLost
<1>4. TranscriptInOrder
  BY DEF PlaceInv, Orderly, InOrder, TranscriptInOrder
<1> QED BY <1>3, <1>4 DEF MessagesInPlace

\* A message the panel took is nowhere lost and nowhere twice, and every transcript
\* is questions with their own answers, whichever way sending, parking, draining,
\* regenerating, removing, stopping and the deaths of the sidecar interleave, for any
\* number of threads and messages.
THEOREM MessagesStayInPlace == Spec => []MessagesInPlace
<1>1. Init => IInv /\ PlaceInv
  BY InitIInv, PlaceInit
<1>2. IInv /\ PlaceInv /\ [Next]_vars => IInv' /\ PlaceInv'
  BY NextIInv, PlaceNext
<1>3. IInv /\ PlaceInv => MessagesInPlace
  BY PlacesTell
<1> QED
  BY <1>1, <1>2, <1>3, PTL DEF Spec

-----------------------------------------------------------------------------
(* Stop.  Where the user stopped and has sent nothing since, the queue is   *)
(* held: so what leaves it is what the user takes out.                      *)

HeldInv ==
    /\ paused \in [Threads -> BOOLEAN]
    /\ \A t \in stopped : t \in Threads /\ paused[t]

Kept(t) == \A m \in Msgs : Contains(queued[t], m) => Contains(queued'[t], m) \/ m \in gone'

LEMMA HeldNext ==
    ASSUME IInv, HeldInv, [Next]_vars
    PROVE  HeldInv'
<1>0. visible \in Threads
  BY DEF IInv, Types
<1>1. CASE Send
  BY <1>0, <1>1 DEF Send, Park, SendNow, HeldInv
<1>2. CASE Stop
  BY <1>0, <1>2 DEF Stop, HeldInv
<1>3. CASE UNCHANGED <<paused, stopped>>
  BY <1>3 DEF HeldInv
<1>4. ASSUME NEW m \in Msgs, Advance(m) \/ StartFails(m) \/ AcceptAdrift(m) \/ Unheard(m)
      PROVE  UNCHANGED <<paused, stopped>>
  BY <1>4 DEF Advance, Register, Started, Finish, Accept, CancelArrives, End, Hear,
     StartFails, AcceptAdrift, Unheard, StepOf, Commit, storeVars, histVars
<1>5. CASE \/ SendDropped \/ SlashCommand \/ Regenerate \/ Drain \/ RemoveQueued \/ Die
           \/ HearDeath \/ UNCHANGED vars
           \/ \E t \in Threads : Show(t) \/ Offline(t) \/ Rewritten(t)
  BY <1>3, <1>5 DEF SendDropped, SlashCommand, Regenerate, Drain, RemoveQueued, Die, HearDeath,
     Show, Offline, Rewritten, vars, storeVars, histVars
<1> QED BY <1>1, <1>2, <1>3, <1>4, <1>5 DEF Next, User

LEMMA HeldKeepsParked ==
    ASSUME IInv, HeldInv, [Next]_vars, NEW t \in stopped \cap stopped'
    PROVE  Kept(t)
<1>0. /\ visible \in Threads /\ t \in Threads /\ queued \in [Threads -> Seq(Msgs)]
      /\ queued[visible] \in Seq(Msgs) /\ paused[t]
  BY DEF IInv, Types, HeldInv
<1>1. CASE UNCHANGED queued
  BY <1>1 DEF Kept
<1>2. CASE Send
  <2>1. t # visible
    BY <1>2 DEF Send
  <2>2. queued'[t] = queued[t]
    BY <1>0, <1>2, <2>1 DEF Send, Park, SendNow
  <2> QED BY <2>2 DEF Kept
<1>3. CASE Drain
  <2>1. t # visible
    BY <1>0, <1>3 DEF Drain
  <2>2. queued'[t] = queued[t]
    BY <1>0, <1>3, <2>1 DEF Drain
  <2> QED BY <2>2 DEF Kept
<1>4. CASE RemoveQueued
  <2>1. PICK i \in DOMAIN queued[visible] :
           /\ queued' = [queued EXCEPT ![visible] = RemoveAt(queued[visible], i)]
           /\ gone' = gone \cup {queued[visible][i]}
    BY <1>4 DEF RemoveQueued
  <2>2. CASE t # visible
    <3>1. queued'[t] = queued[t]
      BY <1>0, <2>1, <2>2
    <3> QED BY <3>1 DEF Kept
  <2>3. CASE t = visible
    <3> SUFFICES ASSUME NEW m \in Msgs, Contains(queued[t], m), m \notin gone'
                 PROVE  Contains(queued'[t], m)
      BY DEF Kept
    <3>1. PICK k \in 1 .. Len(queued[t]) : queued[t][k] = m
      BY DEF Contains
    <3>2. k # i
      BY <2>1, <2>3, <3>1
    <3>3. queued'[t] = RemoveAt(queued[t], i) /\ queued[t] \in Seq(Msgs) /\ i \in DOMAIN queued[t]
      BY <1>0, <2>1, <2>3
    <3>4. /\ Len(queued[t]) \in Nat /\ DOMAIN queued[t] = 1 .. Len(queued[t])
          /\ DOMAIN queued'[t] = 1 .. Len(queued[t]) - 1
          /\ \A j \in 1 .. Len(queued[t]) - 1 :
                queued'[t][j] = IF j < i THEN queued[t][j] ELSE queued[t][j + 1]
          /\ queued'[t] \in Seq(Msgs)
      BY <3>3, RemovePlaces, RemoveAtElems
    <3>5. Len(queued'[t]) = Len(queued[t]) - 1
      <4>1. queued'[t] \in Seq(Msgs) /\ DOMAIN queued'[t] = 1 .. Len(queued'[t])
            /\ Len(queued'[t]) \in Nat
        BY <3>4
      <4>2. Len(queued[t]) - 1 \in Nat
        BY <3>3, <3>4
      <4> QED BY <3>4, <4>1, <4>2
    <3>6. CASE k < i
      <4>1. k \in 1 .. Len(queued'[t]) /\ queued'[t][k] = m
        BY <3>1, <3>3, <3>4, <3>5, <3>6
      <4> QED BY <4>1 DEF Contains
    <3>7. CASE k > i
      <4>1. k - 1 \in 1 .. Len(queued'[t]) /\ ~(k - 1 < i) /\ k - 1 + 1 = k
        BY <3>1, <3>3, <3>4, <3>5, <3>7
      <4>2. queued'[t][k - 1] = m
        BY <3>1, <3>4, <3>5, <4>1
      <4> QED BY <4>1, <4>2 DEF Contains
    <3> QED BY <3>1, <3>2, <3>3, <3>4, <3>6, <3>7
  <2> QED BY <2>2, <2>3
<1>5. ASSUME NEW m \in Msgs, Advance(m) \/ StartFails(m) \/ AcceptAdrift(m) \/ Unheard(m)
      PROVE  UNCHANGED queued
  BY <1>5 DEF Advance, Register, Started, Finish, Accept, CancelArrives, End, Hear,
     StartFails, AcceptAdrift, Unheard, StepOf, Commit, storeVars
<1>6. CASE \/ SendDropped \/ SlashCommand \/ Regenerate \/ Stop \/ Die
           \/ HearDeath \/ UNCHANGED vars
           \/ \E u \in Threads : Show(u) \/ Offline(u) \/ Rewritten(u)
  BY <1>1, <1>6 DEF SendDropped, SlashCommand, Regenerate, Stop, Die, HearDeath,
     Show, Offline, Rewritten, vars, storeVars
<1> QED BY <1>1, <1>2, <1>3, <1>4, <1>5, <1>6 DEF Next, User

\* After Stop no parked message starts by itself before the user sends something in
\* that thread, however the stopped answer ends, for any number of threads and messages.
THEOREM StopAlwaysHolds == Spec => StopHolds
<1>1. Init => IInv /\ HeldInv
  <2>1. Init => HeldInv
    BY DEF Init, HeldInv
  <2> QED BY <2>1, InitIInv
<1>2. IInv /\ HeldInv /\ [Next]_vars => IInv' /\ HeldInv'
  BY NextIInv, HeldNext
<1>3. IInv /\ HeldInv /\ [Next]_vars =>
        [\A t \in stopped \cap stopped' : \A m \in Msgs :
            Contains(queued[t], m) => Contains(queued'[t], m) \/ m \in gone']_vars
  BY HeldKeepsParked DEF Kept
<1> QED
  BY <1>1, <1>2, <1>3, PTL DEF Spec, StopHolds
=============================================================================
