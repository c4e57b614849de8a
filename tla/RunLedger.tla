------------------------------ MODULE RunLedger ------------------------------
(***************************************************************************)
(* What the sidecar promises about runs, and nothing about how: a run that *)
(* has been accepted is reported as ended exactly once, unless the sidecar *)
(* is told to shut down first.  Some runs are accepted only to be handed   *)
(* to somebody who need not answer; of these the end is not promised.      *)
(***************************************************************************)
CONSTANT Runs

VARIABLES
    status,     \* of every run: "new", "open" or "ended"
    closing,    \* the sidecar has been told to shut down
    adrift      \* the runs in the hands of somebody who need not answer

ledgerVars == <<status, closing, adrift>>

Init == status = [x \in Runs |-> "new"] /\ closing = FALSE /\ adrift = {}

\* A run is handed on, if at all, when it is accepted.
Accept(x) ==
    /\ status[x] = "new" /\ ~closing
    /\ status' = [status EXCEPT ![x] = "open"]
    /\ adrift' \in SUBSET (adrift \cup {x})
    /\ UNCHANGED closing

End(x) ==
    /\ status[x] = "open"
    /\ status' = [status EXCEPT ![x] = "ended"]
    /\ adrift' \in SUBSET adrift
    /\ UNCHANGED closing

Return == adrift' \in SUBSET adrift /\ UNCHANGED <<status, closing>>

Close == closing' = TRUE /\ adrift' \in SUBSET adrift /\ UNCHANGED status

Next == Close \/ Return \/ \E x \in Runs : Accept(x) \/ End(x)

\* An open run that is not adrift is not left open, as long as the sidecar stays
\* up.
Spec ==
    /\ Init /\ [][Next]_ledgerVars
    /\ \A x \in Runs :
          WF_ledgerVars(~closing /\ x \notin adrift /\ End(x))
=============================================================================
