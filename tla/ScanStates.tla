----------------------------- MODULE ScanStates -----------------------------
(***************************************************************************)
(* The lifecycle of one X-ray scan: the values of scans.state and the      *)
(* transition table of app/state/machine.py.  Every other module of the    *)
(* project that talks about a scan's state uses these definitions.         *)
(***************************************************************************)

\* ScanState, app/db/models.py.
States == {"pending", "analyzing", "analyzed", "verdicted", "reviewing",
           "decided", "error"}

\* No row in table scans.
Absent == "absent"

\* The events the table is keyed by.
Events == {"detect.received", "detect.completed", "detect.failed",
           "verdict.completed", "verdict.failed", "feedback.banked",
           "scan.opened"}

\* The answer for a pair the table lacks: InvalidTransitionError.
Invalid == "invalid"

\* The table _ALLOWED: from, event, to.
ALLOWED == {<<"pending",   "detect.received",   "analyzing">>,
            <<"analyzing", "detect.completed",  "analyzed">>,
            <<"analyzing", "detect.failed",     "error">>,
            <<"analyzed",  "verdict.completed", "verdicted">>,
            <<"analyzed",  "verdict.failed",    "error">>,
            <<"analyzed",  "feedback.banked",   "decided">>,
            <<"verdicted", "scan.opened",       "reviewing">>,
            <<"reviewing", "feedback.banked",   "decided">>}

allowed_transition(from, event) ==
  IF \E to \in States : <<from, event, to>> \in ALLOWED
  THEN CHOOSE to \in States : <<from, event, to>> \in ALLOWED
  ELSE Invalid

\* The edges of the table, whatever their events.
Edges == {st \in States \X States :
            \E e \in Events : <<st[1], e, st[2]>> \in ALLOWED}

\* What one database transaction may do to a scan: a single edge, or the two
\* edges that record_detection and decide_scan take before they commit.
Hops == Edges \cup {st \in States \X States :
                      \E u \in States : <<st[1], u>> \in Edges /\ <<u, st[2]>> \in Edges}

Hop(s, t) == <<s, t>> \in Hops
=============================================================================
