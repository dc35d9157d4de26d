---------------------------- MODULE ScanArchive -----------------------------
(***************************************************************************)
(* What the scan store promises about one scan, without transactions,      *)
(* requests in flight or locks: the scan appears once, moves along the     *)
(* transition table, is decided by one request, and never changes again.   *)
(* ScanLifecycle implements this specification.                            *)
(***************************************************************************)
EXTENDS ScanStates

CONSTANTS Requests,   \* the requests that may act on the scan
          None        \* no request

VARIABLES stage,      \* where the scan stands, Absent before it is stored
          decider     \* the request whose decision stands, or None

archive == <<stage, decider>>

ArchiveInit == stage = Absent /\ decider = None

\* The scan is stored.
Appear == /\ stage = Absent
          /\ stage' = "pending"
          /\ UNCHANGED decider

\* The scan advances, short of a decision.
Move == /\ stage' \in States \ {stage, "decided"}
        /\ Hop(stage, stage')
        /\ UNCHANGED decider

\* One request's decision takes effect: the only way into "decided", and a
\* scan that is decided takes no further step.
Decide(r) == /\ stage' = "decided"
             /\ decider' = r
             /\ Hop(stage, "decided")

ArchiveNext == Appear \/ Move \/ \E r \in Requests : Decide(r)

ArchiveSpec == ArchiveInit /\ [][ArchiveNext]_archive
=============================================================================
