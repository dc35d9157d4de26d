------------------------- MODULE MCOperatorConsole --------------------------
(***************************************************************************)
(* Three modes: the feed of a console and a supervisor's under network     *)
(* faults and logouts; overlapping fetches; the selected scan and the      *)
(* decision on it.                                                         *)
(***************************************************************************)
EXTENDS OperatorConsole

CONSTANTS k1, k2, k3, sup, s1, s2, f1, f2

MCLanesOf == [k \in Conns |-> IF k = sup THEN {} ELSE {"lane-1"}]
MCLaneOf == [b \in Scans |-> IF b = s1 THEN "lane-1" ELSE "ALL"]

FeedMode == [conns |-> {sup}, fetches |-> {f1}, others |-> {s1},
             faults |-> 2, selects |-> 0, mounts |-> 2]
ListMode == [conns |-> {}, fetches |-> {f1, f2}, others |-> {s1, s2},
             faults |-> 1, selects |-> 0, mounts |-> 1]
DeskMode == [conns |-> {}, fetches |-> {f1}, others |-> {},
             faults |-> 0, selects |-> 2, mounts |-> 1]

MCModes == {FeedMode, ListMode, DeskMode}
=============================================================================
