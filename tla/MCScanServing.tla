--------------------------- MODULE MCScanServing ----------------------------
(***************************************************************************)
(* Three modes: lanes that store the same contents while one is cut short  *)
(* or the power fails; what a detector makes of a whole scan; thresholds   *)
(* that two admins replace through two workers.                            *)
(***************************************************************************)
EXTENDS ScanServing, TLC

CONSTANTS p1, p2, p3, c1, c2, w1, w2, u1, u2, r1, r2

MCFrameLists == {<<c1>>, <<c1, c2>>}
MCFrame == [width |-> 4, height |-> 3]

MCBox(x1, y1, x2, y2) == [x1 |-> x1, y1 |-> y1, x2 |-> x2, y2 |-> y2]
Found(label, score, box) == [label |-> label, score |-> score, box |-> box]

\* A box that is reversed and sticks out, one of half a pixel at an odd and at an even
\* place, one that fills the frame, one outside it, one beyond it by a rounding.
Sticks  == Found("gun", 20, MCBox(9, 7, -3, 1))
HalfOdd == Found("wrench", 40, MCBox(2, 2, 3, 4))
HalfEven == Found("knife", 21, MCBox(4, 0, 5, 1))
Fills   == Found("umbrella", 40, MCBox(0, 0, 8, 6))
Outside == Found("gun", 90, MCBox(9, 7, 12, 10))
Weak    == Found("wrench", 34, MCBox(0, 0, 4, 4))

MCFinds == {{}, {Sticks, Weak}, {HalfOdd, HalfEven}, {Fills, Outside}}

MCRow == [r \in {u1, u2, Seed, Default} |->
            CASE r = Seed -> [alert |-> 55, clear |-> 20]
              [] r = Default -> [alert |-> 80, clear |-> 50]
              [] OTHER -> [alert |-> 30, clear |-> 25]]

StoreMode == [lanes |-> Lanes, workers |-> {}, updates |-> {}, ingests |-> 3,
              faults |-> 1, finds |-> {{}}, starts |-> {3}, clock |-> FALSE]
DetectMode == [lanes |-> Lanes, workers |-> Workers, updates |-> {}, ingests |-> 1,
               faults |-> 1, finds |-> MCFinds, starts |-> {3}, clock |-> FALSE]
AdminMode == [lanes |-> {}, workers |-> Workers, updates |-> Updates, ingests |-> 0,
              faults |-> 1, finds |-> {{}}, starts |-> {0, 3}, clock |-> TRUE]

MCModes == {StoreMode, DetectMode, AdminMode}

\* Lanes, workers and updates are interchangeable.
MCSymmetry == Permutations(Lanes) \cup Permutations(Workers) \cup Permutations(Updates)
=============================================================================
