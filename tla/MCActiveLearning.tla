-------------------------- MODULE MCActiveLearning --------------------------
(***************************************************************************)
(* Pairs of feedbacks.  "gun" has a larger minimum box than "knife"        *)
(* (45 x 45 pixels against 30 x 30).                                       *)
(***************************************************************************)
EXTENDS ActiveLearning

Box(w, h) == [w |-> w, h |-> h]
Found(category, box) == [category |-> category, box |-> box]
Judged(detection, judgement, corrected) ==
  [of |-> detection, judgement |-> judgement, corrected |-> corrected]

Large == Found("knife", Box(64, 64))
Small == Found("gun", Box(31, 31))
Thin  == Found("knife", Box(210, 10))
Vague == Found("unknown", Box(40, 40))

MCCategories == {"knife", "gun", "unknown"}
MCMinBoxArea == [knife |-> 900, gun |-> 2025, unknown |-> 625]
MCMinimum == [knife |-> 2, gun |-> 1, unknown |-> 0]

MCSymmetry == Permutations(Workers)

\* A confirmation, a box too small for its class but not for the corrected one, one
\* with too long a side, a missed region that cannot be named.
Inspection ==
  [outcome |-> "inspected", detections |-> {Large, Small, Thin},
   reviews |-> {Judged(Large, "confirmed", None), Judged(Small, "reclassified", "knife"),
                Judged(Thin, "unreviewed", None)},
   missed |-> {Found("knife", Box(210, 10)), Vague}]

\* A seizure although the only detection was rejected.
Seizure == [outcome |-> "seized", detections |-> {Large},
            reviews |-> {Judged(Large, "rejected", None)}, missed |-> {}]

\* Nothing found, nothing missed.
Clean == [outcome |-> "cleared", detections |-> {}, reviews |-> {}, missed |-> {}]

MCMixes == {<<Inspection, Seizure>>, <<Inspection, Clean>>, <<Seizure, Seizure>>}
=============================================================================
