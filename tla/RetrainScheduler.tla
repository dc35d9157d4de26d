-------------------------- MODULE RetrainScheduler --------------------------
(***************************************************************************)
(* When a retraining is asked for (datalayer/retrain.py) and which classes *)
(* it may train (datalayer/balance.py).  counts gives the reviewed labels  *)
(* of each category.                                                       *)
(***************************************************************************)
EXTENDS LabelExtraction, FiniteSetsExt

CONSTANTS Minimum,      \* MIN_LABELS_PER_CLASS
          MinNew,       \* min_new_labels_since_last
          MinTotal      \* min_total_labels

ASSUME MinimumAssumption == /\ Minimum \in [Categories -> Nat]
                            /\ MinNew \in Nat /\ MinTotal \in Nat

\* Every category but UNKNOWN is a class.
Classes == Categories \ {"unknown"}

\* total_positive_labels: the sum over all categories, UNKNOWN included.
Total(counts) == MapThenSumSet(LAMBDA c : counts[c], Categories)

MeetsMinimum(counts, c) == counts[c] >= Minimum[c]

\* trainable_classes
Trainable(counts) == {c \in Classes : MeetsMinimum(counts, c)}

\* sample_weight times the number of classes, rounded down.
SampleWeight(counts, c) ==
  IF Total(counts) > 0 /\ counts[c] > 0
    THEN Total(counts) \div counts[c]
    ELSE Cardinality(Classes) * Cardinality(Classes)

\* newly_trainable: those that meet the minimum among those that do not.
NewlyTrainable(counts) ==
  Trainable(counts) \cap {c \in Classes : ~MeetsMinimum(counts, c)}

\* _evaluate_triggers: a reason to retrain is found.
Triggers(counts, atLast, cooling) ==
  /\ Total(counts) >= MinTotal
  /\ ~cooling
  /\ NewlyTrainable(counts) # {} \/ Total(counts) - atLast >= MinNew

\* check_and_emit, unforced: a job specification is written.
Emits(counts, atLast, cooling) ==
  Triggers(counts, atLast, cooling) /\ Trainable(counts) # {}
=============================================================================
