-------------------------- MODULE LabelExtraction ---------------------------
(***************************************************************************)
(* What an operator's feedback teaches (datalayer/labelstore.py,           *)
(* datalayer/quality.py): the label candidates extracted from it, the gate *)
(* they must pass, and what the contract says it is worth                  *)
(* (contracts/v1/feedback.py).                                             *)
(*                                                                         *)
(* A feedback holds the detections it reacts to, as records of category    *)
(* and box, the operator's judgement of some of them, and the regions the  *)
(* model missed.                                                           *)
(***************************************************************************)
EXTENDS Integers, FiniteSets

CONSTANTS Categories,   \* ThreatCategory, "unknown" among them
          MinBoxArea    \* per category: pixels

ASSUME CategoriesAssumption == /\ "unknown" \in Categories
                               /\ MinBoxArea \in [Categories -> Nat]

NoBox == [w |-> 0, h |-> 0]

Positive == {"operator_confirmed", "operator_reclassified", "operator_missed"}

\* What the model detected or the operator drew.
Finding == [category : Categories, box : [w : Nat, h : Nat]]

\* A feedback the contract accepts: reviews are of embedded detections, one each,
\* with a corrected category exactly when reclassified.
LegalFeedback(fb) ==
  /\ fb.detections \subseteq Finding /\ fb.missed \subseteq Finding
  /\ IsFiniteSet(fb.detections) /\ IsFiniteSet(fb.missed) /\ IsFiniteSet(fb.reviews)
  /\ \A r \in fb.reviews : /\ r.of \in fb.detections
                           /\ (r.judgement = "reclassified") = (r.corrected \in Categories)
  /\ \A q, r \in fb.reviews : q.of = r.of => q = r

\* A LabelEntry; corrected_from is the category the model had given.
LabelOf(source, category, box, from) ==
  [source |-> source, category |-> category, box |-> box, corrected_from |-> from]

\* The labels of the reviews; an unreviewed detection is no label.
ReviewLabels(fb) ==
  LET is(j) == {r \in fb.reviews : r.judgement = j}
  IN  {LabelOf("operator_confirmed", r.of.category, r.of.box, "none")
         : r \in is("confirmed")}
      \cup {LabelOf("operator_reclassified", r.corrected, r.of.box, r.of.category)
              : r \in is("reclassified")}
      \cup {LabelOf("hard_negative", r.of.category, r.of.box, "none")
              : r \in is("rejected")}

\* The labels of the regions the operator drew.
MissedLabels(fb) ==
  {LabelOf("operator_missed", m.category, m.box, "none") : m \in fb.missed}

\* A cleared scan on which neither the model nor the operator found anything.
TrueNegative(fb) ==
  IF /\ fb.outcome = "cleared"
     /\ fb.reviews = {} /\ fb.missed = {} /\ fb.detections = {}
    THEN {LabelOf("true_negative_scan", "unknown", NoBox, "none")}
    ELSE {}

\* extract_label_entries
Candidates(fb) == ReviewLabels(fb) \cup MissedLabels(fb) \cup TrueNegative(fb)

HasBox(l) == l.box # NoBox

CategoryKnown(l) == l.source \in Positive => l.category # "unknown"

BoxForPositive(l) == l.source \in Positive => HasBox(l)

BoxArea(l) == HasBox(l) => l.box.w * l.box.h >= MinBoxArea[l.category]

\* No side is more than twenty times the other.
AspectRatio(l) == HasBox(l) => l.box.w <= 20 * l.box.h /\ l.box.h <= 20 * l.box.w

PositiveDims(l) == HasBox(l) => l.box.w > 0 /\ l.box.h > 0

SeizureNeedsBox(l, outcome) ==
  ~(outcome = "seized" /\ l.source \in {"true_negative_scan", "hard_negative"}
                       /\ ~HasBox(l))

\* LabelQualityGate.  The operator is named and the frame known whenever the
\* contract has accepted the feedback.
PassesGate(l, outcome) ==
  /\ CategoryKnown(l) /\ BoxForPositive(l)
  /\ BoxArea(l) /\ AspectRatio(l) /\ PositiveDims(l)
  /\ SeizureNeedsBox(l, outcome)

\* filter_passing
Passing(fb) == {l \in Candidates(fb) : PassesGate(l, fb.outcome)}

\* OperatorFeedback.n_gold_labels and n_hard_negatives: what the contract says a
\* feedback yields.
GoldLabels(fb) ==
  Cardinality({r \in fb.reviews : r.judgement \in {"confirmed", "reclassified"}})
    + Cardinality(fb.missed)

HardNegatives(fb) == Cardinality({r \in fb.reviews : r.judgement = "rejected"})
=============================================================================
