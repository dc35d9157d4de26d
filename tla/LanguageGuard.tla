---------------------------- MODULE LanguageGuard ----------------------------
(* The language guard every model text passes before it is shown                *)
(* (src/vlm/guard.py). A text is what the guard can tell apart of it: the class *)
(* of its length after normalisation, and the kinds of marks its scans find.    *)
EXTENDS Integers, Sequences

Lengths == {"empty", "short", "fit", "long"}
Scans == {"cyrillic_detected", "mixed_script", "russian_detected",
          "english_drift", "forbidden_clearance"}

\* A mixed-script token has Cyrillic letters, so the Cyrillic scan sees it too;
\* an empty text has nothing to find.
GuardTexts ==
  {t \in [len : Lengths, marks : SUBSET Scans] :
     /\ t.len = "empty" => t.marks = {}
     /\ "mixed_script" \in t.marks => "cyrillic_detected" \in t.marks}

Clean(length) == [len |-> length, marks |-> {}]
Nothing == Clean("empty")

\* What check() finds in a text: its length out of bounds and the marks; an
\* empty text has only that violation.
KindsOf(t) ==
  IF t.len = "empty"
  THEN {"empty"}
  ELSE (IF t.len = "short" THEN {"too_short"} ELSE {})
         \cup (IF t.len = "long" THEN {"too_long"} ELSE {})
         \cup t.marks

Passed(t) == KindsOf(t) = {}

\* The order in which check() looks, which is the order of its violations.
CheckedAt ==
  [empty |-> 0, too_short |-> 1, too_long |-> 2, cyrillic_detected |-> 3, mixed_script |-> 4,
   russian_detected |-> 5, english_drift |-> 6, forbidden_clearance |-> 7]
FirstViolation(t) ==
  CHOOSE k \in KindsOf(t) : \A other \in KindsOf(t) : CheckedAt[k] <= CheckedAt[other]

Retryable == {"empty", "too_short", "cyrillic_detected", "russian_detected", "english_drift"}
=============================================================================
