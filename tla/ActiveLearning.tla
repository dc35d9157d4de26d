--------------------------- MODULE ActiveLearning ---------------------------
(***************************************************************************)
(* The active-learning loop (datalayer/active_learning.py) as the API runs *)
(* it (app/datalayer_wiring.py): process_feedback in threads of several    *)
(* worker processes, each with a retrain scheduler of its own, over one    *)
(* label queue; an annotator who reviews the queue; a tool that freezes it *)
(* into dataset versions (datalayer/versioning.py); faults, full disks    *)
(* and power cuts.                                                         *)
(***************************************************************************)
EXTENDS LabelQueue, RetrainScheduler

CONSTANTS Workers,
          Mixes,        \* sequences of the feedbacks that may come in together
          Tags,         \* dataset versions
          None,
          MaxFaults     \* bound: writes cut short, job files that cannot be written,
                        \* workers that die, power cuts

ASSUME MixesAssumption == \A m \in Mixes : \A i \in DOMAIN m : LegalFeedback(m[i])

VARIABLES feedback,     \* per feedback_id: what is submitted
          pc,           \* per feedback: where its process_feedback stands
          at,           \* per feedback: the worker it runs in
          counts,       \* per feedback: what its check counted, or None
          receipt,      \* per feedback: the receipt, or None
          cooling,      \* per worker: last_retrain_at is within the cooldown
          atLast,       \* per worker: labels_at_last_retrain
          spec,         \* the job specification written last, or None
          snapshot,     \* what the version tool has read, or None
          versions,     \* the tags whose manifests are written
          faults

Ids == DOMAIN feedback

requests == <<feedback, pc, at, counts, receipt>>
retrain == <<cooling, atLast, spec>>
dataset == <<snapshot, versions>>
loopVars == <<queueVars, requests, retrain, dataset, faults>>

LoopInit ==
  /\ QueueInit
  /\ feedback \in Mixes
  /\ pc = [i \in Ids |-> "new"] /\ at = [i \in Ids |-> None]
  /\ counts = [i \in Ids |-> None] /\ receipt = [i \in Ids |-> None]
  /\ cooling = [w \in Workers |-> FALSE] /\ atLast = [w \in Workers |-> 0]
  /\ spec = None
  /\ snapshot = None /\ versions = {}
  /\ faults = 0

\* POST /v1/feedback reaches a worker, whose thread extracts the labels and gates
\* them.  The console lets the operator submit again what failed.
Begin(i, w) == /\ pc[i] \in {"new", "failed"}
               /\ pc' = [pc EXCEPT ![i] = "write"] /\ at' = [at EXCEPT ![i] = w]
               /\ UNCHANGED <<queueVars, feedback, counts, receipt, retrain, dataset, faults>>

Fail(S) == /\ pc' = [i \in Ids |-> IF i \in S THEN "failed" ELSE pc[i]]
           /\ at' = [i \in Ids |-> IF i \in S THEN None ELSE at[i]]

\* Mutant: a write that fails is logged and forgotten.
EnqueueAnyway(i) ==
  /\ pc[i] = "write"
  /\ LET labels == Passing(feedback[i])
     IN  \/ EnqueueMany(i, labels) /\ UNCHANGED faults
         \/ EnqueueTears(i, labels) /\ faults < MaxFaults /\ faults' = faults + 1
  /\ pc' = [pc EXCEPT ![i] = "check"]
  /\ UNCHANGED <<feedback, at, counts, receipt, retrain, dataset>>

\* The labels that pass go into the queue; a write that fails fails the request.
Enqueue(i) ==
  /\ pc[i] = "write"
  /\ LET labels == Passing(feedback[i])
     IN  \/ /\ EnqueueMany(i, labels)
            /\ pc' = [pc EXCEPT ![i] = "check"]
            /\ UNCHANGED <<at, faults>>
         \/ /\ faults < MaxFaults /\ faults' = faults + 1
            /\ EnqueueTears(i, labels) /\ Fail({i})
  /\ UNCHANGED <<feedback, counts, receipt, retrain, dataset>>

\* The receipt counts what passed; a true negative is not counted.
Receipt(fb) ==
  [labels |-> Cardinality({l \in Passing(fb) : l.source \in Positive}),
   hard |-> Cardinality({l \in Passing(fb) : l.source = "hard_negative"})]

Acknowledge(i) == /\ pc' = [pc EXCEPT ![i] = "acked"]
                  /\ at' = [at EXCEPT ![i] = None]
                  /\ receipt' = [receipt EXCEPT ![i] = Receipt(feedback[i])]

\* Mutant: the status of a label is not looked at.
CountsAll == [c \in Categories |->
               Cardinality({j \in ReadableLines : text[j].label.category = c})]

\* count_by_category
Counts == [c \in Categories |-> CountByCategory(c)]

\* check_and_emit counts the queue and looks for a trigger, without a lock.
Check(i) ==
  /\ pc[i] = "check"
  /\ IF Emits(Counts, atLast[at[i]], cooling[at[i]])
       THEN /\ pc' = [pc EXCEPT ![i] = "emit"]
            /\ counts' = [counts EXCEPT ![i] = Counts]
            /\ UNCHANGED <<at, receipt>>
       ELSE Acknowledge(i) /\ UNCHANGED counts
  /\ UNCHANGED <<queueVars, feedback, retrain, dataset, faults>>

\* The specification is written and remembered; if it cannot be written, that is
\* logged and the receipt is sent all the same.
Emit(i) ==
  /\ pc[i] = "emit"
  /\ \/ /\ spec' = [by |-> i, trainable |-> Trainable(counts[i]),
                    total |-> Total(counts[i])]
        /\ cooling' = [cooling EXCEPT ![at[i]] = TRUE]
        /\ atLast' = [atLast EXCEPT ![at[i]] = Total(counts[i])]
        /\ UNCHANGED faults
     \/ /\ faults < MaxFaults /\ faults' = faults + 1
        /\ UNCHANGED retrain
  /\ Acknowledge(i)
  /\ counts' = [counts EXCEPT ![i] = None]
  /\ UNCHANGED <<queueVars, feedback, dataset>>

\* min_cooldown_hours have passed since the worker's last retrain.
CoolDown(w) == /\ cooling[w]
               /\ cooling' = [cooling EXCEPT ![w] = FALSE]
               /\ UNCHANGED <<queueVars, requests, atLast, spec, dataset, faults>>

\* The workers in W die with their requests and start with empty schedulers.
Restart(W) ==
  LET died == {i \in Ids : at[i] \in W}
  IN  /\ Fail(died)
      /\ counts' = [i \in Ids |-> IF i \in died THEN None ELSE counts[i]]
      /\ cooling' = [w \in Workers |-> w \notin W /\ cooling[w]]
      /\ atLast' = [w \in Workers |-> IF w \in W THEN 0 ELSE atLast[w]]
      /\ UNCHANGED <<feedback, receipt, spec>>

Crash(w) == /\ faults < MaxFaults /\ faults' = faults + 1
            /\ Restart({w})
            /\ UNCHANGED <<queueVars, dataset>>

LosePower == /\ faults < MaxFaults /\ faults' = faults + 1
             /\ PowerCut /\ Restart(Workers)
             /\ snapshot' = None
             /\ UNCHANGED versions

\* The annotator.
Review == /\ \E i \in ReadableLines : Annotate(i, "reviewed")
          /\ UNCHANGED <<requests, retrain, dataset, faults>>

ReviewedLines == Cardinality({i \in ReadableLines : text[i].status = "reviewed"})

\* create_snapshot: a tag that is taken and a queue without reviewed labels are
\* refused; else the entries are read.
BeginSnapshot(t) == /\ snapshot = None /\ t \notin versions /\ ReviewedLines > 0
                    /\ snapshot' = [tag |-> t, labels |-> ReviewedLines]
                    /\ UNCHANGED <<queueVars, requests, retrain, versions, faults>>

\* The queue's bytes are hashed - only here - and the manifest is written.
EndSnapshot == /\ snapshot # None
               /\ versions' = versions \cup {snapshot.tag}
               /\ snapshot' = None
               /\ UNCHANGED <<queueVars, requests, retrain, faults>>

LoopNext ==
  \/ \E i \in Ids : Enqueue(i) \/ Check(i) \/ Emit(i) \/ \E w \in Workers : Begin(i, w)
  \/ \E w \in Workers : CoolDown(w) \/ Crash(w)
  \/ LosePower \/ Review
  \/ EndSnapshot \/ \E t \in Tags : BeginSnapshot(t)

LoopSpec == LoopInit /\ [][LoopNext]_loopVars
-----------------------------------------------------------------------------
\* The labels a feedback was acknowledged for that no reader finds.
Lost == {p \in UNION {{i} \X Passing(feedback[i]) : i \in {j \in Ids : pc[j] = "acked"}} :
          \A j \in ReadableLines : <<text[j].id, text[j].label>> # p}

\* AcknowledgedIsQueued: an acknowledged label can be read from the queue by
\* whichever process looks, but for one per write that was cut short (the next
\* line runs into it) and those a power cut took; and the receipt says what the
\* contract says the feedback yields, less what the gate refused
\* (process_feedback, "banked, not silently dropped", FeedbackReceipt).
AcknowledgedIsQueued ==
  /\ Cardinality(Lost) <= tears + cut
  /\ \A i \in Ids : pc[i] = "acked" =>
       LET refused == Candidates(feedback[i]) \ Passing(feedback[i])
           bad(S) == Cardinality({l \in refused : l.source \in S})
       IN  /\ receipt[i].labels = GoldLabels(feedback[i]) - bad(Positive)
           /\ receipt[i].hard = HardNegatives(feedback[i]) - bad({"hard_negative"})

\* SpecsRestOnReviews: whatever happens between the count and the writing of a
\* job specification, every class it trains has its minimum of labels a human has
\* reviewed in the queue (check_and_emit, count_by_category).
SpecsRestOnReviews ==
  [][spec' # spec =>
       \A c \in spec'.trainable :
         CountByCategory(c) >= Minimum[c]]_loopVars
-----------------------------------------------------------------------------
(* Statements of the sources that the code does not keep.                  *)

\* AcknowledgedSurvives: the receipt "Confirms the feedback landed durably"
\* (feedback.py:206), one fsync per call (labelstore.py:311).
AcknowledgedSurvives == tears = 0 => Lost = {}

\* OneSpecPerDelta: "new reviewed labels needed before considering a retrain"
\* (retrain.py:56): no two specifications rest on the same labels.
OneSpecPerDelta == [][spec' # spec /\ spec # None => spec'.total >= spec.total + MinNew]_loopVars

\* NewClassIsAReason: a class that has reached its minimum since the last retrain
\* is "new_class_reached_minimum" (retrain.py:47), with whatever delta.
NewClassIsAReason ==
  \A i \in Ids : counts[i] # None /\ spec = None => NewlyTrainable(counts[i]) # {}

\* MinimumOfDistinctLabels: a label that was submitted again counts once toward
\* the "positive labels needed before a category is considered trainable".
Reviewed == {<<text[i].id, text[i].label>> :
              i \in {j \in ReadableLines : text[j].status = "reviewed"}}

MinimumOfDistinctLabels ==
  spec # None => \A c \in spec.trainable :
    Cardinality({p \in Reviewed : p[2].category = c}) >= Minimum[c]

\* TrainableIsPositive: minimums are of "positive labels needed before a category
\* is considered trainable" (balance.py:45).
TrainableIsPositive ==
  spec # None => \A c \in spec.trainable :
    Minimum[c] > 0 => \E p \in Reviewed : p[2].category = c /\ p[2].source \in Positive

\* UnseenWeighsMost: "maximum upweight for unseen class" (balance.py:132).
UnseenWeighsMost ==
  \A n \in [Categories -> 0 .. 6] : \A c, d \in Classes :
    n[c] = 0 => SampleWeight(n, c) >= SampleWeight(n, d)

\* SnapshotIsWhatWasHashed: queue_sha256 is the "SHA-256 of the JSONL queue file
\* bytes" the entries were taken from (versioning.py:54).
SnapshotIsWhatWasHashed ==
  [][EndSnapshot => snapshot.labels = ReviewedLines]_loopVars

\* SeizuresHaveAPositive: "SEIZED outcome paired with no positive box - at least
\* one positive label expected" (quality.py:186).
SeizuresHaveAPositive ==
  \A i \in Ids : pc[i] = "acked" /\ feedback[i].outcome = "seized" =>
    \E l \in Passing(feedback[i]) : l.source \in Positive
=============================================================================
