--------------------------- MODULE ScanLifecycle ----------------------------
(***************************************************************************)
(* One scan and the HTTP requests that act on it: the tables scans,        *)
(* scan_detections, scan_verdicts and scan_feedback under READ COMMITTED   *)
(* transactions, the handlers of app/api/v1 that read and write them       *)
(* through PostgresScanStore, and what a handler does outside its own      *)
(* transaction: audit events (a session of their own, committed at once),  *)
(* banked training labels, WebSocket notices and the reply to the client.  *)
(*                                                                         *)
(* A request is a slot that is used once.  Its transaction's writes live   *)
(* in tx[r] until Commit makes them visible; Fail and Abort drop them.     *)
(* One scan is enough: every row written names one scan_id, so requests    *)
(* about different scans share no row and no lock of these tables.         *)
(***************************************************************************)
EXTENDS ScanStates, Naturals, Sequences, FiniteSets

CONSTANTS Requests,   \* requests that may arrive for this scan
          None,       \* no request, no value
          Outcomes,   \* operator outcomes (OperatorOutcome)
          Risks,      \* risk bands a verdict may carry (RiskBand)
          Results,    \* detector answers (DetectionStatus)
          Endpoints,  \* bound: the endpoints that are called
          MaxAborts   \* bound: transactions lost to a crash or a dead connection

\* The endpoints that act on one scan.
Kinds == {"capture", "detect", "verdict", "review", "decide", "feedback"}

ASSUME NoneAssumption == /\ None \notin Requests \cup States \cup Kinds
                         /\ None # Absent
                         /\ None # Invalid
ASSUME RisksAssumption == "clear" \in Risks
ASSUME EndpointsAssumption == Endpoints \subseteq Kinds
ASSUME ResultsAssumption == Results \subseteq {"findings", "no_findings", "failed"}

VARIABLES
  scan,        \* committed scans.state, Absent while there is no row
  riskFrom,    \* the request whose verdict set scans.overall_risk, or None
  verdict,     \* the request whose row is in scan_verdicts, or None
  feedback,    \* the request whose row is in scan_feedback, or None
  detections,  \* requests that have rows in scan_detections
  decider,     \* the request whose commit moved the scan to decided, or None
  tx,          \* [Requests -> the uncommitted part of its transaction]
  pc,          \* [Requests -> where its handler stands]
  kind,        \* [Requests -> which endpoint it called]
  result,      \* [Requests -> what the detector answered it]
  choice,      \* [Requests -> the risk band or operator outcome it carries]
  audit,       \* committed audit events, in seq order
  labels,      \* feedback requests whose labels are in the label queue
  noticed,     \* requests that broadcast a scan.decided or scan.flagged notice
  reply,       \* [Requests -> the answer its client saw]
  aborted      \* requests that lost their transaction

rows    == <<scan, riskFrom, verdict, feedback, detections, decider>>
inputs  == <<kind, result, choice>>
outside == <<audit, labels, noticed>>
vars    == <<rows, tx, pc, inputs, outside, reply, aborted>>

Replies == {"none", "ok", "not_found", "conflict", "raced", "error", "invalid",
            "rejected"}
Places  == {"idle", "captured", "detect", "reload_detection",
            "advance_detection", "commit_detection", "audit_detection",
            "verdict", "reload_verdict", "advance_verdict", "commit_verdict",
            "audit_verdict", "bank_labels", "store_feedback",
            "reload_feedback", "advance", "audit", "finish", "commit", "done"}

\* RiskBand.HIGH and RiskBand.MEDIUM, the bands that raise an alert.
Flagged == {"high", "medium"}

\* A transaction that has written nothing.
NoTx == [cached     |-> None,    \* state of the Scan object last loaded
         state      |-> None,    \* uncommitted scans.state; holds the row lock
         detections |-> FALSE,   \* uncommitted rows in scan_detections
         verdict    |-> FALSE,   \* uncommitted row in scan_verdicts
         feedback   |-> FALSE]   \* uncommitted row in scan_feedback

Transactions == [cached : States \cup {None}, state : States \cup {None},
                 detections : BOOLEAN, verdict : BOOLEAN, feedback : BOOLEAN]

\* Event types the handlers record.
AuditTypes == {"camera.captured", "detect.received", "detect.completed",
               "verdict.received", "verdict.rejected", "verdict.completed",
               "feedback.received", "feedback.banked", "scan.opened",
               "scan.decided"}

Event(r, e) == [by |-> r, event |-> e]

Init == /\ scan = Absent
        /\ riskFrom = None /\ verdict = None /\ feedback = None
        /\ detections = {} /\ decider = None
        /\ tx     = [r \in Requests |-> NoTx]
        /\ pc     = [r \in Requests |-> "idle"]
        /\ kind   = [r \in Requests |-> None]
        /\ result = [r \in Requests |-> None]
        /\ choice = [r \in Requests |-> None]
        /\ audit = <<>> /\ labels = {} /\ noticed = {}
        /\ reply  = [r \in Requests |-> "none"]
        /\ aborted = {}

-----------------------------------------------------------------------------
(* The database.                                                           *)

Goto(r, place) == pc' = [pc EXCEPT ![r] = place]

\* No other transaction holds the row lock of the scan.
RowFree(r) == \A q \in Requests \ {r} : tx[q].state = None

\* No other transaction has an uncommitted insert into the table: an
\* INSERT ... ON CONFLICT waits for that transaction to end.
VerdictFree(r)  == \A q \in Requests \ {r} : ~tx[q].verdict

\* Mutant: scan_feedback without UNIQUE (scan_id).
FeedbackFreeWithoutUnique(r) == TRUE

FeedbackFree(r) == \A q \in Requests \ {r} : ~tx[q].feedback

\* Mutant: UPDATE ... WHERE scan_id alone.
CasWithoutState(r, target) == /\ RowFree(r)
                              /\ tx' = [tx EXCEPT ![r].state = target]

\* PostgresScanStore._transition once the table has named the target: UPDATE
\* ... WHERE state = expected, expected being the cached state.
CasWins(r, target) == /\ RowFree(r)
                      /\ scan = tx[r].cached
                      /\ tx' = [tx EXCEPT ![r].state = target]

\* The UPDATE matched no row: ConcurrentTransitionError.
CasLoses(r) == RowFree(r) /\ scan # tx[r].cached

\* _transition's own session.get.  A handler that holds no Scan object has
\* let the one _get_state loaded go, and the identity map keeps it weakly:
\* the row is read again.
Reload(r, place, next) ==
  /\ pc[r] = place
  /\ tx' = [tx EXCEPT ![r].cached = scan]
  /\ Goto(r, next)
  /\ UNCHANGED <<rows, inputs, outside, reply, aborted>>

\* Mutant: the error is answered but the session commits all the same.
FailCommits(r, code) == /\ reply' = [reply EXCEPT ![r] = code]
                        /\ Goto(r, "commit")
                        /\ UNCHANGED tx

\* Mutant: the error is answered and the session is neither rolled back nor
\* closed.
FailLeaks(r, code) == /\ reply' = [reply EXCEPT ![r] = code]
                      /\ Goto(r, "done")
                      /\ UNCHANGED tx

\* The handler raised: the session is rolled back and the client sees code.
Fail(r, code) == /\ tx' = [tx EXCEPT ![r] = NoTx]
                 /\ reply' = [reply EXCEPT ![r] = code]
                 /\ Goto(r, "done")

\* session.commit().
CommitRows(r) ==
  /\ scan'       = IF tx[r].state = None THEN scan ELSE tx[r].state
  /\ riskFrom'   = IF tx[r].state = "verdicted" THEN r ELSE riskFrom
  /\ decider'    = IF tx[r].state = "decided" THEN r ELSE decider
  /\ verdict'    = IF tx[r].verdict THEN r ELSE verdict
  /\ feedback'   = IF tx[r].feedback THEN r ELSE feedback
  /\ detections' = IF tx[r].detections THEN detections \cup {r} ELSE detections
  /\ tx'         = [tx EXCEPT ![r] = NoTx]

\* audit.record: a session of its own, committed before it returns.
Record(r, e) == audit' = Append(audit, Event(r, e))

-----------------------------------------------------------------------------
(* Arrivals.                                                               *)

Begin(r, k, place) == /\ pc[r] = "idle"
                      /\ k \in Endpoints
                      /\ kind' = [kind EXCEPT ![r] = k]
                      /\ Goto(r, place)

\* capture: a fresh scan_id, so the row is new; committed at once.
Capture(r) ==
  /\ scan = Absent
  /\ Begin(r, "capture", "captured")
  /\ scan' = "pending"
  /\ UNCHANGED <<riskFrom, verdict, feedback, detections, decider, tx,
                 result, choice, outside, reply, aborted>>

\* A request about a scan that is not stored.  decide_scan and mark_reviewing
\* answer 404.  The others audit first, and the event's scan_id has no
\* committed row to refer to (detect's own insert is still uncommitted):
\* IntegrityError, 409, all rolled back.
Refuse(r) ==
  /\ scan = Absent
  /\ \E k \in Kinds \ {"capture"} :
       /\ Begin(r, k, "done")
       /\ reply' = [reply EXCEPT ![r] = IF k \in {"decide", "review"}
                                       THEN "not_found" ELSE "conflict"]
  /\ UNCHANGED <<rows, tx, result, choice, outside, aborted>>

\* detect for a scan that is stored: the insert is skipped, then the audit.
Detect(r) ==
  /\ scan # Absent
  /\ Begin(r, "detect", "detect")
  /\ Record(r, "detect.received")
  /\ UNCHANGED <<rows, tx, result, choice, labels, noticed, reply, aborted>>

Verdict(r) ==
  /\ scan # Absent
  /\ Begin(r, "verdict", "verdict")
  /\ Record(r, "verdict.received")
  /\ UNCHANGED <<rows, tx, result, choice, labels, noticed, reply, aborted>>

Feedback(r) ==
  /\ scan # Absent
  /\ Begin(r, "feedback", "bank_labels")
  /\ \E o \in Outcomes : choice' = [choice EXCEPT ![r] = o]
  /\ Record(r, "feedback.received")
  /\ UNCHANGED <<rows, tx, result, labels, noticed, reply, aborted>>

\* mark_reviewing: db.get puts the row in the session's identity map, where
\* the store reads it again.
Review(r) ==
  /\ scan # Absent
  /\ Begin(r, "review", IF scan = "verdicted" THEN "advance" ELSE "finish")
  /\ tx' = [tx EXCEPT ![r].cached = scan]
  /\ UNCHANGED <<rows, result, choice, outside, reply, aborted>>

\* decide_scan up to its pre-check of the state.
DecideScan(r) ==
  /\ scan # Absent
  /\ \E o \in Outcomes : choice' = [choice EXCEPT ![r] = o]
  /\ \/ /\ scan \in {"analyzed", "verdicted", "reviewing"}
        /\ Begin(r, "decide", "store_feedback")
        /\ tx' = [tx EXCEPT ![r].cached = scan]
        /\ UNCHANGED reply
     \/ /\ scan \notin {"analyzed", "verdicted", "reviewing"}
        /\ Begin(r, "decide", "done")
        /\ reply' = [reply EXCEPT ![r] = "conflict"]
        /\ UNCHANGED tx
  /\ UNCHANGED <<rows, result, outside, aborted>>

-----------------------------------------------------------------------------
(* record_detection and record_verdict, for the camera and for the API.    *)

\* The audit events a handler writes between two steps of its work.
AuditStep(r, place, e, next) ==
  /\ pc[r] = place
  /\ Record(r, e)
  /\ Goto(r, next)
  /\ UNCHANGED <<rows, tx, inputs, labels, noticed, reply, aborted>>

AuditCapture(r)   == AuditStep(r, "captured", "camera.captured", "detect")
AuditDetection(r) == AuditStep(r, "audit_detection", "detect.completed",
                               IF kind[r] = "capture" THEN "verdict" ELSE "finish")
AuditVerdict(r)   == AuditStep(r, "audit_verdict", "verdict.completed", "finish")

AfterDetection(r) == IF kind[r] = "capture" THEN "commit_detection"
                                            ELSE "audit_detection"

\* The detector answers; its findings are inserted under fresh ids; the state
\* is read.  The result's status is not looked at.
StoreDetection(r) ==
  /\ pc[r] = "detect"
  /\ \E res \in Results :
       /\ result' = [result EXCEPT ![r] = res]
       /\ tx' = [tx EXCEPT ![r].detections = (res = "findings")]
  /\ Goto(r, IF scan \in {"pending", "analyzing"} THEN "reload_detection"
                                                  ELSE AfterDetection(r))
  /\ UNCHANGED <<rows, kind, choice, outside, reply, aborted>>

ReloadDetection(r) == Reload(r, "reload_detection", "advance_detection")

\* PENDING goes to ANALYZED by way of ANALYZING, which no commit ever shows.
AdvanceDetection(r) ==
  LET started == IF tx[r].cached = "analyzing" THEN "analyzing"
                 ELSE allowed_transition(tx[r].cached, "detect.received")
      target  == allowed_transition(started, "detect.completed")
  IN /\ pc[r] = "advance_detection"
     /\ \/ target = Invalid /\ Fail(r, "invalid")
        \/ /\ target # Invalid /\ CasWins(r, target)
           /\ Goto(r, AfterDetection(r)) /\ UNCHANGED reply
        \/ target # Invalid /\ CasLoses(r) /\ Fail(r, "error")
     /\ UNCHANGED <<rows, inputs, outside, aborted>>

AfterVerdict(r) == IF kind[r] = "capture" THEN "commit_verdict"
                                          ELSE "audit_verdict"

\* The generator answers, the verdict is inserted unless the scan has one, the
\* state is read.  Without findings the generator takes its CLEAR template;
\* with findings it may still fall back to it.
StoreVerdict(r) ==
  /\ pc[r] = "verdict"
  /\ VerdictFree(r)
  /\ \E risk \in Risks :
       /\ kind[r] = "capture" /\ result[r] # "findings" => risk = "clear"
       /\ choice' = [choice EXCEPT ![r] = risk]
  /\ tx' = [tx EXCEPT ![r].verdict = (verdict = None)]
  /\ Goto(r, IF scan = "analyzed" THEN "reload_verdict" ELSE AfterVerdict(r))
  /\ UNCHANGED <<rows, kind, result, outside, reply, aborted>>

\* POST /v1/verdict only: the answer fails validate_referential_integrity.
RejectVerdict(r) ==
  /\ pc[r] = "verdict" /\ kind[r] = "verdict"
  /\ Record(r, "verdict.rejected")
  /\ Fail(r, "rejected")
  /\ UNCHANGED <<rows, inputs, labels, noticed, aborted>>

ReloadVerdict(r) == Reload(r, "reload_verdict", "advance_verdict")

AdvanceVerdict(r) ==
  LET target == allowed_transition(tx[r].cached, "verdict.completed")
  IN /\ pc[r] = "advance_verdict"
     /\ \/ target = Invalid /\ Fail(r, "invalid")
        \/ /\ target # Invalid /\ CasWins(r, target)
           /\ Goto(r, AfterVerdict(r)) /\ UNCHANGED reply
        \/ target # Invalid /\ CasLoses(r) /\ Fail(r, "error")
     /\ UNCHANGED <<rows, inputs, outside, aborted>>

\* The camera handler commits each of its sessions before the audit event.
CommitStep(r, place, next) == /\ pc[r] = place
                              /\ CommitRows(r)
                              /\ Goto(r, next)
                              /\ UNCHANGED <<inputs, outside, reply, aborted>>

CommitDetection(r) == CommitStep(r, "commit_detection", "audit_detection")
CommitVerdict(r)   == CommitStep(r, "commit_verdict", "audit_verdict")

-----------------------------------------------------------------------------
(* The operator's requests.                                                *)

\* Mutant: a lost race is taken for a review that was already recorded.
AdvanceReviewSwallowed(r) ==
  /\ pc[r] = "advance" /\ kind[r] = "review"
  /\ \/ CasWins(r, allowed_transition("verdicted", "scan.opened"))
     \/ CasLoses(r) /\ UNCHANGED tx
  /\ Goto(r, "audit")
  /\ UNCHANGED <<rows, inputs, outside, reply, aborted>>

\* mark_reviewing, VERDICTED -> REVIEWING.
AdvanceReview(r) ==
  /\ pc[r] = "advance" /\ kind[r] = "review"
  /\ \/ /\ CasWins(r, allowed_transition("verdicted", "scan.opened"))
        /\ Goto(r, "audit") /\ UNCHANGED reply
     \/ CasLoses(r) /\ Fail(r, "raced")
  /\ UNCHANGED <<rows, inputs, outside, aborted>>

\* sink.record: the labels are appended to the queue, for good.
BankLabels(r) ==
  /\ pc[r] = "bank_labels"
  /\ labels' = labels \cup {r}
  /\ Goto(r, "store_feedback")
  /\ UNCHANGED <<rows, tx, inputs, audit, noticed, reply, aborted>>

\* The feedback row is inserted unless the scan has one.  decide_scan goes on
\* with the object it has held from the start; record_feedback reads the
\* state, and in a state it does not name the row is all it leaves.
StoreFeedback(r) ==
  /\ pc[r] = "store_feedback"
  /\ FeedbackFree(r)
  /\ tx' = [tx EXCEPT ![r].feedback = (feedback = None)]
  /\ \/ kind[r] = "decide" /\ Goto(r, "advance")
     \/ /\ kind[r] = "feedback"
        /\ Goto(r, IF scan \in {"verdicted", "reviewing", "analyzed"}
                   THEN "reload_feedback" ELSE "audit")
  /\ UNCHANGED <<rows, inputs, outside, reply, aborted>>

ReloadFeedback(r) == Reload(r, "reload_feedback", "advance")

\* Mutant: the decision is not audited.
AdvanceDecideUnaudited(r) ==
  /\ pc[r] = "advance" /\ kind[r] = "decide"
  /\ \/ CasWins(r, "decided") /\ Goto(r, "finish") /\ UNCHANGED reply
     \/ CasLoses(r) /\ Fail(r, "raced")
  /\ UNCHANGED <<rows, inputs, outside, aborted>>

\* Mutant: a lost race is answered like a decision that was already made.
AdvanceDecideIdempotent(r) ==
  /\ pc[r] = "advance" /\ kind[r] = "decide"
  /\ \/ CasWins(r, "decided") /\ Goto(r, "audit")
     \/ CasLoses(r) /\ Goto(r, "finish") /\ UNCHANGED tx
  /\ UNCHANGED <<rows, inputs, outside, reply, aborted>>

\* decide_scan: a VERDICTED scan passes through REVIEWING.
AdvanceDecide(r) ==
  LET opened == IF tx[r].cached = "verdicted"
                THEN allowed_transition("verdicted", "scan.opened")
                ELSE tx[r].cached
  IN /\ pc[r] = "advance" /\ kind[r] = "decide"
     /\ \/ /\ CasWins(r, allowed_transition(opened, "feedback.banked"))
           /\ Goto(r, "audit") /\ UNCHANGED reply
        \/ CasLoses(r) /\ Fail(r, "raced")
     /\ UNCHANGED <<rows, inputs, outside, aborted>>

\* record_feedback: from VERDICTED the table has no edge and _transition
\* raises; submit_feedback catches neither error.
AdvanceFeedback(r) ==
  LET target == allowed_transition(tx[r].cached, "feedback.banked")
  IN /\ pc[r] = "advance" /\ kind[r] = "feedback"
     /\ \/ target = Invalid /\ Fail(r, "invalid")
        \/ /\ target # Invalid /\ CasWins(r, target)
           /\ Goto(r, "audit") /\ UNCHANGED reply
        \/ target # Invalid /\ CasLoses(r) /\ Fail(r, "error")
     /\ UNCHANGED <<rows, inputs, outside, aborted>>

OperatorEvent(k) == IF k = "review" THEN "scan.opened"
                    ELSE IF k = "decide" THEN "scan.decided"
                    ELSE "feedback.banked"

AuditOperator(r) ==
  AuditStep(r, "audit", OperatorEvent(kind[r]), "finish")

-----------------------------------------------------------------------------
(* The end of a request.                                                   *)

\* The handler returns: notices go out, then the response.  The session is
\* committed after that (exit code of a dependency with yield); the camera
\* handler has nothing left to commit.
Finish(r) ==
  /\ pc[r] = "finish"
  /\ noticed' = IF \/ kind[r] \in {"decide", "feedback"}
                   \/ kind[r] = "verdict" /\ choice[r] \in Flagged
                THEN noticed \cup {r} ELSE noticed
  /\ reply' = [reply EXCEPT ![r] = "ok"]
  /\ Goto(r, IF kind[r] = "capture" THEN "done" ELSE "commit")
  /\ UNCHANGED <<rows, tx, inputs, audit, labels, aborted>>

Commit(r) == CommitStep(r, "commit", "done")

\* The worker dies or the connection is lost: PostgreSQL drops the open
\* transaction; what was audited, banked, broadcast or answered stays.
Abort(r) ==
  /\ pc[r] \notin {"idle", "done"}
  /\ Cardinality(aborted) < MaxAborts
  /\ aborted' = aborted \cup {r}
  /\ tx' = [tx EXCEPT ![r] = NoTx]
  /\ reply' = [reply EXCEPT ![r] = IF @ = "none" THEN "error" ELSE @]
  /\ Goto(r, "done")
  /\ UNCHANGED <<rows, inputs, outside>>

Arrive(r) == \/ Capture(r) \/ Refuse(r) \/ Detect(r) \/ Verdict(r)
             \/ Feedback(r) \/ Review(r) \/ DecideScan(r)

Work(r) == \/ AuditCapture(r)
           \/ StoreDetection(r) \/ ReloadDetection(r) \/ AdvanceDetection(r)
           \/ CommitDetection(r) \/ AuditDetection(r)
           \/ StoreVerdict(r) \/ RejectVerdict(r)
           \/ ReloadVerdict(r) \/ AdvanceVerdict(r)
           \/ CommitVerdict(r) \/ AuditVerdict(r)
           \/ AdvanceReview(r) \/ BankLabels(r)
           \/ StoreFeedback(r) \/ ReloadFeedback(r)
           \/ AdvanceDecide(r) \/ AdvanceFeedback(r) \/ AuditOperator(r)
           \/ Finish(r) \/ Commit(r)

Next == \E r \in Requests : Arrive(r) \/ Work(r) \/ Abort(r)

Spec == Init /\ [][Next]_vars

\* The event loop runs a handler that can run, the detector and the generator
\* answer or time out, and PostgreSQL grants a lock that is free.
FairSpec == Spec /\ \A r \in Requests : WF_vars(Work(r))

-----------------------------------------------------------------------------
(* Properties.                                                             *)

\* The state space: what the tables, the handlers and the log may hold.
TypeOK ==
  /\ scan \in States \cup {Absent}
  /\ riskFrom \in Requests \cup {None}
  /\ verdict \in Requests \cup {None}
  /\ feedback \in Requests \cup {None}
  /\ detections \subseteq Requests
  /\ decider \in Requests \cup {None}
  /\ tx \in [Requests -> Transactions]
  /\ pc \in [Requests -> Places]
  /\ kind \in [Requests -> Kinds \cup {None}]
  /\ result \in [Requests -> Results \cup {None}]
  /\ choice \in [Requests -> Risks \cup Outcomes \cup {None}]
  /\ audit \in Seq([by : Requests, event : AuditTypes])
  /\ labels \subseteq Requests
  /\ noticed \subseteq Requests
  /\ reply \in [Requests -> Replies]
  /\ aborted \subseteq Requests

\* The event a deciding request leaves in the trail.
DecisionEvent(r) == Event(r, OperatorEvent(kind[r]))

Recorded(event) == \E i \in DOMAIN audit : audit[i] = event

\* At most one open transaction has changed the scan, and what it wrote is
\* still one hop of the transition table away from the committed state: the
\* compare-and-swap of _transition holds until the commit, not only when the
\* UPDATE runs.
LockDiscipline ==
  /\ \A q, r \in Requests : tx[q].state # None /\ tx[r].state # None => q = r
  /\ \A r \in Requests : tx[r].state # None => Hop(scan, tx[r].state)

\* Two open transactions never both insert the scan's feedback row (or its
\* verdict row), and none inserts what is already committed: the UNIQUE
\* constraint on scan_id decides before either commits.
OneRowPerScan ==
  /\ \A q, r \in Requests : tx[q].feedback /\ tx[r].feedback => q = r
  /\ \A q, r \in Requests : tx[q].verdict /\ tx[r].verdict => q = r
  /\ \A r \in Requests : tx[r].feedback => feedback = None
  /\ \A r \in Requests : tx[r].verdict => verdict = None

\* What request r's transaction holds where its handler stands.
Holds(r) ==
  /\ pc[r] \notin {"idle", "done"} => scan # Absent /\ kind[r] # None
  /\ pc[r] = "idle" => tx[r] = NoTx
  /\ pc[r] \notin {"commit_detection", "audit_detection", "commit_verdict",
                 "audit_verdict", "audit", "finish", "commit"}
       => tx[r].state = None
  /\ kind[r] = "capture" /\ pc[r] \in {"audit_detection", "audit_verdict", "finish"}
       => tx[r].state = None
  /\ pc[r] \in {"bank_labels", "reload_feedback"} => kind[r] = "feedback"
  /\ pc[r] = "audit" => kind[r] # "capture"
  /\ pc[r] = "advance" /\ kind[r] = "review" => tx[r].cached = "verdicted"
  /\ pc[r] \in {"store_feedback", "advance"} /\ kind[r] = "decide"
       => tx[r].cached \in {"analyzed", "verdicted", "reviewing"}
  /\ pc[r] \in {"reload_feedback", "advance"} /\ kind[r] \in {"decide", "feedback"}
       => tx[r].feedback \/ feedback # None
  /\ tx[r].state = "decided" =>
       /\ kind[r] \in {"decide", "feedback"}
       /\ tx[r].feedback \/ feedback # None
       /\ pc[r] \in {"audit", "finish", "commit"}
       /\ pc[r] # "audit" => Recorded(DecisionEvent(r))

HandlerHolds == \A r \in Requests : Holds(r)

\* A decided scan has an operator's judgement in scan_feedback, and the
\* request that decided it is already in the audit trail: neither row can lag
\* behind the state, whatever was aborted on the way (decide_scan and
\* submit_feedback insert, swap, audit and commit in that order).
DecidedIsRecorded ==
  scan = "decided" => /\ feedback # None
                      /\ decider \in Requests
                      /\ pc[decider] = "done"
                      /\ Recorded(DecisionEvent(decider))

\* The inductive invariant of this specification.
IInv == /\ TypeOK
        /\ LockDiscipline
        /\ OneRowPerScan
        /\ HandlerHolds
        /\ DecidedIsRecorded

\* An API request answered with a 4xx or 5xx has left no row and no state
\* behind: get_db and provide_scan_store roll back whatever ran before the
\* error (capture commits as it goes and is not covered).
RejectedLeavesNoRow ==
  \A r \in Requests :
     reply[r] \notin {"none", "ok"} /\ kind[r] # "capture"
       => r \notin {riskFrom, verdict, feedback, decider} \cup detections

\* A decision answered 200 and not lost in a crash is the decision that
\* stands: two parallel decisions cannot both win (decide_scan, YUQORI-5).
AnsweredDecisionStands ==
  \A r \in Requests :
     kind[r] = "decide" /\ pc[r] = "done" /\ reply[r] = "ok" /\ r \notin aborted
       => decider = r

\* The trail tells the story in the order it happened: once the request that
\* decided the scan has recorded its decision, no scan.opened follows.  The
\* audit is written while the row lock is held, so a review that lost the race
\* cannot slip its event in behind (mark_reviewing audits real changes only).
TrailInOrder ==
  scan = "decided" =>
    \A i, j \in DOMAIN audit :
       audit[i] = DecisionEvent(decider) /\ audit[j].event = "scan.opened"
         => j < i

\* DECIDED is terminal, and the judgement and the decider that go with it are
\* never replaced by a late or repeated request.
DecisionIsFinal ==
  [][scan = "decided" => UNCHANGED <<scan, decider, feedback>>]_vars

\* The scan of this specification, seen without transactions, follows
\* ScanArchive: it appears once, moves along the table and is decided once.
Archive == INSTANCE ScanArchive WITH stage <- scan

ImplementsArchive == Archive!ArchiveSpec

\* Every request ends: no lock taken on the scan or on a unique row is kept
\* by a request that has answered, and no two requests wait for each other.
EveryRequestEnds == \A r \in Requests : pc[r] # "idle" ~> pc[r] = "done"

-----------------------------------------------------------------------------
(* What the repository says of itself, and the code does not do.           *)

\* scans.py:450 answers a lost race with "Scan was decided concurrently by
\* another request.".
RacedMeansDecided ==
  \A r \in Requests : kind[r] = "decide" /\ reply[r] = "raced" => scan = "decided"

\* scans.py:423 "Persist the operator's judgement (idempotent on scan_id)":
\* the stored judgement is the one of the request that decided.
DecisionRowIsDeciders == scan = "decided" => feedback = decider

\* feedback.py:81 "Notify connected supervisors that a decision was made.":
\* a feedback that was broadcast as a decision and committed is one.
NoticeMeansDecided ==
  \A r \in noticed :
     kind[r] = "feedback" /\ pc[r] = "done" /\ r \notin aborted => scan = "decided"

\* DecisionPanel.tsx:103 "The state machine requires verdicted/analyzed ->
\* reviewing (scan.opened) before feedback can be banked": feedback the state
\* machine refuses is not banked.
BankedFeedbackIsAccepted == \A r \in labels : reply[r] # "invalid"

\* models.py:69 "any component failure" is ERROR: a scan whose only detector
\* run failed does not go on to be verdicted.
FailedDetectionIsError ==
  (\A r \in Requests : result[r] \in {None, "failed"}) => scan # "verdicted"

\* machine.py:11 "ANALYZED -> DECIDED (feedback.banked when no findings)".
AutoAdvanceOnlyWithoutFindings ==
  [][scan = "analyzed" /\ scan' = "decided" => detections = {}]_vars

\* sink.py:30 calls the audit and the state table eventually consistent: a
\* decision in the trail is at some point a decision of the scan.
AuditedDecisionTakesEffect ==
  \A r \in Requests : Recorded(Event(r, "scan.decided")) ~> scan = "decided"
=============================================================================
