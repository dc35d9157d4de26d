------------------------ MODULE ScanLifecycleProofs -------------------------
(***************************************************************************)
(* What ScanLifecycle keeps for any requests, outcomes, risk bands and     *)
(* number of crashes: its inductive invariant IInv, that a decision is     *)
(* final, that the lifecycle implements ScanArchive, and, from a second    *)
(* invariant relative to IInv (AInv), what an answer says of the rows and  *)
(* of the trail.  KeysInv orders the locks: the requests on a scan never   *)
(* wait for one another in a circle.                                       *)
(*                                                                         *)
(* Every step of the specification belongs to one of five classes, by what *)
(* it does to rows and transactions: it leaves both alone (QuietStep),     *)
(* inserts a row that must be unique (InsertStep), wins the                *)
(* compare-and-swap (SwapStep), commits (CommittedStep), or stores the     *)
(* scan.  The class preserves the parts of IInv about rows and locks; what *)
(* is left for each action is its typing and Holds for its own request.    *)
(***************************************************************************)
EXTENDS ScanLifecycle, TLAPS

-----------------------------------------------------------------------------
(* The transition table.                                                   *)

\* allowed_transition answers with an edge of the table, or Invalid where the
\* table has none.
LEMMA TableLookup ==
  ASSUME NEW s, NEW e
  PROVE  \/ /\ allowed_transition(s, e) \in States
            /\ <<s, e, allowed_transition(s, e)>> \in ALLOWED
         \/ /\ allowed_transition(s, e) = Invalid
            /\ \A t \in States : <<s, e, t>> \notin ALLOWED
BY DEF allowed_transition

\* The edges, spelled out.
LEMMA EdgeFacts ==
  ASSUME NEW s, NEW t
  PROVE  <<s, t>> \in Edges <=>
           \/ s = "pending"   /\ t = "analyzing"
           \/ s = "analyzing" /\ t \in {"analyzed", "error"}
           \/ s = "analyzed"  /\ t \in {"verdicted", "error", "decided"}
           \/ s = "verdicted" /\ t = "reviewing"
           \/ s = "reviewing" /\ t = "decided"
BY DEF Edges, States, Events, ALLOWED

\* A hop leaves a state that is neither DECIDED nor absent, never returns to
\* it, and the hops the handlers take are there.
LEMMA HopFacts ==
  /\ \A s, t : Hop(s, t) => s \in States \ {"decided"} /\ t \in States
  /\ \A s : ~Hop(s, s)
  /\ Hop("pending", "analyzed")    /\ Hop("analyzing", "analyzed")
  /\ Hop("analyzed", "verdicted")  /\ Hop("verdicted", "reviewing")
  /\ Hop("analyzed", "decided")    /\ Hop("verdicted", "decided")
  /\ Hop("reviewing", "decided")
<1>1. \A s, t : Hop(s, t) <=>
        \/ <<s, t>> \in Edges
        \/ /\ s \in States /\ t \in States
           /\ \E u \in States : <<s, u>> \in Edges /\ <<u, t>> \in Edges
  BY DEF Hop, Hops
<1> QED
  BY <1>1, EdgeFacts DEF States

\* What each event leads to.
LEMMA TransitionFacts ==
  /\ \A s : allowed_transition(s, "feedback.banked") =
              IF s \in {"analyzed", "reviewing"} THEN "decided" ELSE Invalid
  /\ \A s : allowed_transition(s, "verdict.completed") =
              IF s = "analyzed" THEN "verdicted" ELSE Invalid
  /\ \A s : allowed_transition(s, "scan.opened") =
              IF s = "verdicted" THEN "reviewing" ELSE Invalid
  /\ \A s : allowed_transition(s, "detect.received") =
              IF s = "pending" THEN "analyzing" ELSE Invalid
  /\ \A s : allowed_transition(s, "detect.completed") =
              IF s = "analyzing" THEN "analyzed" ELSE Invalid
BY TableLookup DEF ALLOWED, States

-----------------------------------------------------------------------------

\* A transaction that has written nothing is one.
LEMMA NothingOf ==
  /\ NoTx \in Transactions
  /\ NoTx.state = None /\ NoTx.cached = None
  /\ ~NoTx.detections /\ ~NoTx.verdict /\ ~NoTx.feedback
BY DEF NoTx, Transactions

\* An audit event is added and none is lost.
LEMMA RecordFacts ==
  ASSUME TypeOK, NEW r \in Requests, NEW e \in AuditTypes, Record(r, e)
  PROVE  /\ audit' \in Seq([by : Requests, event : AuditTypes])
         /\ \A x : Recorded(x) => Recorded(x)'
         /\ Recorded(Event(r, e))'
<1>1. Event(r, e) \in [by : Requests, event : AuditTypes]
  BY DEF Event
<1>2. audit' \in Seq([by : Requests, event : AuditTypes])
  BY <1>1 DEF TypeOK, Record
<1>3. /\ Len(audit) \in Nat /\ DOMAIN audit = 1 .. Len(audit)
      /\ DOMAIN audit' = 1 .. (Len(audit) + 1)
      /\ \A i \in 1 .. Len(audit) : audit'[i] = audit[i]
      /\ audit'[Len(audit) + 1] = Event(r, e)
  BY <1>1 DEF TypeOK, Record
<1>4. ASSUME NEW x, Recorded(x) PROVE Recorded(x)'
  BY <1>3, <1>4 DEF Recorded
<1>5. Recorded(Event(r, e))'
  BY <1>3 DEF Recorded, Event
<1> QED
  BY <1>2, <1>4, <1>5

\* What a step of request r leaves of the others, and what no step undoes.
Untouched(r) == \A q \in Requests \ {r} :
                  tx'[q] = tx[q] /\ pc'[q] = pc[q] /\ kind'[q] = kind[q]

Grows == /\ scan # Absent => scan' # Absent
         /\ feedback # None => feedback' # None
         /\ \A x : Recorded(x) => Recorded(x)'

\* A step of a request that has not ended.
Frame(r) == TypeOK' /\ Untouched(r) /\ Grows /\ pc[r] # "done" /\ Holds(r)'

SameRows == UNCHANGED <<scan, verdict, feedback, decider>>

\* A step of one request leaves Holds of the others alone.
LEMMA OthersHold ==
  ASSUME IInv, NEW r \in Requests, Frame(r)
  PROVE  HandlerHolds'
<1> SUFFICES ASSUME NEW q \in Requests \ {r} PROVE Holds(q)'
  BY DEF HandlerHolds, Frame
<1>1. /\ tx'[q] = tx[q] /\ pc'[q] = pc[q] /\ kind'[q] = kind[q]
      /\ DecisionEvent(q)' = DecisionEvent(q)
  BY DEF Frame, Untouched, DecisionEvent, Event, OperatorEvent
<1>2. Recorded(DecisionEvent(q)) => Recorded(DecisionEvent(q))'
  BY <1>1 DEF Frame, Grows
<1>3. Holds(q)
  BY DEF IInv, HandlerHolds
<1> QED
  BY <1>1, <1>2, <1>3 DEF Holds, Frame, Grows

\* The step neither writes a row nor opens or extends a transaction.
LEMMA QuietStep ==
  ASSUME IInv, NEW r \in Requests, Frame(r), SameRows,
         \/ /\ tx'[r].state = tx[r].state
            /\ tx'[r].verdict = tx[r].verdict
            /\ tx'[r].feedback = tx[r].feedback
         \/ tx'[r] = NoTx
  PROVE  IInv'
<1>1. HandlerHolds'
  BY OthersHold
<1>2. LockDiscipline'
  BY NothingOf DEF IInv, LockDiscipline, Frame, Untouched, SameRows
<1>3. OneRowPerScan'
  BY NothingOf DEF IInv, OneRowPerScan, Frame, Untouched, SameRows
<1>4. DecidedIsRecorded'
  BY DEF IInv, DecidedIsRecorded, Frame, Untouched, Grows, SameRows, DecisionEvent,
         Event, OperatorEvent
<1> QED
  BY <1>1, <1>2, <1>3, <1>4 DEF IInv, Frame

\* The step inserts the verdict row or the feedback row, if there is none.
LEMMA InsertStep ==
  ASSUME IInv, NEW r \in Requests, Frame(r), SameRows,
         tx'[r].state = tx[r].state,
         \/ /\ VerdictFree(r)
            /\ tx'[r].verdict = (verdict = None)
            /\ tx'[r].feedback = tx[r].feedback
         \/ /\ FeedbackFree(r)
            /\ tx'[r].feedback = (feedback = None)
            /\ tx'[r].verdict = tx[r].verdict
  PROVE  IInv'
<1>1. HandlerHolds'
  BY OthersHold
<1>2. LockDiscipline'
  BY DEF IInv, LockDiscipline, Frame, Untouched, SameRows
<1>3. OneRowPerScan'
  BY DEF IInv, OneRowPerScan, Frame, Untouched, SameRows, VerdictFree, FeedbackFree
<1>4. DecidedIsRecorded'
  BY DEF IInv, DecidedIsRecorded, Frame, Untouched, Grows, SameRows, DecisionEvent,
         Event, OperatorEvent
<1> QED
  BY <1>1, <1>2, <1>3, <1>4 DEF IInv, Frame

\* The compare-and-swap wins.
LEMMA SwapStep ==
  ASSUME IInv, NEW r \in Requests, Frame(r), SameRows,
         RowFree(r), Hop(scan, tx'[r].state),
         tx'[r].verdict = tx[r].verdict,
         tx'[r].feedback = tx[r].feedback
  PROVE  IInv'
<1>1. HandlerHolds'
  BY OthersHold
<1>2. LockDiscipline'
  BY DEF IInv, LockDiscipline, Frame, Untouched, SameRows, RowFree
<1>3. OneRowPerScan'
  BY DEF IInv, OneRowPerScan, Frame, Untouched, SameRows
<1>4. DecidedIsRecorded'
  BY DEF IInv, DecidedIsRecorded, Frame, Untouched, Grows, SameRows, DecisionEvent,
         Event, OperatorEvent
<1> QED
  BY <1>1, <1>2, <1>3, <1>4 DEF IInv, Frame

\* The transaction commits.  Only the deciding request's commit decides, and
\* the row and the audit event are there by then.
LEMMA CommittedStep ==
  ASSUME IInv, NEW r \in Requests, Frame(r), CommitRows(r), UNCHANGED <<audit, kind>>,
         tx[r].state = "decided" => pc[r] = "commit" /\ pc'[r] = "done"
  PROVE  IInv'
<1>1. HandlerHolds'
  BY OthersHold
<1>2. tx'[r] = NoTx
  BY DEF CommitRows, IInv, TypeOK
<1>3. LockDiscipline'
  <2>1. CASE tx[r].state = None
    BY <2>1, <1>2, NothingOf DEF IInv, LockDiscipline, Frame, Untouched, CommitRows
  <2>2. CASE tx[r].state # None
    <3>1. \A q \in Requests : tx'[q].state = None
      BY <2>2, <1>2, NothingOf DEF IInv, LockDiscipline, Frame, Untouched
    <3> QED
      BY <3>1 DEF LockDiscipline
  <2> QED
    BY <2>1, <2>2
<1>4. OneRowPerScan'
  <2>1. \A q \in Requests : tx'[q].feedback => tx[q].feedback /\ q # r
    BY <1>2, NothingOf DEF Frame, Untouched
  <2>2. \A q \in Requests : tx'[q].verdict => tx[q].verdict /\ q # r
    BY <1>2, NothingOf DEF Frame, Untouched
  <2>3. \A q \in Requests : tx'[q].feedback => feedback' = None
    BY <2>1 DEF IInv, OneRowPerScan, CommitRows
  <2>4. \A q \in Requests : tx'[q].verdict => verdict' = None
    BY <2>2 DEF IInv, OneRowPerScan, CommitRows
  <2> QED
    BY <2>1, <2>2, <2>3, <2>4 DEF IInv, OneRowPerScan
<1>5. DecidedIsRecorded'
  <2> SUFFICES ASSUME scan' = "decided" PROVE DecidedIsRecorded!2'
    BY DEF DecidedIsRecorded
  <2>1. \A q : DecisionEvent(q)' = DecisionEvent(q) /\ (Recorded(DecisionEvent(q)) => Recorded(DecisionEvent(q))')
    BY DEF DecisionEvent, Event, OperatorEvent, Recorded
  <2>2. CASE tx[r].state = "decided"
    <3>1. pc[r] = "commit" /\ pc'[r] = "done"
      BY <2>2
    <3>2. Recorded(DecisionEvent(r)) /\ (tx[r].feedback \/ feedback # None)
      BY <2>2, <3>1 DEF IInv, HandlerHolds, Holds
    <3>3. decider' = r /\ feedback' # None
      BY <2>2, <3>2, NoneAssumption DEF CommitRows
    <3> QED
      BY <3>1, <3>2, <3>3, <2>1
  <2>3. CASE tx[r].state # "decided"
    <3>1. scan = "decided" /\ decider' = decider
      BY <2>3 DEF CommitRows
    <3>2. DecidedIsRecorded!2
      BY <3>1 DEF IInv, DecidedIsRecorded
    <3>3. decider # r /\ feedback' # None
      BY <3>2 DEF Frame, Grows
    <3> QED
      BY <3>1, <3>2, <3>3, <2>1 DEF Frame, Untouched
  <2> QED
    BY <2>2, <2>3
<1> QED
  BY <1>1, <1>3, <1>4, <1>5 DEF IInv, Frame

\* None is no state and no endpoint.
LEMMA NoneFacts ==
  /\ \A s \in States : s # None
  /\ \A k \in Kinds : k # None
  /\ None # "decided"
BY NoneAssumption DEF States

\* Reading the scan into the session touches nothing else of the transaction.
LEMMA ReadFacts ==
  ASSUME TypeOK, NEW r \in Requests, scan # Absent,
         tx' = [tx EXCEPT ![r].cached = scan]
  PROVE  /\ tx' \in [Requests -> Transactions]
         /\ tx'[r].cached = scan
         /\ tx'[r].state = tx[r].state
         /\ tx'[r].verdict = tx[r].verdict
         /\ tx'[r].feedback = tx[r].feedback
         /\ \A q \in Requests \ {r} : tx'[q] = tx[q]
<1>1. tx[r] \in Transactions /\ scan \in States \cup {None}
  BY DEF TypeOK
<1>2. [tx[r] EXCEPT !.cached = scan] \in Transactions
  BY <1>1 DEF Transactions
<1>3. tx' \in [Requests -> Transactions]
  BY <1>2 DEF TypeOK
<1> QED
  BY <1>1, <1>3 DEF TypeOK, Transactions

\* Arrivals preserve the invariant.
LEMMA ArriveStep ==
  ASSUME IInv, NEW r \in Requests, Arrive(r)
  PROVE  IInv'
<1>1. CASE Refuse(r)
  <2>2. TypeOK'
    BY <1>1, NothingOf DEF Refuse, Begin, IInv, TypeOK, Places, rows, inputs, outside, Goto, Kinds, Replies
  <2>3. Untouched(r) /\ Grows /\ pc[r] # "done"
    BY <1>1 DEF Refuse, Begin, IInv, TypeOK, rows, inputs, outside, Untouched, Grows, Goto, Recorded
  <2>4. Holds(r)'
    BY <1>1, <2>2, <2>3, NothingOf, NoneFacts DEF Refuse, Begin, IInv, TypeOK, HandlerHolds, Holds, Grows, rows, inputs, outside, Goto, Kinds
  <2> QED
    BY <1>1, <2>2, <2>3, <2>4, QuietStep DEF Refuse, Begin, Frame, SameRows, rows, inputs, outside
<1>2. CASE Detect(r)
  <2>1. /\ audit' \in Seq([by : Requests, event : AuditTypes])
        /\ \A x : Recorded(x) => Recorded(x)'
    BY <1>2, RecordFacts DEF Detect, AuditTypes, IInv
  <2>2. TypeOK'
    BY <1>2, <2>1, NothingOf DEF Detect, Begin, IInv, TypeOK, Places, rows, inputs, outside, Goto, Kinds
  <2>3. Untouched(r) /\ Grows /\ pc[r] # "done"
    BY <1>2, <2>1 DEF Detect, Begin, IInv, TypeOK, rows, inputs, outside, Untouched, Grows, Goto
  <2>4. Holds(r)'
    BY <1>2, <2>2, <2>3, NothingOf, NoneFacts DEF Detect, Begin, IInv, TypeOK, HandlerHolds, Holds, Grows, rows, inputs, outside, Goto, Kinds
  <2> QED
    BY <1>2, <2>2, <2>3, <2>4, QuietStep DEF Detect, Begin, Frame, SameRows, rows, inputs, outside
<1>3. CASE Verdict(r)
  <2>1. /\ audit' \in Seq([by : Requests, event : AuditTypes])
        /\ \A x : Recorded(x) => Recorded(x)'
    BY <1>3, RecordFacts DEF Verdict, AuditTypes, IInv
  <2>2. TypeOK'
    BY <1>3, <2>1, NothingOf DEF Verdict, Begin, IInv, TypeOK, Places, rows, inputs, outside, Goto, Kinds
  <2>3. Untouched(r) /\ Grows /\ pc[r] # "done"
    BY <1>3, <2>1 DEF Verdict, Begin, IInv, TypeOK, rows, inputs, outside, Untouched, Grows, Goto
  <2>4. Holds(r)'
    BY <1>3, <2>2, <2>3, NothingOf, NoneFacts DEF Verdict, Begin, IInv, TypeOK, HandlerHolds, Holds, Grows, rows, inputs, outside, Goto, Kinds
  <2> QED
    BY <1>3, <2>2, <2>3, <2>4, QuietStep DEF Verdict, Begin, Frame, SameRows, rows, inputs, outside
<1>4. CASE Feedback(r)
  <2>1. /\ audit' \in Seq([by : Requests, event : AuditTypes])
        /\ \A x : Recorded(x) => Recorded(x)'
    BY <1>4, RecordFacts DEF Feedback, AuditTypes, IInv
  <2>2. TypeOK'
    BY <1>4, <2>1, NothingOf DEF Feedback, Begin, IInv, TypeOK, Places, rows, inputs, outside, Goto, Kinds
  <2>3. Untouched(r) /\ Grows /\ pc[r] # "done"
    BY <1>4, <2>1 DEF Feedback, Begin, IInv, TypeOK, rows, inputs, outside, Untouched, Grows, Goto
  <2>4. Holds(r)'
    BY <1>4, <2>2, <2>3, NothingOf, NoneFacts DEF Feedback, Begin, IInv, TypeOK, HandlerHolds, Holds, Grows, rows, inputs, outside, Goto, Kinds
  <2> QED
    BY <1>4, <2>2, <2>3, <2>4, QuietStep DEF Feedback, Begin, Frame, SameRows, rows, inputs, outside
<1>5. CASE Review(r)
  <2>2. TypeOK'
    BY <1>5, NothingOf DEF Review, Begin, IInv, TypeOK, Places, rows, inputs, outside, Goto, Kinds, Transactions
  <2>3. Untouched(r) /\ Grows /\ pc[r] # "done"
    BY <1>5 DEF Review, Begin, IInv, TypeOK, rows, inputs, outside, Untouched, Grows, Goto, Recorded
  <2>4. Holds(r)'
    BY <1>5, <2>2, <2>3, NothingOf, NoneFacts DEF Review, Begin, IInv, TypeOK, HandlerHolds, Holds, Grows, rows, inputs, outside, Goto, Kinds
  <2> QED
    BY <1>5, <2>2, <2>3, <2>4, QuietStep DEF Review, Begin, Frame, SameRows, rows, inputs, outside
<1>6. CASE DecideScan(r)
  <2>1. \/ /\ scan \in {"analyzed", "verdicted", "reviewing"}
           /\ tx' = [tx EXCEPT ![r].cached = scan]
           /\ pc' = [pc EXCEPT ![r] = "store_feedback"]
           /\ UNCHANGED reply
        \/ /\ pc' = [pc EXCEPT ![r] = "done"]
           /\ reply' = [reply EXCEPT ![r] = "conflict"]
           /\ UNCHANGED tx
    BY <1>6 DEF DecideScan, Begin, Goto
  <2>2. /\ pc[r] = "idle" /\ scan # Absent
        /\ kind' = [kind EXCEPT ![r] = "decide"]
        /\ \E o \in Outcomes : choice' = [choice EXCEPT ![r] = o]
        /\ UNCHANGED <<rows, result, outside, aborted>>
    BY <1>6 DEF DecideScan, Begin, Goto
  <2>3. choice' \in [Requests -> Risks \cup Outcomes \cup {None}]
    BY <2>2 DEF IInv, TypeOK
  <2>4. TypeOK'
    <3>1. tx' \in [Requests -> Transactions]
      BY <2>1, <2>2, ReadFacts DEF IInv, TypeOK
    <3>2. pc' \in [Requests -> Places] /\ reply' \in [Requests -> Replies]
      BY <2>1 DEF IInv, TypeOK, Places, Replies
    <3>3. kind' \in [Requests -> Kinds \cup {None}]
      BY <2>2 DEF IInv, TypeOK, Kinds
    <3> QED
      BY <2>2, <2>3, <3>1, <3>2, <3>3 DEF IInv, TypeOK, rows, outside
  <2>5. Untouched(r) /\ Grows /\ pc[r] # "done"
    BY <2>1, <2>2 DEF IInv, TypeOK, rows, outside, Untouched, Grows, Recorded
  <2>6. Holds(r)'
    BY <2>1, <2>2, <2>5, NothingOf, NoneFacts DEF IInv, TypeOK, Transactions, HandlerHolds,
       Holds, Grows, rows, Kinds
  <2>7. /\ tx'[r].state = tx[r].state
        /\ tx'[r].verdict = tx[r].verdict
        /\ tx'[r].feedback = tx[r].feedback
    BY <2>1 DEF IInv, TypeOK, Transactions
  <2> QED
    BY <2>2, <2>4, <2>5, <2>6, <2>7, QuietStep DEF Frame, SameRows, rows
<1>7. CASE Capture(r)
  <2>1. TypeOK'
    BY <1>7 DEF Capture, Begin, Goto, IInv, TypeOK, Places, Kinds, States, outside
  <2>2. Untouched(r) /\ Grows /\ pc[r] # "done"
    BY <1>7 DEF Capture, Begin, Goto, IInv, TypeOK, Untouched, Grows, Recorded, outside, Absent
  <2>3. Holds(r)'
    BY <1>7, <2>2, NothingOf, NoneFacts DEF Capture, Begin, Goto, IInv, TypeOK, HandlerHolds,
       Holds, Kinds, Absent
  <2>4. HandlerHolds'
    BY <2>1, <2>2, <2>3, OthersHold DEF Frame
  <2>5. LockDiscipline' /\ OneRowPerScan'
    BY <1>7, HopFacts DEF Capture, IInv, LockDiscipline, OneRowPerScan, Absent, States
  <2>6. DecidedIsRecorded'
    BY <1>7 DEF Capture, DecidedIsRecorded
  <2> QED
    BY <2>1, <2>4, <2>5, <2>6 DEF IInv
<1> QED
  BY <1>1, <1>2, <1>3, <1>4, <1>5, <1>6, <1>7 DEF Arrive

\* The handler raised, in any place: the request ends and leaves nothing.
LEMMA FailedStep ==
  ASSUME IInv, NEW r \in Requests, NEW code \in Replies, Fail(r, code),
         pc[r] \notin {"idle", "done"},
         UNCHANGED <<rows, inputs, outside, aborted>>
  PROVE  IInv'
<1>1. /\ tx' \in [Requests -> Transactions]
      /\ tx'[r] = NoTx /\ pc'[r] = "done"
      /\ pc' \in [Requests -> Places] /\ reply' \in [Requests -> Replies]
  BY NothingOf DEF Fail, Goto, IInv, TypeOK, Places
<1>2. TypeOK'
  BY <1>1 DEF IInv, TypeOK, rows, inputs, outside
<1>3. Untouched(r) /\ Grows /\ pc[r] # "done"
  BY DEF Fail, Goto, IInv, TypeOK, rows, inputs, outside, Untouched, Grows, Recorded
<1>4. Holds(r)'
  BY <1>1, NothingOf, NoneFacts DEF Holds
<1> QED
  BY <1>1, <1>2, <1>3, <1>4, QuietStep DEF Frame, SameRows, rows

\* _transition's UPDATE found the state it expected.
LEMMA SwappedStep ==
  ASSUME IInv, NEW r \in Requests, NEW t \in States, CasWins(r, t),
         NEW place \in {"commit_detection", "audit_detection", "commit_verdict",
                        "audit_verdict", "audit"},
         Goto(r, place),
         pc[r] \in {"advance_detection", "advance_verdict", "advance"},
         Hop(tx[r].cached, t),
         kind[r] = "capture" => place \in {"commit_detection", "commit_verdict"},
         t = "decided" => /\ pc[r] = "advance" /\ place = "audit"
                          /\ kind[r] \in {"decide", "feedback"},
         UNCHANGED <<rows, inputs, outside, reply, aborted>>
  PROVE  IInv'
<1>1. tx[r] \in Transactions /\ t \in States \cup {None}
  BY DEF IInv, TypeOK
<1>2. [tx[r] EXCEPT !.state = t] \in Transactions
  BY <1>1 DEF Transactions
<1>3. /\ tx' \in [Requests -> Transactions]
      /\ tx'[r] = [tx[r] EXCEPT !.state = t]
      /\ pc' \in [Requests -> Places] /\ pc'[r] = place
  BY <1>2 DEF CasWins, Goto, IInv, TypeOK, Places
<1>4. /\ tx'[r].state = t
      /\ tx'[r].verdict = tx[r].verdict
      /\ tx'[r].feedback = tx[r].feedback
      /\ RowFree(r) /\ Hop(scan, t)
  BY <1>1, <1>3 DEF CasWins, Transactions
<1>5. TypeOK'
  BY <1>3 DEF IInv, TypeOK, rows, inputs, outside
<1>6. Untouched(r) /\ Grows /\ pc[r] # "done"
  BY DEF CasWins, Goto, IInv, TypeOK, rows, inputs, outside, Untouched, Grows, Recorded
<1>7. Holds(r)'
  <2>1. Holds(r) /\ UNCHANGED <<kind, scan, feedback>>
    BY DEF IInv, HandlerHolds, rows, inputs
  <2> QED
    BY <1>3, <1>4, <2>1 DEF Holds
<1> QED
  BY <1>4, <1>5, <1>6, <1>7, SwapStep DEF Frame, SameRows, rows

\* session.get reads the row again.
LEMMA ReloadStep ==
  ASSUME IInv, NEW r \in Requests,
         ReloadDetection(r) \/ ReloadVerdict(r) \/ ReloadFeedback(r)
  PROVE  IInv'
<1>1. PICK place \in {"reload_detection", "reload_verdict", "reload_feedback"},
           next \in {"advance_detection", "advance_verdict", "advance"} :
        Reload(r, place, next) /\ (next = "advance" <=> place = "reload_feedback")
  BY DEF ReloadDetection, ReloadVerdict, ReloadFeedback
<1>2. Holds(r) /\ scan # Absent
  BY <1>1 DEF Reload, IInv, HandlerHolds, Holds
<1>3. /\ tx' \in [Requests -> Transactions]
      /\ tx'[r].state = tx[r].state
      /\ tx'[r].verdict = tx[r].verdict
      /\ tx'[r].feedback = tx[r].feedback
      /\ \A q \in Requests \ {r} : tx'[q] = tx[q]
  BY <1>1, <1>2, ReadFacts DEF Reload, IInv
<1>4. TypeOK'
  BY <1>1, <1>3 DEF Reload, Goto, IInv, TypeOK, Places, rows, inputs, outside
<1>5. Untouched(r) /\ Grows /\ pc[r] # "done"
  BY <1>1, <1>3 DEF Reload, Goto, IInv, TypeOK, rows, inputs, outside, Untouched, Grows, Recorded
<1>6. Holds(r)'
  BY <1>1, <1>2, <1>3, NoneFacts DEF Reload, Goto, IInv, TypeOK, Holds, rows, inputs
<1> QED
  BY <1>1, <1>3, <1>4, <1>5, <1>6, QuietStep DEF Frame, SameRows, Reload, rows

\* The four audit events between a handler's steps.
LEMMA AuditedStep ==
  ASSUME IInv, NEW r \in Requests,
         \/ AuditCapture(r) \/ AuditDetection(r)
         \/ AuditVerdict(r) \/ AuditOperator(r)
  PROVE  IInv'
<1>1. PICK place \in {"captured", "audit_detection", "audit_verdict", "audit"},
           e \in AuditTypes, next \in {"detect", "verdict", "finish"} :
        /\ AuditStep(r, place, e, next)
        /\ place = "captured" => next = "detect"
        /\ place = "audit_detection" =>
             next = IF kind[r] = "capture" THEN "verdict" ELSE "finish"
        /\ place = "audit_verdict" => next = "finish"
        /\ place = "audit" => next = "finish" /\ e = OperatorEvent(kind[r])
  BY DEF AuditCapture, AuditDetection, AuditVerdict, AuditOperator, AuditTypes, OperatorEvent
<1>2. /\ audit' \in Seq([by : Requests, event : AuditTypes])
      /\ \A x : Recorded(x) => Recorded(x)'
      /\ Recorded(Event(r, e))'
  BY <1>1, RecordFacts DEF AuditStep, IInv
<1>3. TypeOK'
  BY <1>1, <1>2 DEF AuditStep, Goto, IInv, TypeOK, Places, rows, inputs
<1>4. Untouched(r) /\ Grows /\ pc[r] # "done"
  BY <1>1, <1>2 DEF AuditStep, Goto, IInv, TypeOK, rows, inputs, Untouched, Grows
<1>5. Holds(r)'
  <2>1. Holds(r)
    BY DEF IInv, HandlerHolds
  <2>2. /\ pc[r] = place /\ pc'[r] = next
        /\ UNCHANGED <<scan, feedback, kind, tx>>
    BY <1>1 DEF AuditStep, Goto, IInv, TypeOK, rows, inputs
  <2>3. place = "audit" => Recorded(DecisionEvent(r))'
    BY <1>1, <1>2, <2>2 DEF DecisionEvent
  <2>4. place # "captured" => next # "detect"
    BY <1>1
  <2> QED
    BY <1>1, <2>1, <2>2, <2>3, <2>4, NoneFacts DEF Holds
<1> QED
  BY <1>1, <1>3, <1>4, <1>5, QuietStep DEF Frame, SameRows, AuditStep, rows

\* The swaps of record_detection, record_verdict, mark_reviewing, decide_scan
\* and record_feedback: each wins or fails.
LEMMA AdvancedStep ==
  ASSUME IInv, NEW r \in Requests,
         \/ AdvanceDetection(r) \/ AdvanceVerdict(r) \/ AdvanceReview(r)
         \/ AdvanceDecide(r) \/ AdvanceFeedback(r)
  PROVE  IInv'
<1>0. Holds(r)
  BY DEF IInv, HandlerHolds
<1>1. CASE AdvanceDetection(r)
  <2> DEFINE started == IF tx[r].cached = "analyzing" THEN "analyzing"
                        ELSE allowed_transition(tx[r].cached, "detect.received")
             target  == allowed_transition(started, "detect.completed")
  <2>1. target # Invalid => target = "analyzed" /\ Hop(tx[r].cached, target)
    BY TransitionFacts, HopFacts DEF Invalid
  <2>2. /\ pc[r] = "advance_detection"
        /\ UNCHANGED <<rows, inputs, outside, aborted>>
        /\ \/ \E code \in Replies : Fail(r, code)
           \/ /\ target # Invalid /\ CasWins(r, target)
              /\ Goto(r, AfterDetection(r)) /\ UNCHANGED reply
    BY <1>1 DEF AdvanceDetection, Replies
  <2>3. CASE \E code \in Replies : Fail(r, code)
    BY <2>2, <2>3, FailedStep
  <2>4. CASE target # Invalid /\ CasWins(r, target)
             /\ Goto(r, AfterDetection(r)) /\ UNCHANGED reply
    <3>1. CasWins(r, "analyzed") /\ Hop(tx[r].cached, "analyzed")
      BY <2>1, <2>4
    <3> QED
      BY <3>1, <2>2, <2>4, SwappedStep DEF AfterDetection, States
  <2> QED
    BY <2>2, <2>3, <2>4
<1>2. CASE AdvanceVerdict(r)
  <2> DEFINE target == allowed_transition(tx[r].cached, "verdict.completed")
  <2>1. target # Invalid => target = "verdicted" /\ Hop(tx[r].cached, target)
    BY TransitionFacts, HopFacts DEF Invalid
  <2>2. /\ pc[r] = "advance_verdict"
        /\ UNCHANGED <<rows, inputs, outside, aborted>>
        /\ \/ \E code \in Replies : Fail(r, code)
           \/ /\ target # Invalid /\ CasWins(r, target)
              /\ Goto(r, AfterVerdict(r)) /\ UNCHANGED reply
    BY <1>2 DEF AdvanceVerdict, Replies
  <2>3. CASE \E code \in Replies : Fail(r, code)
    BY <2>2, <2>3, FailedStep
  <2>4. CASE target # Invalid /\ CasWins(r, target)
             /\ Goto(r, AfterVerdict(r)) /\ UNCHANGED reply
    <3>1. CasWins(r, "verdicted") /\ Hop(tx[r].cached, "verdicted")
      BY <2>1, <2>4
    <3> QED
      BY <3>1, <2>2, <2>4, SwappedStep DEF AfterVerdict, States
  <2> QED
    BY <2>2, <2>3, <2>4
<1>3. CASE AdvanceReview(r)
  <2>1. tx[r].cached = "verdicted" /\ pc[r] = "advance" /\ kind[r] = "review"
    BY <1>0, <1>3 DEF AdvanceReview, Holds
  <2>2. /\ UNCHANGED <<rows, inputs, outside, aborted>>
        /\ \/ \E code \in Replies : Fail(r, code)
           \/ CasWins(r, "reviewing") /\ Goto(r, "audit") /\ UNCHANGED reply
    BY <1>3, TransitionFacts DEF AdvanceReview, Replies
  <2>3. CASE \E code \in Replies : Fail(r, code)
    BY <2>1, <2>2, <2>3, FailedStep
  <2>4. CASE CasWins(r, "reviewing") /\ Goto(r, "audit") /\ UNCHANGED reply
    BY <2>1, <2>2, <2>4, HopFacts, SwappedStep DEF States
  <2> QED
    BY <2>2, <2>3, <2>4
<1>4. CASE AdvanceDecide(r)
  <2>1. /\ tx[r].cached \in {"analyzed", "verdicted", "reviewing"}
        /\ pc[r] = "advance" /\ kind[r] = "decide"
    BY <1>0, <1>4 DEF AdvanceDecide, Holds
  <2>2. /\ UNCHANGED <<rows, inputs, outside, aborted>>
        /\ \/ \E code \in Replies : Fail(r, code)
           \/ CasWins(r, "decided") /\ Goto(r, "audit") /\ UNCHANGED reply
    BY <1>4, <2>1, TransitionFacts DEF AdvanceDecide, Replies
  <2>3. CASE \E code \in Replies : Fail(r, code)
    BY <2>1, <2>2, <2>3, FailedStep
  <2>4. CASE CasWins(r, "decided") /\ Goto(r, "audit") /\ UNCHANGED reply
    BY <2>1, <2>2, <2>4, HopFacts, SwappedStep DEF States
  <2> QED
    BY <2>2, <2>3, <2>4
<1>5. CASE AdvanceFeedback(r)
  <2> DEFINE target == allowed_transition(tx[r].cached, "feedback.banked")
  <2>1. target # Invalid => target = "decided" /\ Hop(tx[r].cached, target)
    BY TransitionFacts, HopFacts DEF Invalid
  <2>2. /\ pc[r] = "advance" /\ kind[r] = "feedback"
        /\ UNCHANGED <<rows, inputs, outside, aborted>>
        /\ \/ \E code \in Replies : Fail(r, code)
           \/ /\ target # Invalid /\ CasWins(r, target)
              /\ Goto(r, "audit") /\ UNCHANGED reply
    BY <1>5 DEF AdvanceFeedback, Replies
  <2>3. CASE \E code \in Replies : Fail(r, code)
    BY <2>2, <2>3, FailedStep
  <2>4. CASE target # Invalid /\ CasWins(r, target)
             /\ Goto(r, "audit") /\ UNCHANGED reply
    <3>1. CasWins(r, "decided") /\ Hop(tx[r].cached, "decided")
      BY <2>1, <2>4
    <3> QED
      BY <3>1, <2>2, <2>4, SwappedStep DEF States
  <2> QED
    BY <2>2, <2>3, <2>4
<1> QED
  BY <1>1, <1>2, <1>3, <1>4, <1>5

\* A detection's rows are nobody else's business.
LEMMA StoreDetectionStep ==
  ASSUME IInv, NEW r \in Requests, StoreDetection(r)
  PROVE  IInv'
<1>1. PICK res \in Results :
        /\ result' = [result EXCEPT ![r] = res]
        /\ tx' = [tx EXCEPT ![r].detections = (res = "findings")]
  BY DEF StoreDetection
<1>2. PICK found \in BOOLEAN : tx' = [tx EXCEPT ![r].detections = found]
  BY <1>1
<1>3. tx[r] \in Transactions
  BY DEF IInv, TypeOK
<1>4. [tx[r] EXCEPT !.detections = found] \in Transactions
  BY <1>3 DEF Transactions
<1>5. /\ tx' \in [Requests -> Transactions]
      /\ tx'[r] = [tx[r] EXCEPT !.detections = found]
      /\ \A q \in Requests \ {r} : tx'[q] = tx[q]
  BY <1>2, <1>4 DEF IInv, TypeOK
<1>6. /\ tx'[r].state = tx[r].state
      /\ tx'[r].verdict = tx[r].verdict
      /\ tx'[r].feedback = tx[r].feedback
  BY <1>3, <1>5 DEF Transactions
<1>7. PICK next \in {"reload_detection", "commit_detection", "audit_detection"} :
        Goto(r, next) /\ (kind[r] = "capture" => next # "audit_detection")
  BY DEF StoreDetection, AfterDetection
<1>8. TypeOK'
  <2>1. result' \in [Requests -> Results \cup {None}]
    BY <1>1 DEF IInv, TypeOK
  <2>2. pc' \in [Requests -> Places]
    BY <1>7 DEF Goto, IInv, TypeOK, Places
  <2> QED
    BY <1>5, <2>1, <2>2 DEF StoreDetection, IInv, TypeOK, rows, outside
<1>9. Untouched(r) /\ Grows /\ pc[r] # "done"
  BY <1>5, <1>7 DEF StoreDetection, Goto, IInv, TypeOK, rows, outside, Untouched, Grows, Recorded
<1>10. Holds(r)'
  <2>1. Holds(r) /\ UNCHANGED <<kind, scan, feedback>> /\ pc[r] = "detect" /\ pc'[r] = next
    BY <1>7 DEF StoreDetection, Goto, IInv, TypeOK, HandlerHolds, rows
  <2> QED
    BY <1>6, <1>7, <2>1, NoneFacts DEF Holds
<1> QED
  BY <1>6, <1>8, <1>9, <1>10, QuietStep DEF Frame, SameRows, StoreDetection, rows

\* The generator's answer is stored unless the scan has a verdict.
LEMMA StoreVerdictStep ==
  ASSUME IInv, NEW r \in Requests, StoreVerdict(r)
  PROVE  IInv'
<1>1. PICK new \in BOOLEAN :
        new = (verdict = None) /\ tx' = [tx EXCEPT ![r].verdict = new]
  BY DEF StoreVerdict
<1>2. tx[r] \in Transactions
  BY DEF IInv, TypeOK
<1>3. [tx[r] EXCEPT !.verdict = new] \in Transactions
  BY <1>2 DEF Transactions
<1>4. /\ tx' \in [Requests -> Transactions]
      /\ tx'[r] = [tx[r] EXCEPT !.verdict = new]
      /\ \A q \in Requests \ {r} : tx'[q] = tx[q]
  BY <1>1, <1>3 DEF IInv, TypeOK
<1>5. /\ tx'[r].state = tx[r].state
      /\ tx'[r].verdict = new
      /\ tx'[r].feedback = tx[r].feedback
  BY <1>2, <1>4 DEF Transactions
<1>6. PICK next \in {"reload_verdict", "commit_verdict", "audit_verdict"} :
        Goto(r, next) /\ (kind[r] = "capture" => next # "audit_verdict")
  BY DEF StoreVerdict, AfterVerdict
<1>7. TypeOK'
  <2>1. choice' \in [Requests -> Risks \cup Outcomes \cup {None}]
    BY DEF StoreVerdict, IInv, TypeOK
  <2>2. pc' \in [Requests -> Places]
    BY <1>6 DEF Goto, IInv, TypeOK, Places
  <2> QED
    BY <1>4, <2>1, <2>2 DEF StoreVerdict, IInv, TypeOK, rows, outside
<1>8. Untouched(r) /\ Grows /\ pc[r] # "done"
  BY <1>4, <1>6 DEF StoreVerdict, Goto, IInv, TypeOK, rows, outside, Untouched, Grows, Recorded
<1>9. Holds(r)'
  <2>1. Holds(r) /\ UNCHANGED <<kind, scan, feedback>> /\ pc[r] = "verdict" /\ pc'[r] = next
    BY <1>6 DEF StoreVerdict, Goto, IInv, TypeOK, HandlerHolds, rows
  <2> QED
    BY <1>5, <1>6, <2>1, NoneFacts DEF Holds
<1> QED
  BY <1>1, <1>5, <1>7, <1>8, <1>9, InsertStep DEF Frame, SameRows, StoreVerdict, rows

\* The judgement is stored unless the scan has one.
LEMMA StoreFeedbackStep ==
  ASSUME IInv, NEW r \in Requests, StoreFeedback(r)
  PROVE  IInv'
<1>1. PICK new \in BOOLEAN :
        new = (feedback = None) /\ tx' = [tx EXCEPT ![r].feedback = new]
  BY DEF StoreFeedback
<1>2. tx[r] \in Transactions
  BY DEF IInv, TypeOK
<1>3. [tx[r] EXCEPT !.feedback = new] \in Transactions
  BY <1>2 DEF Transactions
<1>4. /\ tx' \in [Requests -> Transactions]
      /\ tx'[r] = [tx[r] EXCEPT !.feedback = new]
      /\ \A q \in Requests \ {r} : tx'[q] = tx[q]
  BY <1>1, <1>3 DEF IInv, TypeOK
<1>5. /\ tx'[r].state = tx[r].state
      /\ tx'[r].cached = tx[r].cached
      /\ tx'[r].verdict = tx[r].verdict
      /\ tx'[r].feedback = new
  BY <1>2, <1>4 DEF Transactions
<1>6. PICK next \in {"advance", "reload_feedback", "audit"} :
        /\ Goto(r, next)
        /\ kind[r] \in {"decide", "feedback"}
        /\ kind[r] = "decide" <=> next = "advance"
  BY DEF StoreFeedback
<1>7. TypeOK'
  <2>1. pc' \in [Requests -> Places]
    BY <1>6 DEF Goto, IInv, TypeOK, Places
  <2> QED
    BY <1>4, <2>1 DEF StoreFeedback, IInv, TypeOK, rows, inputs, outside
<1>8. Untouched(r) /\ Grows /\ pc[r] # "done"
  BY <1>4, <1>6 DEF StoreFeedback, Goto, IInv, TypeOK, rows, inputs, outside, Untouched, Grows,
     Recorded
<1>9. Holds(r)'
  <2>1. Holds(r) /\ UNCHANGED <<kind, scan, feedback>> /\ pc[r] = "store_feedback" /\ pc'[r] = next
    BY <1>6 DEF StoreFeedback, Goto, IInv, TypeOK, HandlerHolds, rows, inputs
  <2> QED
    BY <1>1, <1>5, <1>6, <2>1, NoneFacts DEF Holds
<1> QED
  BY <1>1, <1>5, <1>7, <1>8, <1>9, InsertStep DEF Frame, SameRows, StoreFeedback, rows

\* The three commits.
LEMMA CommitsStep ==
  ASSUME IInv, NEW r \in Requests,
         CommitDetection(r) \/ CommitVerdict(r) \/ Commit(r)
  PROVE  IInv'
<1>1. PICK place \in {"commit_detection", "commit_verdict", "commit"},
           next \in {"audit_detection", "audit_verdict", "done"} :
        CommitStep(r, place, next) /\ (place = "commit" <=> next = "done")
  BY DEF CommitDetection, CommitVerdict, Commit
<1>2. /\ pc[r] = place /\ pc'[r] = next /\ CommitRows(r)
      /\ UNCHANGED <<inputs, outside, reply, aborted>>
  BY <1>1 DEF CommitStep, Goto, IInv, TypeOK
<1>3. Holds(r)
  BY DEF IInv, HandlerHolds
<1>4. tx[r].state # None => tx[r].state \in States
  BY DEF IInv, TypeOK, Transactions
<1>5. tx'[r] = NoTx /\ tx' \in [Requests -> Transactions]
  BY <1>2, NothingOf DEF CommitRows, IInv, TypeOK
<1>6. TypeOK'
  <2>1. pc' \in [Requests -> Places]
    BY <1>1 DEF CommitStep, Goto, IInv, TypeOK, Places
  <2> QED
    BY <1>2, <1>4, <1>5, <2>1 DEF CommitRows, IInv, TypeOK, inputs, outside
<1>7. Untouched(r) /\ Grows /\ pc[r] # "done"
  <2>1. scan # Absent => scan' # Absent
    BY <1>2, <1>4 DEF CommitRows, States, Absent
  <2>2. feedback # None => feedback' # None
    BY <1>2, NoneAssumption DEF CommitRows
  <2>3. \A x : Recorded(x) => Recorded(x)'
    BY <1>2 DEF outside, Recorded
  <2>4. Untouched(r)
    BY <1>1, <1>2 DEF CommitStep, CommitRows, Goto, IInv, TypeOK, inputs, Untouched
  <2> QED
    BY <1>2, <2>1, <2>2, <2>3, <2>4 DEF Grows
<1>8. Holds(r)'
  BY <1>1, <1>2, <1>3, <1>5, <1>7, NothingOf, NoneFacts DEF Holds, Grows, inputs
<1> QED
  BY <1>1, <1>2, <1>3, <1>6, <1>7, <1>8, CommittedStep DEF Frame, Holds, inputs, outside

\* What a handler does outside its transaction, and the ways it is cut short.
LEMMA OutsideStep ==
  ASSUME IInv, NEW r \in Requests,
         BankLabels(r) \/ Finish(r) \/ RejectVerdict(r) \/ Abort(r)
  PROVE  IInv'
<1>0. Holds(r)
  BY DEF IInv, HandlerHolds
<1>1. CASE BankLabels(r)
  <2>1. TypeOK'
    BY <1>1 DEF BankLabels, Goto, IInv, TypeOK, Places, rows, inputs
  <2>2. Untouched(r) /\ Grows /\ pc[r] # "done"
    BY <1>1 DEF BankLabels, Goto, IInv, TypeOK, rows, inputs, Untouched, Grows, Recorded
  <2>3. Holds(r)'
    BY <1>0, <1>1, NoneFacts DEF BankLabels, Goto, IInv, TypeOK, Holds, rows, inputs
  <2> QED
    BY <1>1, <2>1, <2>2, <2>3, QuietStep DEF Frame, SameRows, BankLabels, rows
<1>2. CASE Finish(r)
  <2>0. PICK next \in {"done", "commit"} :
          Goto(r, next) /\ (kind[r] = "capture" <=> next = "done")
    BY <1>2 DEF Finish
  <2>1. TypeOK'
    <3>1. pc' \in [Requests -> Places]
      BY <2>0 DEF Goto, IInv, TypeOK, Places
    <3> QED
      BY <1>2, <3>1 DEF Finish, IInv, TypeOK, Replies, rows, inputs
  <2>2. Untouched(r) /\ Grows /\ pc[r] # "done"
    BY <1>2, <2>0 DEF Finish, Goto, IInv, TypeOK, rows, inputs, Untouched, Grows, Recorded
  <2>3. Holds(r)'
    <3>1. /\ pc[r] = "finish" /\ pc'[r] = next
          /\ UNCHANGED <<scan, feedback, kind, tx, audit>>
      BY <1>2, <2>0 DEF Finish, Goto, IInv, TypeOK, rows, inputs
    <3>2. Recorded(DecisionEvent(r)) => Recorded(DecisionEvent(r))'
      BY <3>1 DEF Recorded, DecisionEvent, Event, OperatorEvent
    <3> QED
      BY <1>0, <2>0, <3>1, <3>2, NoneFacts DEF Holds
  <2> QED
    BY <1>2, <2>1, <2>2, <2>3, QuietStep DEF Frame, SameRows, Finish, rows
<1>3. CASE RejectVerdict(r)
  <2>1. /\ audit' \in Seq([by : Requests, event : AuditTypes])
        /\ \A x : Recorded(x) => Recorded(x)'
    BY <1>3, RecordFacts DEF RejectVerdict, AuditTypes, IInv
  <2>2. tx'[r] = NoTx /\ pc'[r] = "done" /\ tx' \in [Requests -> Transactions]
    BY <1>3, NothingOf DEF RejectVerdict, Fail, Goto, IInv, TypeOK
  <2>3. TypeOK'
    BY <1>3, <2>1, <2>2 DEF RejectVerdict, Fail, Goto, IInv, TypeOK, Places, Replies, rows, inputs
  <2>4. Untouched(r) /\ Grows /\ pc[r] # "done"
    BY <1>3, <2>1 DEF RejectVerdict, Fail, Goto, IInv, TypeOK, rows, inputs, Untouched, Grows
  <2>5. Holds(r)'
    BY <2>2, NothingOf, NoneFacts DEF Holds
  <2> QED
    BY <1>3, <2>2, <2>3, <2>4, <2>5, QuietStep DEF Frame, SameRows, RejectVerdict, rows
<1>4. CASE Abort(r)
  <2>1. tx'[r] = NoTx /\ pc'[r] = "done" /\ tx' \in [Requests -> Transactions]
    BY <1>4, NothingOf DEF Abort, Goto, IInv, TypeOK
  <2>2. TypeOK'
    <3>1. reply' \in [Requests -> Replies]
      BY <1>4 DEF Abort, IInv, TypeOK, Replies
    <3> QED
      BY <1>4, <2>1, <3>1 DEF Abort, Goto, IInv, TypeOK, Places, rows, inputs, outside
  <2>3. Untouched(r) /\ Grows /\ pc[r] # "done"
    BY <1>4 DEF Abort, Goto, IInv, TypeOK, rows, inputs, outside, Untouched, Grows, Recorded
  <2>4. Holds(r)'
    BY <2>1, NothingOf, NoneFacts DEF Holds
  <2> QED
    BY <1>4, <2>1, <2>2, <2>3, <2>4, QuietStep DEF Frame, SameRows, Abort, rows
<1> QED
  BY <1>1, <1>2, <1>3, <1>4

-----------------------------------------------------------------------------

\* The invariant holds at the start.
LEMMA InitInv == Init => IInv
<1> SUFFICES ASSUME Init PROVE IInv
  OBVIOUS
<1>1. TypeOK
  BY NothingOf DEF Init, TypeOK, Places, Replies
<1>2. LockDiscipline /\ OneRowPerScan
  BY NothingOf DEF Init, LockDiscipline, OneRowPerScan
<1>3. HandlerHolds
  BY NothingOf, NoneFacts DEF Init, HandlerHolds, Holds
<1>4. DecidedIsRecorded
  BY DEF Init, DecidedIsRecorded, Absent
<1> QED
  BY <1>1, <1>2, <1>3, <1>4 DEF IInv

\* Every step preserves the invariant.
LEMMA NextInv == IInv /\ [Next]_vars => IInv'
<1> SUFFICES ASSUME IInv, [Next]_vars PROVE IInv'
  OBVIOUS
<1>1. CASE UNCHANGED vars
  BY <1>1 DEF vars, rows, inputs, outside, IInv, TypeOK, LockDiscipline, OneRowPerScan,
     HandlerHolds, Holds, DecidedIsRecorded, Recorded, DecisionEvent, Event, OperatorEvent,
     RowFree
<1>2. CASE Next
  <2> PICK r \in Requests : Arrive(r) \/ Work(r) \/ Abort(r)
    BY <1>2 DEF Next
  <2>1. CASE Arrive(r)
    BY <2>1, ArriveStep
  <2>2. CASE Work(r)
    BY <2>2, AuditedStep, StoreDetectionStep, ReloadStep, AdvancedStep, CommitsStep,
       StoreVerdictStep, OutsideStep, StoreFeedbackStep DEF Work
  <2>3. CASE Abort(r)
    BY <2>3, OutsideStep
  <2> QED
    BY <2>1, <2>2, <2>3
<1> QED
  BY <1>1, <1>2

\* The state space, the locks, the rows and the handlers of every reachable
\* state, for any number of requests, outcomes and crashes.
THEOREM Invariance == Spec => []IInv
BY InitInv, NextInv, PTL DEF Spec

\* Every variable keeps its type.
THEOREM TypeCorrect == Spec => []TypeOK
BY Invariance, PTL DEF IInv

\* One writer of the scan, one inserter of its verdict and of its feedback.
THEOREM LocksAreExclusive == Spec => [](LockDiscipline /\ OneRowPerScan)
<1>1. IInv => LockDiscipline /\ OneRowPerScan
  BY DEF IInv
<1> QED
  BY <1>1, Invariance, PTL

\* A decided scan has a judgement and its decision is in the audit trail.
THEOREM DecisionsAreRecorded == Spec => []DecidedIsRecorded
<1>1. IInv => DecidedIsRecorded
  BY DEF IInv
<1> QED
  BY <1>1, Invariance, PTL

\* Only the capture and the commits touch what the archive shows.
LEMMA RowsChange ==
  ASSUME Next
  PROVE  \/ UNCHANGED <<scan, feedback, decider>>
         \/ \E r \in Requests : Capture(r) \/ CommitRows(r)
<1> PICK r \in Requests : Arrive(r) \/ Work(r) \/ Abort(r)
  BY DEF Next
<1>1. CASE Arrive(r)
  BY <1>1 DEF Arrive, Refuse, Detect, Verdict, Feedback, Review, DecideScan, rows
<1>2. CASE Work(r)
  <2>1. CASE CommitDetection(r) \/ CommitVerdict(r) \/ Commit(r)
    BY <2>1 DEF CommitDetection, CommitVerdict, Commit, CommitStep
  <2>2. CASE AuditCapture(r) \/ AuditDetection(r) \/ AuditVerdict(r) \/ AuditOperator(r)
    BY <2>2 DEF AuditCapture, AuditDetection, AuditVerdict, AuditOperator, AuditStep, rows
  <2>3. CASE ReloadDetection(r) \/ ReloadVerdict(r) \/ ReloadFeedback(r)
    BY <2>3 DEF ReloadDetection, ReloadVerdict, ReloadFeedback, Reload, rows
  <2>4. CASE \/ AdvanceDetection(r) \/ AdvanceVerdict(r) \/ AdvanceReview(r)
             \/ AdvanceDecide(r) \/ AdvanceFeedback(r)
    BY <2>4 DEF AdvanceDetection, AdvanceVerdict, AdvanceReview, AdvanceDecide, AdvanceFeedback,
       rows
  <2>5. CASE \/ StoreDetection(r) \/ StoreVerdict(r) \/ RejectVerdict(r)
             \/ BankLabels(r) \/ StoreFeedback(r) \/ Finish(r)
    BY <2>5 DEF StoreDetection, StoreVerdict, RejectVerdict, BankLabels, StoreFeedback, Finish,
       rows
  <2> QED
    BY <1>2, <2>1, <2>2, <2>3, <2>4, <2>5 DEF Work
<1>3. CASE Abort(r)
  BY <1>3 DEF Abort, rows
<1> QED
  BY <1>1, <1>2, <1>3

\* A decided scan stays decided, by the same request and with the same
\* judgement: no open transaction has written a state (a decided scan has no
\* way on) and none has inserted a judgement (there is one).
THEOREM DecidedForGood == Spec => DecisionIsFinal
<1>1. ASSUME IInv, [Next]_vars
      PROVE  [scan = "decided" => UNCHANGED <<scan, decider, feedback>>]_vars
  <2> SUFFICES ASSUME scan = "decided", Next PROVE UNCHANGED <<scan, decider, feedback>>
    BY <1>1 DEF vars, rows
  <2>1. feedback # None
    BY <1>1 DEF IInv, DecidedIsRecorded
  <2>2. \A r \in Requests : tx[r].state = None /\ ~tx[r].feedback
    BY <1>1, <2>1, HopFacts DEF IInv, LockDiscipline, OneRowPerScan
  <2>3. CASE \E r \in Requests : CommitRows(r)
    BY <2>2, <2>3, NoneFacts DEF CommitRows
  <2>4. CASE \E r \in Requests : Capture(r)
    BY <2>4 DEF Capture, Absent
  <2> QED
    BY <2>3, <2>4, RowsChange
<1> QED
  BY <1>1, Invariance, PTL DEF Spec, DecisionIsFinal

\* The archive's transition table is the lifecycle's.
LEMMA SameHop == \A s, t : Archive!Hop(s, t) <=> Hop(s, t)
BY DEF Archive!Hop, Archive!Hops, Archive!Edges, Archive!ALLOWED, Archive!States, Archive!Events,
   Hop, Hops, Edges, ALLOWED, States, Events

\* The lifecycle implements the archive: seen without transactions the scan
\* appears once, moves along the table, and is decided once.
THEOREM Refinement == Spec => ImplementsArchive
<1>1. Init => Archive!ArchiveInit
  BY DEF Init, Archive!ArchiveInit, Archive!Absent, Absent
<1>2. ASSUME IInv, [Next]_vars PROVE [Archive!ArchiveNext]_(Archive!archive)
  <2>1. CASE UNCHANGED <<scan, decider>>
    BY <2>1 DEF Archive!archive
  <2>2. CASE \E r \in Requests : Capture(r)
    BY <2>2 DEF Capture, Archive!ArchiveNext, Archive!Appear, Archive!Absent, Absent
  <2>3. ASSUME NEW r \in Requests, CommitRows(r), tx[r].state # None
        PROVE  Archive!ArchiveNext
    <3>1. Hop(scan, tx[r].state) /\ scan' = tx[r].state
      BY <1>2, <2>3 DEF IInv, LockDiscipline, CommitRows
    <3>2. CASE tx[r].state = "decided"
      BY <2>3, <3>1, <3>2, SameHop DEF CommitRows, Archive!ArchiveNext, Archive!Decide
    <3>3. CASE tx[r].state # "decided"
      <4>1. /\ scan' \in States \ {scan, "decided"}
            /\ Archive!Hop(scan, scan')
            /\ UNCHANGED decider
        BY <2>3, <3>1, <3>3, HopFacts, SameHop DEF CommitRows
      <4> QED
        BY <4>1 DEF Archive!ArchiveNext, Archive!Move, Archive!States, States
    <3> QED
      BY <3>2, <3>3
  <2>4. CASE \E r \in Requests : CommitRows(r) /\ tx[r].state = None
    BY <2>4, NoneFacts DEF CommitRows, Archive!archive
  <2> QED
    BY <1>2, <2>1, <2>2, <2>3, <2>4, RowsChange DEF vars, rows
<1> QED
  BY <1>1, <1>2, Invariance, PTL DEF Spec, ImplementsArchive, Archive!ArchiveSpec
-----------------------------------------------------------------------------
(* What a request has left behind when it answers: the second inductive    *)
(* invariant, relative to IInv.                                            *)

Generating == {"captured", "detect", "reload_detection", "advance_detection",
               "commit_detection", "audit_detection", "verdict", "reload_verdict",
               "advance_verdict", "commit_verdict", "audit_verdict"}

Judgements == {"scan.decided", "feedback.banked"}

\* Where the handler of r stands says which endpoint it serves, and what a
\* deciding or reviewing request has written by then.
Stands(r) ==
  /\ pc[r] = "idle" => kind[r] = None
  /\ pc[r] \in Generating => kind[r] \in {"capture", "detect", "verdict"}
  /\ pc[r] \in {"commit_detection", "commit_verdict"} => kind[r] = "capture"
  /\ pc[r] = "commit" => reply[r] = "ok"
  /\ kind[r] = "decide" /\ pc[r] \in {"audit", "finish", "commit"}
       => tx[r].state = "decided"
  /\ kind[r] = "review" /\ pc[r] = "audit" => tx[r].state = "reviewing"
  /\ kind[r] = "decide" /\ pc[r] = "done" /\ reply[r] = "ok" /\ r \notin aborted
       => decider = r

\* A committed row names the request.
Landed(r) == r \in {riskFrom, verdict, feedback, decider} \cup detections

\* No scan was opened after r recorded its decision.
OpenedBefore(r) ==
  \A i, j \in DOMAIN audit :
     audit[i] = DecisionEvent(r) /\ audit[j].event = "scan.opened" => j < i

\* What the rows and the trail hold of r.
Left(r) ==
  /\ Landed(r) /\ kind[r] # "capture" => pc[r] = "done" /\ reply[r] = "ok"
  /\ decider = r => scan = "decided"
  /\ \A i \in DOMAIN audit :
       audit[i].by = r /\ audit[i].event \in Judgements
         => pc[r] \in {"finish", "commit", "done"}
  /\ tx[r].state = "decided" \/ decider = r => OpenedBefore(r)

AInv == \A r \in Requests : Stands(r) /\ Left(r)
\* A step of request r, seen by the others.
Turn(r) ==
  /\ pc[r] # "done"
  /\ \A q \in Requests \ {r} :
       /\ UNCHANGED <<tx[q], pc[q], kind[q], reply[q]>>
       /\ q \in aborted => q \in aborted'
  /\ pc[r] = "idle" \/ kind'[r] = kind[r]
  /\ pc[r] \in {"finish", "commit"} => pc'[r] \in {"commit", "done"}

\* What it does to the rows: nothing, the capture of a new scan, or a commit.
RowsTurn(r) ==
  \/ /\ UNCHANGED <<riskFrom, verdict, feedback, detections, decider>>
     /\ scan' = scan \/ scan = Absent
  \/ /\ CommitRows(r)
     /\ kind'[r] = kind[r]
     /\ \/ kind[r] = "capture"
        \/ pc[r] = "commit" /\ pc'[r] = "done" /\ reply'[r] = reply[r]

\* What it does to the trail: nothing, or one event; scan.opened only while
\* it holds the row it moves to REVIEWING, a judgement only at its audit.
TrailTurn(r) ==
  \/ UNCHANGED audit
  \/ \E e \in AuditTypes :
       /\ Record(r, e)
       /\ e = "scan.opened" => tx[r].state = "reviewing"
       /\ e \in Judgements => pc[r] = "audit" /\ pc'[r] = "finish"

\* A transaction comes to decide the scan only in its compare-and-swap.
SwapTurn(r) ==
  tx'[r].state = "decided" =>
    tx[r].state = "decided" \/ (pc[r] = "advance" /\ UNCHANGED audit)

\* The decider of a scan that is not decided is nobody.
LEMMA DecidedTogether ==
  ASSUME IInv, NEW r \in Requests, RowsTurn(r),
         NEW q \in Requests, decider = q => scan = "decided", decider' = q
  PROVE  scan' = "decided"
<1>1. CASE CommitRows(r)
  <2>1. CASE tx[r].state = "decided"
    BY <1>1, <2>1, NoneFacts DEF CommitRows
  <2>2. CASE tx[r].state # "decided"
    <3>1. decider = q /\ scan = "decided"
      BY <1>1, <2>2 DEF CommitRows
    <3>2. tx[r].state = None
      BY <3>1, HopFacts DEF IInv, LockDiscipline
    <3> QED
      BY <1>1, <3>1, <3>2 DEF CommitRows
  <2> QED
    BY <2>1, <2>2
<1>2. CASE UNCHANGED decider /\ (scan' = scan \/ scan = Absent)
  BY <1>2 DEF Absent
<1> QED
  BY <1>1, <1>2 DEF RowsTurn

\* Nobody else can slip scan.opened in behind a decision: its request would
\* have to hold the row of a scan that is decided or about to be.
LEMMA OpenedStays ==
  ASSUME IInv, NEW r \in Requests, TrailTurn(r),
         NEW q \in Requests, OpenedBefore(q), DecisionEvent(q)' = DecisionEvent(q),
         tx[q].state = "decided" \/ scan = "decided"
  PROVE  OpenedBefore(q)'
<1>1. CASE UNCHANGED audit
  BY <1>1 DEF OpenedBefore
<1>2. ASSUME NEW e \in AuditTypes, Record(r, e), e = "scan.opened" => tx[r].state = "reviewing"
      PROVE  OpenedBefore(q)'
  <2>1. e # "scan.opened"
    BY <1>2, HopFacts, NoneFacts DEF IInv, LockDiscipline
  <2>2. Event(r, e).event # "scan.opened"
    BY <2>1 DEF Event
  <2>3. /\ Len(audit) \in Nat /\ DOMAIN audit = 1 .. Len(audit)
        /\ DOMAIN audit' = 1 .. (Len(audit) + 1)
        /\ \A i \in 1 .. Len(audit) : audit'[i] = audit[i]
        /\ audit'[Len(audit) + 1] = Event(r, e)
    BY <1>2 DEF IInv, TypeOK, Record, Event
  <2>4. SUFFICES ASSUME NEW i \in DOMAIN audit', NEW j \in DOMAIN audit',
                        audit'[i] = DecisionEvent(q), audit'[j].event = "scan.opened"
                 PROVE  j < i
    BY DEF OpenedBefore
  <2>5. j \in 1 .. Len(audit)
    BY <2>2, <2>3, <2>4
  <2> QED
    BY <2>3, <2>4, <2>5 DEF OpenedBefore
<1> QED
  BY <1>1, <1>2 DEF TrailTurn

\* A step of r that its own Stands describes preserves the whole invariant.
LEMMA TurnStep ==
  ASSUME IInv, IInv', AInv, NEW r \in Requests,
         Turn(r), RowsTurn(r), TrailTurn(r), SwapTurn(r), Stands(r)'
  PROVE  AInv'
<1> SUFFICES ASSUME NEW q \in Requests PROVE Stands(q)' /\ Left(q)'
  BY DEF AInv
<1>0. Stands(q) /\ Left(q)
  BY DEF AInv
<1>1. q # r => UNCHANGED <<tx[q], pc[q], kind[q], reply[q]>> /\ (q \in aborted => q \in aborted')
  BY DEF Turn
<1>2. decider' = q => scan' = "decided"
  BY <1>0, DecidedTogether DEF Left
<1>3. ASSUME q # r, decider = q PROVE decider' = q
  <2>1. CASE CommitRows(r)
    <3>1. tx[r].state # "decided"
      BY <1>0, <1>3, HopFacts, NoneFacts DEF Left, IInv, LockDiscipline
    <3> QED
      BY <1>3, <2>1, <3>1 DEF CommitRows
  <2> QED
    BY <1>3, <2>1 DEF RowsTurn
<1>4. Stands(q)'
  BY <1>0, <1>1, <1>3 DEF Stands
<1>5. Landed(q)' /\ kind'[q] # "capture" => pc'[q] = "done" /\ reply'[q] = "ok"
  <2>1. CASE q # r
    <3>1. Landed(q)' => Landed(q)
      BY <2>1 DEF RowsTurn, CommitRows, Landed
    <3> QED
      BY <1>0, <1>1, <2>1, <3>1 DEF Left
  <2>2. CASE q = r
    <3>1. CASE CommitRows(r) /\ kind'[r] = kind[r]
      BY <1>0, <2>2, <3>1 DEF RowsTurn, Stands, Left, Landed, Turn
    <3>2. CASE UNCHANGED <<riskFrom, verdict, feedback, detections, decider>>
      <4>1. pc[r] = "idle" => kind[r] # "capture"
        BY <1>0, <2>2, NoneFacts DEF Stands, Kinds
      <4> QED
        BY <1>0, <2>2, <3>2, <4>1 DEF Left, Landed, Turn
    <3> QED
      BY <2>2, <3>1, <3>2 DEF RowsTurn
  <2> QED
    BY <2>1, <2>2
<1>6. ASSUME NEW i \in DOMAIN audit', audit'[i].by = q, audit'[i].event \in Judgements
      PROVE  pc'[q] \in {"finish", "commit", "done"}
  <2>1. i \in DOMAIN audit /\ audit'[i] = audit[i] => pc'[q] \in {"finish", "commit", "done"}
    BY <1>0, <1>1, <1>6 DEF Left, Turn
  <2>2. ASSUME NEW e \in AuditTypes, Record(r, e),
               e \in Judgements => pc[r] = "audit" /\ pc'[r] = "finish"
        PROVE  pc'[q] \in {"finish", "commit", "done"}
    <3>1. /\ Len(audit) \in Nat /\ DOMAIN audit = 1 .. Len(audit)
          /\ DOMAIN audit' = 1 .. (Len(audit) + 1)
          /\ \A k \in 1 .. Len(audit) : audit'[k] = audit[k]
          /\ audit'[Len(audit) + 1] = Event(r, e)
      BY <2>2 DEF IInv, TypeOK, Record, Event
    <3>2. CASE i = Len(audit) + 1
      BY <1>6, <2>2, <3>1, <3>2 DEF Event
    <3> QED
      BY <1>6, <2>1, <3>1, <3>2
  <2> QED
    BY <1>6, <2>1, <2>2 DEF TrailTurn
<1>7. ASSUME tx'[q].state = "decided" \/ decider' = q PROVE OpenedBefore(q)'
  <2>1. tx[q].state = "decided" \/ decider = q \/ tx'[q].state = "decided"
    BY <1>7 DEF RowsTurn, CommitRows
  <2>2. CASE tx[q].state = "decided" \/ decider = q
    <3>1. OpenedBefore(q) /\ (tx[q].state = "decided" \/ scan = "decided")
      BY <1>0, <2>2 DEF Left
    <3>2. pc[q] # "idle"
      BY <2>2, <1>0, NothingOf, NoneFacts DEF Left, Landed, IInv, HandlerHolds, Holds, Stands, Kinds
    <3>3. DecisionEvent(q)' = DecisionEvent(q)
      BY <1>1, <3>2 DEF Turn, DecisionEvent, Event, OperatorEvent
    <3> QED
      BY <3>1, <3>3, OpenedStays
  <2>3. CASE tx'[q].state = "decided" /\ tx[q].state # "decided"
    <3>1. q = r /\ pc[r] = "advance" /\ UNCHANGED audit
      BY <1>1, <2>3 DEF SwapTurn
    <3>2. DecisionEvent(q)'.by = q /\ DecisionEvent(q)'.event \in Judgements
      BY <2>3 DEF IInv, HandlerHolds, Holds, DecisionEvent, Event, OperatorEvent, Judgements
    <3> QED
      BY <1>0, <3>1, <3>2 DEF Left, OpenedBefore
  <2> QED
    BY <2>1, <2>2, <2>3
<1> QED
  BY <1>2, <1>4, <1>5, <1>6, <1>7 DEF Left
-----------------------------------------------------------------------------

\* A request that arrives has left nothing yet.
LEMMA ArriveTurn ==
  ASSUME IInv, IInv', AInv, NEW r \in Requests, Arrive(r)
  PROVE  AInv'
<1>0. Stands(r)
  BY DEF AInv
<1>1. CASE Capture(r)
  BY <1>0, <1>1, TurnStep DEF Capture, Begin, Goto, IInv, TypeOK, Turn, RowsTurn, TrailTurn, SwapTurn,
     Stands, Generating, outside
<1>2. CASE Refuse(r)
  BY <1>0, <1>2, TurnStep DEF Refuse, Begin, Goto, IInv, TypeOK, Turn, RowsTurn, TrailTurn, SwapTurn,
     Stands, Generating, rows, outside
<1>3. CASE Detect(r)
  <2>1. TrailTurn(r)
    BY <1>3 DEF Detect, TrailTurn, AuditTypes, Judgements
  <2> QED
    BY <1>0, <1>3, <2>1, TurnStep DEF Detect, Begin, Goto, IInv, TypeOK, Turn, RowsTurn, SwapTurn,
       Stands, Generating, rows
<1>4. CASE Verdict(r)
  <2>1. TrailTurn(r)
    BY <1>4 DEF Verdict, TrailTurn, AuditTypes, Judgements
  <2> QED
    BY <1>0, <1>4, <2>1, TurnStep DEF Verdict, Begin, Goto, IInv, TypeOK, Turn, RowsTurn, SwapTurn,
       Stands, Generating, rows
<1>5. CASE Feedback(r)
  <2>1. TrailTurn(r)
    BY <1>5 DEF Feedback, TrailTurn, AuditTypes, Judgements
  <2> QED
    BY <1>0, <1>5, <2>1, TurnStep DEF Feedback, Begin, Goto, IInv, TypeOK, Turn, RowsTurn, SwapTurn,
       Stands, Generating, rows
<1>6. CASE Review(r)
  <2>1. /\ tx'[r].state = tx[r].state
        /\ \A q \in Requests \ {r} : tx'[q] = tx[q]
    BY <1>6, ReadFacts DEF Review, IInv
  <2> QED
    BY <1>0, <1>6, <2>1, TurnStep DEF Review, Begin, Goto, IInv, TypeOK, Turn, RowsTurn, TrailTurn,
       SwapTurn, Stands, Generating, rows, outside
<1>7. CASE DecideScan(r)
  <2>1. /\ tx'[r].state = tx[r].state
        /\ \A q \in Requests \ {r} : tx'[q] = tx[q]
    BY <1>7, ReadFacts DEF DecideScan, IInv
  <2>2. PICK place \in {"store_feedback", "done"} :
          /\ Begin(r, "decide", place)
          /\ IF place = "done" THEN reply' = [reply EXCEPT ![r] = "conflict"] ELSE UNCHANGED reply
    BY <1>7 DEF DecideScan
  <2>3. UNCHANGED <<rows, outside, aborted>>
    BY <1>7 DEF DecideScan
  <2> QED
    BY <1>0, <2>1, <2>2, <2>3, TurnStep DEF Begin, Goto, IInv, TypeOK, Turn, RowsTurn, TrailTurn,
       SwapTurn, Stands, Generating, rows, outside
<1> QED
  BY <1>1, <1>2, <1>3, <1>4, <1>5, <1>6, <1>7 DEF Arrive

\* The audit events of a handler.
LEMMA AuditTurn ==
  ASSUME IInv, IInv', AInv, NEW r \in Requests,
         AuditCapture(r) \/ AuditDetection(r) \/ AuditVerdict(r) \/ AuditOperator(r)
  PROVE  AInv'
<1>0. Stands(r) /\ Holds(r)
  BY DEF AInv, IInv, HandlerHolds
<1>1. CASE AuditOperator(r)
  <2>1. /\ OperatorEvent(kind[r]) \in AuditTypes
        /\ OperatorEvent(kind[r]) = "scan.opened" => kind[r] = "review"
    BY DEF OperatorEvent, AuditTypes
  <2>2. TrailTurn(r)
    BY <1>0, <1>1, <2>1 DEF AuditOperator, AuditStep, Goto, IInv, TypeOK, TrailTurn, Stands
  <2> QED
    BY <1>0, <1>1, <2>2, TurnStep DEF AuditOperator, AuditStep, Goto, IInv, TypeOK, Turn, RowsTurn,
       SwapTurn, Stands, Generating, rows, inputs
<1>2. CASE AuditCapture(r) \/ AuditDetection(r) \/ AuditVerdict(r)
  <2>1. PICK place \in {"captured", "audit_detection", "audit_verdict"},
             e \in AuditTypes \ (Judgements \cup {"scan.opened"}),
             next \in {"detect", "verdict", "finish"} :
          AuditStep(r, place, e, next)
    BY <1>2 DEF AuditCapture, AuditDetection, AuditVerdict, AuditTypes, Judgements
  <2>2. TrailTurn(r)
    BY <2>1 DEF AuditStep, TrailTurn
  <2> QED
    BY <1>0, <2>1, <2>2, TurnStep DEF AuditStep, Goto, IInv, TypeOK, Turn, RowsTurn, SwapTurn,
       Stands, Generating, rows, inputs
<1> QED
  BY <1>1, <1>2

\* What a handler reads and inserts in its transaction.
LEMMA StoreTurn ==
  ASSUME IInv, IInv', AInv, NEW r \in Requests,
         \/ StoreDetection(r) \/ StoreVerdict(r) \/ StoreFeedback(r) \/ BankLabels(r)
         \/ ReloadDetection(r) \/ ReloadVerdict(r) \/ ReloadFeedback(r)
  PROVE  AInv'
<1>0. Stands(r) /\ Holds(r)
  BY DEF AInv, IInv, HandlerHolds
<1>1. /\ tx'[r].state = tx[r].state
      /\ \A q \in Requests \ {r} : tx'[q] = tx[q]
  <2>1. tx[r] \in Transactions /\ tx \in [Requests -> Transactions]
    BY DEF IInv, TypeOK
  <2>2. CASE StoreDetection(r)
    <3>1. PICK found : tx' = [tx EXCEPT ![r].detections = found]
      BY <2>2 DEF StoreDetection
    <3> QED
      BY <2>1, <3>1 DEF Transactions
  <2>3. CASE StoreVerdict(r)
    <3>1. PICK new : tx' = [tx EXCEPT ![r].verdict = new]
      BY <2>3 DEF StoreVerdict
    <3> QED
      BY <2>1, <3>1 DEF Transactions
  <2>4. CASE StoreFeedback(r)
    <3>1. PICK new : tx' = [tx EXCEPT ![r].feedback = new]
      BY <2>4 DEF StoreFeedback
    <3> QED
      BY <2>1, <3>1 DEF Transactions
  <2>5. CASE BankLabels(r)
    BY <2>5 DEF BankLabels
  <2>6. CASE ReloadDetection(r) \/ ReloadVerdict(r) \/ ReloadFeedback(r)
    <3>1. PICK now : tx' = [tx EXCEPT ![r].cached = now]
      BY <2>6 DEF ReloadDetection, ReloadVerdict, ReloadFeedback, Reload
    <3> QED
      BY <2>1, <3>1 DEF Transactions
  <2> QED
    BY <2>2, <2>3, <2>4, <2>5, <2>6
<1>2. /\ UNCHANGED <<rows, audit, kind, reply, aborted>>
      /\ pc[r] \in {"detect", "verdict", "store_feedback", "bank_labels", "reload_detection",
                    "reload_verdict", "reload_feedback"}
  BY DEF StoreDetection, StoreVerdict, StoreFeedback, BankLabels, ReloadDetection, ReloadVerdict,
     ReloadFeedback, Reload, inputs, outside
<1>3. PICK next \in Places \ {"idle", "commit", "finish", "done"} :
        /\ Goto(r, next)
        /\ next \in Generating => pc[r] \in Generating
        /\ next \in {"commit_detection", "commit_verdict"} => kind[r] = "capture"
        /\ next = "audit" => kind[r] = "feedback"
  <2>1. CASE StoreDetection(r)
    BY <2>1 DEF StoreDetection, AfterDetection, Places, Generating
  <2>2. CASE StoreVerdict(r)
    BY <2>2 DEF StoreVerdict, AfterVerdict, Places, Generating
  <2>3. CASE StoreFeedback(r)
    BY <2>3 DEF StoreFeedback, Places, Generating
  <2>4. CASE BankLabels(r)
    BY <2>4 DEF BankLabels, Places, Generating
  <2>5. CASE ReloadDetection(r) \/ ReloadVerdict(r) \/ ReloadFeedback(r)
    BY <2>5 DEF ReloadDetection, ReloadVerdict, ReloadFeedback, Reload, Places, Generating
  <2> QED
    BY <2>1, <2>2, <2>3, <2>4, <2>5
<1>4. Turn(r) /\ RowsTurn(r) /\ TrailTurn(r) /\ SwapTurn(r)
  BY <1>1, <1>2, <1>3 DEF Goto, IInv, TypeOK, Turn, RowsTurn, TrailTurn, SwapTurn, rows
<1>5. Stands(r)'
  <2>1. pc'[r] = next /\ pc[r] # "idle"
    BY <1>2, <1>3 DEF Goto, IInv, TypeOK
  <2> QED
    BY <1>0, <1>1, <1>2, <1>3, <2>1 DEF Stands, Generating, rows
<1> QED
  BY <1>4, <1>5, TurnStep

\* A compare-and-swap that wins goes on, any other outcome is answered with
\* an error.
LEMMA SwapOrFail ==
  ASSUME IInv, NEW r \in Requests,
         \/ AdvanceDetection(r) \/ AdvanceVerdict(r)
         \/ AdvanceReview(r) \/ AdvanceDecide(r) \/ AdvanceFeedback(r)
  PROVE  /\ UNCHANGED <<rows, audit, kind, aborted>>
         /\ \/ \E code \in Replies \ {"none", "ok"} : Fail(r, code)
            \/ /\ UNCHANGED reply
               /\ \E target :
                    /\ tx' = [tx EXCEPT ![r].state = target]
                    /\ \/ /\ target # "decided" /\ pc[r] \in Generating
                          /\ \/ Goto(r, "audit_detection") \/ Goto(r, "audit_verdict")
                             \/ kind[r] = "capture" /\
                                (Goto(r, "commit_detection") \/ Goto(r, "commit_verdict"))
                       \/ /\ pc[r] = "advance" /\ Goto(r, "audit")
                          /\ \/ kind[r] = "review" /\ target = "reviewing"
                             \/ kind[r] = "decide" /\ target = "decided"
                             \/ kind[r] = "feedback"
<1>1. CASE AdvanceDetection(r)
  BY <1>1, TransitionFacts DEF AdvanceDetection, CasWins, AfterDetection, Replies, Generating, inputs, outside, Invalid
<1>2. CASE AdvanceVerdict(r)
  BY <1>2, TransitionFacts DEF AdvanceVerdict, CasWins, AfterVerdict, Replies, Generating, inputs, outside, Invalid
<1>3. CASE AdvanceReview(r)
  BY <1>3, TransitionFacts DEF AdvanceReview, CasWins, Replies, inputs, outside
<1>4. CASE AdvanceDecide(r)
  <2>1. tx[r].cached \in {"analyzed", "verdicted", "reviewing"}
    BY <1>4 DEF AdvanceDecide, IInv, HandlerHolds, Holds
  <2> QED
    BY <1>4, <2>1, TransitionFacts DEF AdvanceDecide, CasWins, Replies, inputs, outside
<1>5. CASE AdvanceFeedback(r)
  BY <1>5, TransitionFacts DEF AdvanceFeedback, CasWins, Replies, inputs, outside
<1> QED
  BY <1>1, <1>2, <1>3, <1>4, <1>5

\* The compare-and-swaps.
LEMMA SwapsTurn ==
  ASSUME IInv, IInv', AInv, NEW r \in Requests,
         \/ AdvanceDetection(r) \/ AdvanceVerdict(r)
         \/ AdvanceReview(r) \/ AdvanceDecide(r) \/ AdvanceFeedback(r)
  PROVE  AInv'
<1>0. Stands(r) /\ Holds(r)
  BY DEF AInv, IInv, HandlerHolds
<1>1. pc[r] \in {"advance_detection", "advance_verdict", "advance"}
  BY DEF AdvanceDetection, AdvanceVerdict, AdvanceReview, AdvanceDecide, AdvanceFeedback
<1>2. UNCHANGED <<rows, audit, kind, aborted>>
  BY SwapOrFail
<1>3. ASSUME NEW code \in Replies \ {"none", "ok"}, Fail(r, code) PROVE AInv'
  BY <1>0, <1>1, <1>2, <1>3, NothingOf, NoneFacts, TurnStep DEF Fail, Goto, IInv, TypeOK, Turn, RowsTurn,
     TrailTurn, SwapTurn, Stands, Generating, rows
<1>4. ASSUME UNCHANGED reply, NEW target, tx' = [tx EXCEPT ![r].state = target],
             \/ /\ target # "decided" /\ pc[r] \in Generating
                /\ \/ Goto(r, "audit_detection") \/ Goto(r, "audit_verdict")
                   \/ kind[r] = "capture" /\
                      (Goto(r, "commit_detection") \/ Goto(r, "commit_verdict"))
             \/ /\ pc[r] = "advance" /\ Goto(r, "audit")
                /\ \/ kind[r] = "review" /\ target = "reviewing"
                   \/ kind[r] = "decide" /\ target = "decided"
                   \/ kind[r] = "feedback"
      PROVE  AInv'
  <2>1. tx'[r].state = target /\ \A q \in Requests \ {r} : tx'[q] = tx[q]
    BY <1>4 DEF IInv, TypeOK, Transactions
  <2>2. PICK next \in {"audit_detection", "audit_verdict", "commit_detection", "commit_verdict",
                       "audit"} :
          /\ Goto(r, next)
          /\ IF next = "audit" THEN pc[r] = "advance" ELSE pc[r] \in Generating /\ target # "decided"
          /\ next \in {"commit_detection", "commit_verdict"} => kind[r] = "capture"
    BY <1>4
  <2>3. pc'[r] = next /\ \A q \in Requests \ {r} : pc'[q] = pc[q]
    BY <2>2 DEF Goto, IInv, TypeOK
  <2>4. Turn(r) /\ RowsTurn(r) /\ TrailTurn(r) /\ SwapTurn(r)
    BY <1>1, <1>2, <1>4, <2>1, <2>2, <2>3 DEF Turn, RowsTurn, TrailTurn, SwapTurn, rows
  <2>5. Stands(r)'
    BY <1>0, <1>1, <1>2, <1>4, <2>1, <2>2, <2>3 DEF Stands, Generating, rows
  <2> QED
    BY <2>4, <2>5, TurnStep
<1> QED
  BY <1>3, <1>4, SwapOrFail

\* The commits.
LEMMA CommitTurn ==
  ASSUME IInv, IInv', AInv, NEW r \in Requests,
         CommitDetection(r) \/ CommitVerdict(r) \/ Commit(r)
  PROVE  AInv'
<1>0. Stands(r)
  BY DEF AInv
<1>1. PICK place \in {"commit_detection", "commit_verdict", "commit"},
           next \in {"audit_detection", "audit_verdict", "done"} :
        CommitStep(r, place, next) /\ (place = "commit" <=> next = "done")
  BY DEF CommitDetection, CommitVerdict, Commit
<1>2. /\ pc[r] = place /\ pc'[r] = next /\ CommitRows(r)
      /\ \A q \in Requests \ {r} : pc'[q] = pc[q] /\ tx'[q] = tx[q]
      /\ UNCHANGED <<kind, audit, reply, aborted>>
  BY <1>1 DEF CommitStep, CommitRows, Goto, IInv, TypeOK, inputs, outside
<1>3. tx'[r] = NoTx
  BY <1>2 DEF CommitRows, IInv, TypeOK
<1>4. Turn(r) /\ RowsTurn(r) /\ TrailTurn(r) /\ SwapTurn(r)
  <2>1. Turn(r)
    BY <1>1, <1>2 DEF Turn
  <2>2. RowsTurn(r)
    <3>1. kind[r] = "capture" \/ (pc[r] = "commit" /\ pc'[r] = "done")
      BY <1>0, <1>1, <1>2 DEF Stands
    <3>2. kind'[r] = kind[r] /\ reply'[r] = reply[r]
      BY <1>2
    <3> QED
      BY <1>2, <3>1, <3>2 DEF RowsTurn
  <2>3. TrailTurn(r) /\ SwapTurn(r)
    BY <1>2, <1>3, NothingOf, NoneFacts DEF TrailTurn, SwapTurn
  <2> QED
    BY <2>1, <2>2, <2>3
<1>5. Stands(r)'
  BY <1>0, <1>1, <1>2, <1>3 DEF Stands, Generating, CommitRows
<1> QED
  BY <1>4, <1>5, TurnStep

\* The answers and the ways a request is cut short.
LEMMA EndTurn ==
  ASSUME IInv, IInv', AInv, NEW r \in Requests,
         Finish(r) \/ RejectVerdict(r) \/ Abort(r)
  PROVE  AInv'
<1>0. Stands(r)
  BY DEF AInv
<1>1. CASE Finish(r)
  <2>1. PICK next \in {"done", "commit"} :
          Goto(r, next) /\ (kind[r] = "capture" <=> next = "done")
    BY <1>1 DEF Finish
  <2> QED
    BY <1>0, <1>1, <2>1, TurnStep DEF Finish, Goto, IInv, TypeOK, Turn, RowsTurn, TrailTurn, SwapTurn,
       Stands, Generating, rows, inputs
<1>2. CASE RejectVerdict(r)
  <2>1. TrailTurn(r)
    BY <1>2 DEF RejectVerdict, TrailTurn, AuditTypes, Judgements
  <2> QED
    BY <1>0, <1>2, <2>1, NothingOf, NoneFacts, TurnStep DEF RejectVerdict, Fail, Goto, IInv, TypeOK, Turn,
       RowsTurn, SwapTurn, Stands, Generating, rows, inputs
<1>3. CASE Abort(r)
  <2>1. Turn(r) /\ RowsTurn(r) /\ TrailTurn(r) /\ SwapTurn(r)
    BY <1>0, <1>3, NothingOf, NoneFacts DEF Abort, Goto, IInv, TypeOK, Turn, RowsTurn, TrailTurn, SwapTurn,
       rows, inputs, outside
  <2>2. pc'[r] = "done" /\ r \in aborted'
    BY <1>3 DEF Abort, Goto, IInv, TypeOK
  <2> QED
    BY <2>1, <2>2, TurnStep DEF Stands, Generating
<1> QED
  BY <1>1, <1>2, <1>3

-----------------------------------------------------------------------------

LEMMA InitAnswers == Init => AInv
BY NothingOf, NoneFacts, NoneAssumption DEF Init, AInv, Stands, Left, Landed, OpenedBefore, Generating

LEMMA NextAnswers == IInv /\ AInv /\ [Next]_vars => AInv'
<1> SUFFICES ASSUME IInv, AInv, [Next]_vars PROVE AInv'
  OBVIOUS
<1>0. IInv'
  BY NextInv
<1>1. CASE UNCHANGED vars
  BY <1>1 DEF vars, rows, inputs, outside, AInv, Stands, Left, Landed, OpenedBefore, DecisionEvent,
     Event, OperatorEvent
<1>2. CASE Next
  <2> PICK r \in Requests : Arrive(r) \/ Work(r) \/ Abort(r)
    BY <1>2 DEF Next
  <2> QED
    BY <1>0, ArriveTurn, AuditTurn, StoreTurn, SwapsTurn, CommitTurn, EndTurn DEF Work
<1> QED
  BY <1>1, <1>2

\* What every request has left when it stands where it stands, for any number
\* of requests, outcomes and crashes.
THEOREM AnswersInvariance == Spec => []AInv
BY InitAnswers, NextAnswers, InitInv, NextInv, PTL DEF Spec

\* An API request answered with a 4xx or 5xx has left no row behind: its rows
\* become visible in its last step only, and that follows a 2xx.
THEOREM RejectionsLeaveNoRow == Spec => []RejectedLeavesNoRow
<1>1. AInv => RejectedLeavesNoRow
  BY DEF AInv, Left, Landed, RejectedLeavesNoRow
<1> QED
  BY <1>1, AnswersInvariance, PTL

\* A decision answered 200 and not lost in a crash is the one that stands.
THEOREM AnsweredDecisionsStand == Spec => []AnsweredDecisionStands
<1>1. AInv => AnsweredDecisionStands
  BY DEF AInv, Stands, AnsweredDecisionStands
<1> QED
  BY <1>1, AnswersInvariance, PTL

\* No scan.opened follows the decision in the trail.
THEOREM TrailIsInOrder == Spec => []TrailInOrder
<1>1. IInv /\ AInv => TrailInOrder
  BY DEF IInv, DecidedIsRecorded, AInv, Left, OpenedBefore, TrailInOrder
<1> QED
  BY <1>1, AnswersInvariance, Invariance, PTL-----------------------------------------------------------------------------
(* The unique keys of scan_verdicts and scan_feedback and the row lock of  *)
(* the scan: who waits for whom.                                           *)

\* Where the UPDATE of _transition may have to wait for the row lock.
Swapping == {"advance_detection", "advance_verdict", "advance"}

\* Where an insert that a transaction has not committed may still be open.
KeysHeld(r) ==
  /\ tx[r].feedback =>
       /\ kind[r] # "capture"
       /\ pc[r] \in {"reload_feedback", "advance", "audit", "finish", "commit"}
  /\ tx[r].verdict =>
       pc[r] \in IF kind[r] = "capture"
                 THEN {"reload_verdict", "advance_verdict", "commit_verdict"}
                 ELSE {"reload_verdict", "advance_verdict", "audit_verdict", "finish", "commit"}

KeysInv == \A r \in Requests : KeysHeld(r)

\* Request r cannot step before request q has ended its transaction.
WaitsFor(r, q) == /\ q # r
                  /\ \/ pc[r] = "verdict" /\ tx[q].verdict
                     \/ pc[r] = "store_feedback" /\ tx[q].feedback
                     \/ pc[r] \in Swapping /\ tx[q].state # None

\* The locks request r may still have to wait for.
Depth(r) == IF pc[r] \in {"verdict", "store_feedback"} THEN 2
            ELSE IF pc[r] \in Swapping THEN 1 ELSE 0

\* A new request has inserted nothing.
LEMMA ArriveKeys ==
  ASSUME IInv, NEW r \in Requests, Arrive(r)
  PROVE  KeysHeld(r)'
<1>1. tx[r] = NoTx
  BY DEF Arrive, Capture, Refuse, Detect, Verdict, Feedback, Review, DecideScan, Begin,
         IInv, HandlerHolds, Holds
<1>2. tx' = tx \/ tx' = [tx EXCEPT ![r].cached = scan]
  BY DEF Arrive, Capture, Refuse, Detect, Verdict, Feedback, Review, DecideScan
<1>3. ~tx'[r].verdict /\ ~tx'[r].feedback
  BY <1>1, <1>2, NothingOf DEF IInv, TypeOK, Transactions
<1> QED BY <1>3 DEF KeysHeld

\* A request whose transaction has ended holds no key.
LEMMA EndedKeys ==
  ASSUME IInv, NEW r \in Requests, tx' = [tx EXCEPT ![r] = NoTx]
  PROVE  KeysHeld(r)'
BY NothingOf DEF IInv, TypeOK, KeysHeld

\* Detections are stored, states are read, events written and replies sent by
\* requests that go on to a place where what they hold is still expected.
LEMMA QuietKeys ==
  ASSUME IInv, NEW r \in Requests, KeysHeld(r),
         \/ AuditCapture(r) \/ StoreDetection(r) \/ ReloadDetection(r) \/ AuditDetection(r)
         \/ ReloadVerdict(r) \/ AuditVerdict(r) \/ BankLabels(r) \/ ReloadFeedback(r)
         \/ AuditOperator(r) \/ Finish(r)
  PROVE  KeysHeld(r)'
<1>1. CASE AuditCapture(r)
  BY <1>1 DEF AuditCapture, AuditStep, Goto, IInv, TypeOK, inputs, KeysHeld
<1>2. CASE AuditDetection(r)
  BY <1>2 DEF AuditDetection, AuditStep, Goto, IInv, TypeOK, inputs, KeysHeld
<1>3. CASE AuditVerdict(r)
  BY <1>3 DEF AuditVerdict, AuditStep, Goto, IInv, TypeOK, inputs, KeysHeld
<1>4. CASE AuditOperator(r)
  BY <1>4 DEF AuditOperator, AuditStep, Goto, IInv, TypeOK, inputs, KeysHeld
<1>5. CASE BankLabels(r)
  BY <1>5 DEF BankLabels, Goto, IInv, TypeOK, inputs, KeysHeld
<1>6. CASE Finish(r)
  BY <1>6 DEF Finish, Goto, IInv, TypeOK, inputs, KeysHeld
<1>7. CASE StoreDetection(r)
  <2>1. PICK res \in Results : tx' = [tx EXCEPT ![r].detections = (res = "findings")]
    BY <1>7 DEF StoreDetection
  <2>2. tx'[r].verdict = tx[r].verdict /\ tx'[r].feedback = tx[r].feedback
    BY <2>1 DEF IInv, TypeOK, Transactions
  <2> QED BY <1>7, <2>2 DEF StoreDetection, IInv, TypeOK, KeysHeld
<1>8. CASE ReloadDetection(r) \/ ReloadVerdict(r) \/ ReloadFeedback(r)
  <2>1. tx'[r].verdict = tx[r].verdict /\ tx'[r].feedback = tx[r].feedback
    BY <1>8 DEF ReloadDetection, ReloadVerdict, ReloadFeedback, Reload, IInv, TypeOK, Transactions
  <2> QED BY <1>8, <2>1 DEF ReloadDetection, ReloadVerdict, ReloadFeedback, Reload, Goto,
                            IInv, TypeOK, inputs, KeysHeld
<1> QED BY <1>1, <1>2, <1>3, <1>4, <1>5, <1>6, <1>7, <1>8

\* The verdict or feedback row is inserted by a request that goes on to the
\* state of the scan; a camera's request never stores feedback.
LEMMA InsertKeys ==
  ASSUME IInv, NEW r \in Requests, KeysHeld(r), StoreVerdict(r) \/ StoreFeedback(r)
  PROVE  KeysHeld(r)'
<1>1. CASE StoreVerdict(r)
  <2>1. /\ pc[r] = "verdict" /\ kind' = kind
        /\ pc'[r] \in {"reload_verdict", AfterVerdict(r)}
        /\ tx'[r].feedback = tx[r].feedback
    BY <1>1 DEF StoreVerdict, Goto, IInv, TypeOK, Transactions
  <2> QED BY <2>1 DEF KeysHeld, AfterVerdict
<1>2. CASE StoreFeedback(r)
  <2>1. /\ pc[r] = "store_feedback" /\ kind' = kind /\ kind[r] \in {"decide", "feedback"}
        /\ pc'[r] \in {"advance", "reload_feedback", "audit"}
        /\ tx'[r].verdict = tx[r].verdict
    BY <1>2 DEF StoreFeedback, Goto, IInv, TypeOK, Transactions, inputs
  <2> QED BY <2>1 DEF KeysHeld
<1> QED BY <1>1, <1>2

\* The compare-and-swap takes no key; where it raises, the keys go back.
LEMMA AdvanceKeys ==
  ASSUME IInv, NEW r \in Requests, KeysHeld(r),
         \/ AdvanceDetection(r) \/ AdvanceVerdict(r) \/ AdvanceReview(r)
         \/ AdvanceDecide(r) \/ AdvanceFeedback(r)
  PROVE  KeysHeld(r)'
<1>1. ASSUME NEW t, CasWins(r, t)
      PROVE  tx'[r].verdict = tx[r].verdict /\ tx'[r].feedback = tx[r].feedback
  BY <1>1 DEF CasWins, IInv, TypeOK, Transactions
<1>2. ASSUME NEW code, Fail(r, code) PROVE KeysHeld(r)'
  BY <1>2, EndedKeys DEF Fail
<1>3. CASE AdvanceDetection(r)
  BY <1>1, <1>2, <1>3 DEF AdvanceDetection, AfterDetection, Goto, IInv, TypeOK, inputs, KeysHeld
<1>4. CASE AdvanceVerdict(r)
  BY <1>1, <1>2, <1>4 DEF AdvanceVerdict, AfterVerdict, Goto, IInv, TypeOK, inputs, KeysHeld
<1>5. CASE AdvanceReview(r)
  BY <1>1, <1>2, <1>5 DEF AdvanceReview, Goto, IInv, TypeOK, inputs, KeysHeld
<1>6. CASE AdvanceDecide(r)
  BY <1>1, <1>2, <1>6 DEF AdvanceDecide, Goto, IInv, TypeOK, inputs, KeysHeld
<1>7. CASE AdvanceFeedback(r)
  BY <1>1, <1>2, <1>7 DEF AdvanceFeedback, Goto, IInv, TypeOK, inputs, KeysHeld
<1> QED BY <1>3, <1>4, <1>5, <1>6, <1>7

\* A step of request r leaves the other requests where they stand.
LEMMA OthersStand ==
  ASSUME TypeOK, NEW r \in Requests, Arrive(r) \/ Work(r) \/ Abort(r), NEW q \in Requests \ {r}
  PROVE  tx'[q] = tx[q] /\ pc'[q] = pc[q] /\ kind'[q] = kind[q]
<1>1. CASE Arrive(r)
  BY <1>1 DEF Arrive, Capture, Refuse, Detect, Verdict, Feedback, Review, DecideScan, Begin,
              Goto, TypeOK
<1>2. CASE Abort(r)
  BY <1>2 DEF Abort, Goto, TypeOK, inputs
<1>3. CASE Work(r)
  BY <1>3 DEF Work, AuditCapture, StoreDetection, ReloadDetection, AdvanceDetection,
              CommitDetection, AuditDetection, StoreVerdict, RejectVerdict, ReloadVerdict,
              AdvanceVerdict, CommitVerdict, AuditVerdict, AdvanceReview, BankLabels,
              StoreFeedback, ReloadFeedback, AdvanceDecide, AdvanceFeedback, AuditOperator,
              Finish, Commit, AuditStep, CommitStep, CommitRows, Reload, CasWins, Fail, Goto,
              TypeOK, inputs
<1> QED BY <1>1, <1>2, <1>3

\* A transaction holds a key only between its insert and its end.
LEMMA KeysInvariance == Spec => []KeysInv
<1>1. Init => KeysInv
  BY NothingOf DEF Init, KeysInv, KeysHeld
<1>2. IInv /\ KeysInv /\ [Next]_vars => KeysInv'
  <2> SUFFICES ASSUME IInv, KeysInv, [Next]_vars PROVE KeysInv'
    OBVIOUS
  <2>1. CASE UNCHANGED vars
    BY <2>1 DEF vars, inputs, KeysInv, KeysHeld
  <2>2. ASSUME NEW r \in Requests, Arrive(r) \/ Work(r) \/ Abort(r)
        PROVE  KeysInv'
    <3>1. KeysHeld(r)
      BY DEF KeysInv
    <3>2. ASSUME Arrive(r) PROVE KeysHeld(r)'
      BY <2>2, <3>2, ArriveKeys
    <3>3. ASSUME \/ Abort(r) \/ RejectVerdict(r)
                 \/ CommitDetection(r) \/ CommitVerdict(r) \/ Commit(r)
          PROVE  KeysHeld(r)'
      BY <2>2, <3>3, EndedKeys DEF Abort, RejectVerdict, Fail, CommitDetection, CommitVerdict,
                             Commit, CommitStep, CommitRows
    <3>4. KeysHeld(r)'
      BY <2>2, <3>1, <3>2, <3>3, QuietKeys, InsertKeys, AdvanceKeys DEF Work
    <3>5. ASSUME NEW q \in Requests \ {r} PROVE KeysHeld(q)'
      BY <2>2, <3>5, OthersStand DEF IInv, KeysInv, KeysHeld
    <3> QED BY <3>4, <3>5 DEF KeysInv
  <2> QED BY <2>1, <2>2 DEF Next
<1> QED BY <1>1, <1>2, Invariance, PTL DEF Spec

\* Whatever a request waits for is held by one with fewer locks left to take.
LEMMA WaitsGoDown ==
  ASSUME IInv, KeysInv, NEW r \in Requests, NEW q \in Requests, WaitsFor(r, q)
  PROVE  Depth(q) < Depth(r)
<1>1. CASE pc[r] \in {"verdict", "store_feedback"} /\ (tx[q].verdict \/ tx[q].feedback)
  BY <1>1 DEF KeysInv, KeysHeld, Depth, Swapping
<1>2. CASE pc[r] \in Swapping /\ tx[q].state # None
  BY <1>2 DEF IInv, TypeOK, HandlerHolds, Holds, Depth, Swapping, Places
<1> QED BY <1>1, <1>2 DEF WaitsFor

\* No circle of requests waits for one another: the unique keys are taken
\* before the row lock of the scan, never after it, so that whatever a request
\* waits for is held by one with fewer locks left to wait for.
THEOREM NoCircleOfRequests ==
  Spec => [](\A r, q \in Requests : WaitsFor(r, q) => Depth(q) < Depth(r))
<1>1. IInv /\ KeysInv => \A r, q \in Requests : WaitsFor(r, q) => Depth(q) < Depth(r)
  BY WaitsGoDown
<1> QED BY <1>1, KeysInvariance, Invariance, PTL

\* Where request r has begun and not ended; where it waits for no other.
UnderWay(r) == pc[r] \notin {"idle", "done"}
Free(r) == \A q \in Requests : ~WaitsFor(r, q)

\* While a request is under way, one is that waits for nobody: the requests on
\* a scan never stand still together, however many there are.
THEOREM SomeRequestIsFree ==
  Spec => []((\E r \in Requests : UnderWay(r)) => \E r \in Requests : UnderWay(r) /\ Free(r))
<1>1. IInv /\ KeysInv =>
        ((\E r \in Requests : UnderWay(r)) => \E r \in Requests : UnderWay(r) /\ Free(r))
  <2> SUFFICES ASSUME IInv, KeysInv, NEW r \in Requests, UnderWay(r)
               PROVE  \E q \in Requests : UnderWay(q) /\ Free(q)
    OBVIOUS
  <2>1. \A p, q \in Requests : WaitsFor(p, q) => Depth(q) < Depth(p) /\ UnderWay(q)
    <3> SUFFICES ASSUME NEW p \in Requests, NEW q \in Requests, WaitsFor(p, q)
                 PROVE  Depth(q) < Depth(p) /\ UnderWay(q)
      OBVIOUS
    <3>1. Depth(q) < Depth(p)
      BY WaitsGoDown
    <3>2. CASE tx[q].verdict \/ tx[q].feedback
      BY <3>1, <3>2 DEF KeysInv, KeysHeld, UnderWay
    <3>3. CASE tx[q].state # None
      BY <3>1, <3>3 DEF IInv, HandlerHolds, Holds, UnderWay
    <3> QED BY <3>2, <3>3 DEF WaitsFor
  <2>2. \A p \in Requests : Depth(p) \in 0 .. 2
    BY DEF Depth
  <2>3. CASE Free(r)
    BY <2>3
  <2>4. CASE ~Free(r)
    <3>1. PICK q \in Requests : WaitsFor(r, q)
      BY <2>4 DEF Free
    <3>2. UnderWay(q) /\ Depth(q) <= 1
      BY <3>1, <2>1, <2>2
    <3>3. \A s \in Requests : WaitsFor(q, s) => UnderWay(s) /\ Depth(s) <= 0
      BY <3>2, <2>1, <2>2
    <3>4. \A s \in Requests : Depth(s) <= 0 => Free(s)
      BY <2>1, <2>2 DEF Free
    <3> QED BY <3>2, <3>3, <3>4 DEF Free
  <2> QED BY <2>3, <2>4
<1> QED BY <1>1, KeysInvariance, Invariance, PTL
=============================================================================
