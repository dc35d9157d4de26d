------------------------------ MODULE ScanDesk ------------------------------
(***************************************************************************)
(* What the console shows and sends: the queue (hooks/useScanQueue.ts),    *)
(* the selected scan (hooks/useScan.ts), what the operator draws and       *)
(* chooses on it (App.tsx, components/DecisionPanel.tsx), and the requests *)
(* under way, whose answers may come in any order.  A scan is "open" or    *)
(* "decided".                                                              *)
(***************************************************************************)
EXTENDS Integers, FiniteSets

CONSTANTS Scans,
          Fetches, Loads,   \* slots for requests that overlap
          Nobody            \* no scan, no answer

VARIABLES queue,        \* per scan: how the queue shows it
          fetches,      \* per slot: the fetch under way, with its answer once there
                        \* is one, or Nobody
          selected,     \* the scan selected in the queue, or Nobody
          shown,        \* the scan on the screen as it was answered, or Nobody
          loads,        \* per slot: the scan asked for and the answer, or Nobody
          loading,      \* the spinner stands in for scan and decision panel
          drawn,        \* the scans regions were drawn on since the last reset
          chosen,       \* the scan the panel's outcome was chosen for, or Nobody
          posting,      \* the feedback under way, or Nobody
          selects       \* how often the operator has selected

list == <<queue, fetches>>
view == <<selected, shown, loads, loading, drawn, chosen>>
desk == <<list, view, posting, selects>>

DeskInit == /\ queue = [s \in Scans |-> "open"]
            /\ fetches = [f \in Fetches |-> Nobody]
            /\ selected = Nobody /\ shown = Nobody
            /\ loads = [l \in Loads |-> Nobody] /\ loading = FALSE
            /\ drawn = {} /\ chosen = Nobody
            /\ posting = Nobody /\ selects = 0

\* fetch, of the timer, the refresh button or a notice.
FetchIn(f) == /\ fetches[f] = Nobody
              /\ fetches' = [fetches EXCEPT ![f] = [answer |-> Nobody]]

Poll(f) == FetchIn(f) /\ UNCHANGED <<queue, view, posting, selects>>

\* GET /v1/scans is answered with the committed states.
AnswerFetch(f, committed) == /\ fetches[f] # Nobody /\ fetches[f].answer = Nobody
                             /\ fetches' = [fetches EXCEPT ![f].answer = committed]
                             /\ UNCHANGED <<queue, view, posting, selects>>

\* setScans: whichever answer arrives last stays.
ShowFetch(f) == /\ fetches[f] # Nobody /\ fetches[f].answer # Nobody
                /\ queue' = fetches[f].answer
                /\ fetches' = [fetches EXCEPT ![f] = Nobody]
                /\ UNCHANGED <<view, posting, selects>>

\* The request fails: the queue stays as it is.
FetchFails(f) == /\ fetches[f] # Nobody
                 /\ fetches' = [fetches EXCEPT ![f] = Nobody]
                 /\ UNCHANGED <<queue, view, posting, selects>>

\* load: the spinner takes the panel, and its outcome, off the screen.
LoadIn(l, s) == /\ loads[l] = Nobody
                /\ loads' = [loads EXCEPT ![l] = [scan |-> s, state |-> "asked"]]
                /\ loading' = TRUE /\ chosen' = Nobody

\* handleSelect
Select(s) == /\ s # selected
             /\ selected' = s /\ drawn' = {} /\ selects' = selects + 1
             /\ \E l \in Loads : LoadIn(l, s)
             /\ UNCHANGED <<list, shown, posting>>

\* refreshScan, on a notice about the selected scan.
RefreshIn == /\ \E l \in Loads : LoadIn(l, selected)
             /\ UNCHANGED <<selected, shown, drawn>>

AnswerLoad(l, committed) ==
  /\ loads[l] # Nobody /\ loads[l].state = "asked"
  /\ loads' = [loads EXCEPT ![l].state = committed[loads[l].scan]]
  /\ UNCHANGED <<list, selected, shown, loading, drawn, chosen, posting, selects>>

\* setScan: whatever is selected by now.
ShowLoad(l) ==
  /\ loads[l] # Nobody /\ loads[l].state # "asked"
  /\ shown' = loads[l] /\ loading' = FALSE
  /\ loads' = [loads EXCEPT ![l] = Nobody]
  /\ UNCHANGED <<list, selected, drawn, chosen, posting, selects>>

LoadFails(l) == /\ loads[l] # Nobody
                /\ shown' = Nobody /\ loading' = FALSE /\ chosen' = Nobody
                /\ loads' = [loads EXCEPT ![l] = Nobody]
                /\ UNCHANGED <<list, selected, drawn, posting, selects>>

OnScreen == shown # Nobody /\ ~loading

\* The operator draws a region the model missed.
Draw == /\ OnScreen /\ drawn' = drawn \cup {shown.scan}
        /\ UNCHANGED <<list, selected, shown, loads, loading, chosen, posting, selects>>

\* handleOutcomeClick
Choose == /\ OnScreen /\ shown.state = "open" /\ chosen = Nobody
          /\ chosen' = shown.scan
          /\ UNCHANGED <<list, selected, shown, loads, loading, drawn, posting, selects>>

\* handleSubmit, _submit: the feedback is built from what is on the screen.
Submit == /\ OnScreen /\ shown.state = "open" /\ chosen # Nobody /\ posting = Nobody
          /\ posting' = [scan |-> shown.scan, missed |-> drawn, outcome |-> chosen]
          /\ UNCHANGED <<list, view, selects>>

\* onDecided, handleDecided: scan and queue show the decision.
Decided == /\ shown' = [scan |-> posting.scan, state |-> "decided"]
           /\ queue' = [queue EXCEPT ![posting.scan] = "decided"]
           /\ drawn' = {} /\ posting' = Nobody
           /\ UNCHANGED <<fetches, selected, loads, loading, chosen, selects>>

\* The panel shows the error.
Refused == posting' = Nobody /\ UNCHANGED <<list, view, selects>>
-----------------------------------------------------------------------------
\* "Which frame in the embedded result this region belongs to" (feedback.py:106):
\* what is submitted as missed on a scan was drawn on that scan.
MissedIsOfTheScan == posting # Nobody => posting.missed \subseteq {posting.scan}

\* "The operator's judgement": an outcome is submitted for the scan it was chosen for.
OutcomeIsOfTheScan == posting # Nobody => posting.outcome = posting.scan

\* The scan on the screen is the selected one, once nothing is loading.
ShownIsSelected == OnScreen => shown.scan = selected
=============================================================================
