-------------------------- MODULE OperatorConsole ---------------------------
(***************************************************************************)
(* An operator's console over one API worker's hub.  Decisions, of others  *)
(* and of this console, are broadcast before they are committed; notices   *)
(* nudge the queue and the selected scan; every 15 s the queue is fetched  *)
(* anyhow.  Connections outside the pool belong to consoles that only      *)
(* listen.                                                                 *)
(***************************************************************************)
EXTENDS ConsoleFeed, ScanDesk

CONSTANT Modes          \* what a behaviour may do, as records of
                        \*   conns, fetches: the connections and slots it has,
                        \*   others: the scans somebody else decides,
                        \*   faults, selects, mounts: bounds

VARIABLES mode,
          decision,     \* per scan: "none", "noticed" (recorded, the broadcast has
                        \* begun) or "committed"
          faults

vars == <<hub, client, desk, mode, decision, faults>>

ASSUME TopicsAreScans == Topics = Scans
ASSUME ModesAssumption == \A m \in Modes : 1 .. m.mounts \subseteq Mounts

Init == /\ mode \in Modes
        /\ HubInit /\ ClientInit /\ DeskInit
        /\ decision = [s \in Scans |-> "none"] /\ faults = 0

Committed == [s \in Scans |-> IF decision[s] = "committed" THEN "decided" ELSE "open"]

Fault == faults < mode.faults /\ faults' = faults + 1

NoFault == UNCHANGED faults

\* notify_scan_decided, inside the transaction of the request that decides.
Notice(s) == /\ decision[s] = "none" /\ decision' = [decision EXCEPT ![s] = "noticed"]
             /\ Broadcast(s)
             /\ UNCHANGED <<client, desk, mode, faults>>

OtherDecides(s) == s \in mode.others /\ Notice(s)

OwnDecides == posting # Nobody /\ Notice(posting.scan)

\* The transaction ends after the response is out.
Commit(s) == /\ decision[s] = "noticed" /\ casts[s] = None
             /\ \/ decision' = [decision EXCEPT ![s] = "committed"] /\ NoFault
                \/ /\ posting = Nobody
                   /\ decision' = [decision EXCEPT ![s] = "none"] /\ Fault
             /\ UNCHANGED <<hub, client, desk, mode>>

\* The console's message handlers.
Hears(s) ==
  /\ \E f \in mode.fetches : FetchIn(f)
  /\ IF selected = s THEN RefreshIn ELSE UNCHANGED view
  /\ UNCHANGED <<queue, posting, selects>>

Deliver(b, k) ==
  /\ Send(b, k)
  /\ k \in Pool => socket[k] # "connecting"
  /\ IF k \in Pool /\ socket[k] = "open" THEN Hears(b) ELSE UNCHANGED desk
  /\ UNCHANGED <<client, mode, decision, faults>>

Casting(b) == /\ EndBroadcast(b) \/ \E k \in Conns : SendRaises(b, k)
              /\ UNCHANGED <<client, desk, mode, decision, faults>>

\* Connections on the server.
Serve(k) ==
  /\ \/ HandlerEnds(k)
     \/ Accept(k) /\ IF k \in Pool THEN socket[k] \in {"connecting", "closing"}
                                   ELSE k \in mode.conns
  /\ UNCHANGED <<client, desk, mode, decision, faults>>

\* The client has left, or reads no more and its keep-alive runs out.
GiveUp(k) == /\ Break(k)
             /\ pipe[k] = "stalled" \/ (k \in Pool /\ socket[k] \in {"closing", "closed"})
             /\ UNCHANGED <<client, desk, mode, decision, faults>>

Network(k) == /\ Stall(k) \/ Break(k)
              /\ Fault
              /\ UNCHANGED <<client, desk, mode, decision>>

\* Connections in the console.
ClientStep ==
  /\ \/ \E m \in 1 .. mode.mounts : Mount(m) \/ TimerFires(m)
     \/ \E k \in Pool : Opens(k)
     \/ \E k \in Pool : Closes(k) /\ (socket[k] = "closing" \/ pipe[k] = "broken")
  /\ UNCHANGED <<hub, desk, mode, decision, faults>>

Refuse(k) == /\ socket[k] = "connecting" /\ handler[k] = "none" /\ Closes(k)
             /\ Fault
             /\ UNCHANGED <<hub, desk, mode, decision>>

\* Logout: what the console held is gone with its components.
Logout == /\ mount < mode.mounts /\ Unmount
          /\ posting = Nobody /\ loading = FALSE
          /\ queue' = [s \in Scans |-> "open"]
          /\ fetches' = [f \in Fetches |-> Nobody]
          /\ UNCHANGED <<hub, view, posting, selects, mode, decision, faults>>

DeskStep ==
  /\ mount # 0
  /\ \/ \E l \in Loads : AnswerLoad(l, Committed) \/ ShowLoad(l)
     \/ Draw \/ Choose \/ Submit
     \/ selects < mode.selects /\ \E s \in Scans : Select(s)
     \/ /\ posting # Nobody /\ decision[posting.scan] # "none"
        /\ casts[posting.scan] = None /\ Decided
  /\ UNCHANGED <<hub, client, mode, decision, faults>>

DeskFails == /\ mount # 0 /\ Fault
             /\ \/ \E f \in Fetches : FetchFails(f)
                \/ \E l \in Loads : LoadFails(l)
                \/ posting # Nobody /\ decision[posting.scan] = "none" /\ Refused
             /\ UNCHANGED <<hub, client, mode, decision>>

\* Mutant: the queue is polled only while the feed is down.
PollWhileClosed == /\ mount # 0 /\ feed[mount].status = "closed"
                   /\ \E f \in mode.fetches : Poll(f)
                   /\ UNCHANGED <<hub, client, mode, decision, faults>>

\* The timer of useScanQueue, or the refresh button.
PollStep == /\ mount # 0 /\ \E f \in mode.fetches : Poll(f)
            /\ UNCHANGED <<hub, client, mode, decision, faults>>

FetchStep(f) == /\ mount # 0
                /\ AnswerFetch(f, Committed) \/ ShowFetch(f)
                /\ UNCHANGED <<hub, client, mode, decision, faults>>

Next == \/ \E s \in Scans : OtherDecides(s) \/ Commit(s) \/ Casting(s)
        \/ \E s \in Scans, k \in Conns : Deliver(s, k)
        \/ \E k \in Conns : Serve(k) \/ GiveUp(k) \/ Network(k)
        \/ \E k \in Pool : Refuse(k)
        \/ \E f \in Fetches : FetchStep(f)
        \/ OwnDecides \/ ClientStep \/ Logout
        \/ DeskStep \/ DeskFails \/ PollStep

\* Timers fire, requests are answered, the server's coroutines and transactions go
\* on, and keep-alives run out.
Fairness ==
  /\ \A s \in Scans : /\ WF_vars(Commit(s)) /\ WF_vars(Casting(s))
                      /\ \A k \in Conns : WF_vars(Deliver(s, k))
  /\ \A k \in Conns : WF_vars(Serve(k)) /\ WF_vars(GiveUp(k))
  /\ \A f \in Fetches : WF_vars(FetchStep(f))
  /\ WF_vars(PollStep) /\ WF_vars(ClientStep) /\ WF_vars(DeskStep) /\ WF_vars(OwnDecides)

Spec == Init /\ [][Next]_vars /\ Fairness
-----------------------------------------------------------------------------
\* QueueCatchesUp: whatever notices are missed, doubled or come before their
\* commit, whatever answers overtake each other or fail, and whether or not the
\* feed is ever connected again, a console that stays on ends up with the queue
\* as it is committed (useScanQueue: poll, nudges, upsert).
QueueCatchesUp == <>[](mount # 0) => <>[](queue = Committed)

\* "Handles reconnection with exponential backoff" (ws.ts:2): a console that stays
\* on is connected again.
FeedComesBack == <>[](mount # 0) => []<>(mount # 0 /\ feed[mount].status = "open")
=============================================================================
