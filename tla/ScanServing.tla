---------------------------- MODULE ScanServing -----------------------------
(***************************************************************************)
(* A scan from the image store through the detector to what its findings   *)
(* are to be treated as: lanes ingest, the API detects, and                *)
(* evaluate_detections judges the findings by a worker's cached            *)
(* thresholds, one after the other.                                        *)
(***************************************************************************)
EXTENDS DetectorServing, ThresholdCache

CONSTANTS FrameLists,   \* the frames a scan can have
          Modes         \* what a behaviour may do: the lanes, workers and updates it
                        \* has, how many ingests and faults, what the model may
                        \* find, when the clock starts and whether it goes on

\* The corners of a box, as the model emits them.
Corners == [x1 : Int, y1 : Int, x2 : Int, y2 : Int]

ASSUME FramesAssumption == FrameLists \subseteq Seq(Contents) \ {<<>>}
ASSUME ModesAssumption ==
  \A m \in Modes : /\ m.lanes \subseteq Lanes /\ m.workers \subseteq Workers
                   /\ \A found \in m.finds : \A raw \in found : raw.box \in Corners

VARIABLES mode, ingests, faults,
          decisions     \* per request: the decisions evaluate_detections has made

bounds == <<mode, ingests, faults>>
vars == <<store, detector, thresholds, bounds, decisions>>

Init == /\ StoreInit /\ DetectorInit /\ ThresholdInit
        /\ mode \in Modes /\ now \in mode.starts /\ ingests = 0 /\ faults = 0
        /\ decisions = [r \in Requests |-> {}]

Fault == faults < mode.faults /\ faults' = faults + 1

Lane(p) == /\ \/ StoreStep(p) /\ UNCHANGED <<ingests, faults>>
              \/ /\ ingests < mode.ingests /\ ingests' = ingests + 1
                 /\ \E frames \in FrameLists : Ingest(p, frames)
                 /\ UNCHANGED faults
              \/ CutShort(p) /\ Fault /\ UNCHANGED ingests
           /\ UNCHANGED <<detector, thresholds, mode, decisions>>

PowerFails == /\ Fault /\ PowerCut
              /\ UNCHANGED <<detector, thresholds, mode, ingests, decisions>>

\* The client posts what an ingest has returned.
Serve(r) == /\ \/ (\E frames \in acquired : Detect(r, frames)) /\ UNCHANGED faults
               \/ ScoreFrame(r, mode.finds) /\ UNCHANGED faults
               \/ PredictorRaises(r) /\ Fault
            /\ UNCHANGED <<store, thresholds, mode, ingests, decisions>>

\* evaluate_detections, one finding: the thresholds are got anew for each.
Evaluate(r, w) ==
  /\ request[r].status = "completed" /\ Serves(w)
  /\ \E d \in request[r].detections :
       /\ ~\E e \in decisions[r] : e.detection = d
       /\ decisions' = [decisions EXCEPT ![r] =
            @ \cup {[detection |-> d, decision |-> Decide(cache[w], d.score)]}]
  /\ UNCHANGED <<store, detector, thresholds, bounds>>

Admin(u) == /\ u \in mode.updates
            /\ (\E w \in mode.workers : PutBegins(u, w)) \/ PutWrites(u) \/ PutCommits(u)
            /\ UNCHANGED <<store, detector, bounds, decisions>>

Caching(w) == /\ \/ LoadBegins(w) /\ UNCHANGED faults
                 \/ LoadEnds(w) /\ UNCHANGED faults
                 \/ LoadFails(w) /\ Fault
                 \/ Restart(w) /\ Fault
              /\ UNCHANGED <<store, detector, mode, ingests, decisions>>

Clock == /\ mode.clock /\ Tick
         /\ UNCHANGED <<store, detector, bounds, decisions>>

Next == \/ \E p \in mode.lanes : Lane(p)
        \/ \E r \in Requests : Serve(r)
        \/ \E r \in Requests, w \in mode.workers : Evaluate(r, w)
        \/ \E u \in Updates : Admin(u)
        \/ \E w \in mode.workers : Caching(w)
        \/ PowerFails \/ Clock

Spec == Init /\ [][Next]_vars
=============================================================================
