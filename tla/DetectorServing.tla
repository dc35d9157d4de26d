-------------------------- MODULE DetectorServing ---------------------------
(***************************************************************************)
(* The detector behind POST /v1/detect: ObjectStoreLoader                  *)
(* (detector/serving/image_store.py), WeaponsDetector (adapter.py) and the *)
(* taxonomy.  Box coordinates of the model are half pixels, scores and     *)
(* thresholds percent.                                                     *)
(***************************************************************************)
EXTENDS ImageStore, FiniteSetsExt

CONSTANTS Requests,
          Encryptions,  \* whether blobs are encrypted: a set of cases
          Frame         \* width_px and height_px of a frame's descriptor

ASSUME FrameAssumption == Frame.width \in Int /\ Frame.height \in Int

VARIABLES encrypted,    \* how this box is set up; never changes
          request       \* per request: what it has read and found, and its result

detector == <<encrypted, request>>

DetectorInit == /\ encrypted \in Encryptions
                /\ request = [r \in Requests |-> [status |-> "none"]]

\* to_category over normalize_native: an unknown label is surfaced.
ToCategory(label) ==
  CASE label \in {"gun", "pistol"} -> "firearm"
    [] label \in {"knife", "scissors"} -> "bladed_weapon"
    [] label \in {"wrench", "pliers", "hammer"} -> "metallic_anomaly"
    [] OTHER -> "unknown"

\* DEFAULT_THRESHOLDS
Threshold(category) == CASE category \in {"firearm", "bladed_weapon"} -> 20
                         [] category = "metallic_anomaly" -> 35
                         [] OTHER -> 40

\* round(): half to even.
Round(h) == LET q == h \div 2
            IN  IF h % 2 = 0 \/ q % 2 = 0 THEN q ELSE q + 1

\* Mutant: clamped to the pixels that were loaded, a row and a column more than the
\* descriptor has.
LegalBoxOfImage(b) ==
  LET x1 == Max({0, Round(Min({b.x1, b.x2}))})
      y1 == Max({0, Round(Min({b.y1, b.y2}))})
      x2 == Min({Frame.width + 1, Round(Max({b.x1, b.x2}))})
      y2 == Min({Frame.height + 1, Round(Max({b.y1, b.y2}))})
  IN  IF x2 <= x1 \/ y2 <= y1 THEN None
      ELSE [x |-> x1, y |-> y1, width |-> x2 - x1, height |-> y2 - y1]

\* _legal_box
LegalBox(b) ==
  LET x1 == Max({0, Round(Min({b.x1, b.x2}))})
      y1 == Max({0, Round(Min({b.y1, b.y2}))})
      x2 == Min({Frame.width, Round(Max({b.x1, b.x2}))})
      y2 == Min({Frame.height, Round(Max({b.y1, b.y2}))})
  IN  IF x2 <= x1 \/ y2 <= y1 \/ x1 >= Frame.width \/ y1 >= Frame.height THEN None
      ELSE [x |-> x1, y |-> y1, width |-> x2 - x1, height |-> y2 - y1]

\* _to_detection, for the raw detections [label, score, box] that become one.
Detections(found) ==
  {[category |-> ToCategory(raw.label), score |-> raw.score, box |-> LegalBox(raw.box)] :
     raw \in {raw \in found : raw.score >= Threshold(ToCategory(raw.label))
                              /\ LegalBox(raw.box) # None}}

\* Mutant: the hash of what was read is not compared, and it decodes all the same.
LoadsAnything(c) == blob[c] # None

\* load: the bytes of the file as they are, against the hash of the content.
Loads(c) == blob[c] # None /\ file[blob[c]] = "whole" /\ ~encrypted

\* detect is called.
Detect(r, frames) ==
  /\ request[r].status = "none"
  /\ request' = [request EXCEPT ![r] =
                   [status |-> "running", todo |-> frames, frames |-> frames,
                    read |-> {}, detections |-> {}]]
  /\ UNCHANGED encrypted

\* The first exception ends it.
Failed(r) == request' = [request EXCEPT ![r].status = "failed", ![r].detections = {}]

\* _detect_sync: one frame is loaded and scored; finds is what the model may return.
ScoreFrame(r, finds) ==
  /\ request[r].status = "running"
  /\ LET q == request[r]
         c == Head(q.todo)
     IN  IF ~Loads(c) THEN Failed(r)
         ELSE \E found \in finds :
                LET all == q.detections \cup Detections(found)
                    rest == Tail(q.todo)
                IN  request' = [request EXCEPT ![r] =
                      [q EXCEPT !.todo = rest, !.detections = all,
                                !.read = @ \cup {<<c, Whole(c) /\ ~encrypted>>},
                                !.status = IF rest # <<>> THEN "running"
                                           ELSE IF all = {} THEN "no_findings"
                                           ELSE "completed"]]
  /\ UNCHANGED encrypted

\* The model raises.
PredictorRaises(r) == /\ request[r].status = "running"
                      /\ Failed(r)
                      /\ UNCHANGED encrypted
-----------------------------------------------------------------------------
Completed(r) == request[r].status \in {"completed", "no_findings"}

\* ResultsRestOnOriginals: a result that is not FAILED rests on every frame of the
\* scan, each read as it was acquired, while lanes rewrite blobs, writes are cut
\* short and power is lost (_detect_sync, load).
ResultsRestOnOriginals ==
  \A r \in Requests : Completed(r) =>
    request[r].read = {<<c, TRUE>> : c \in Range(request[r].frames)}

\* PixelBox, DetectionResult._check_consistency
Accepted(d) == /\ d.box.x >= 0 /\ d.box.y >= 0 /\ d.box.width > 0 /\ d.box.height > 0
               /\ d.box.x + d.box.width <= Frame.width
               /\ d.box.y + d.box.height <= Frame.height

\* ResultsAreLegal: whatever boxes the model emits - reversed, beyond the frame, less
\* than a pixel - the contract accepts the result, which is built where no exception
\* is turned into FAILED any more (_legal_box, detect).
ResultsAreLegal ==
  \A r \in Requests : Completed(r) => \A d \in request[r].detections : Accepted(d)

\* "FrameLoader over the local encrypted object store" (image_store.py:1): what has been
\* acquired, and is whole, can be loaded.
AcquiredIsLoadable ==
  \A frames \in acquired : \A n \in DOMAIN frames : Whole(frames[n]) => Loads(frames[n])
=============================================================================
