----------------------------- MODULE CameraDriver ----------------------------
(* The motion-triggered camera of the capture agent (src/camera/driver.py): a   *)
(* reader thread follows the picture through a state machine and leaves a       *)
(* snapshot in a slot, next_frame waits for an event and takes it. Frames are   *)
(* numbered in the order the reader reads them.                                 *)
EXTENDS Naturals, Sequences

CONSTANTS
  StableFrames,  \* quiet frames in a row that make a scene settled
  LastFrame,     \* frames the camera delivers, a bound
  LastCall       \* calls of next_frame, a bound

ASSUME DriverAssumption ==
  StableFrames \in Nat \ {0} /\ LastFrame \in Nat \ {0} /\ LastCall \in Nat \ {0}

VARIABLES
  reader,     \* off, read, slot (about to fill the slot), event (about to set it), dead
  scene,      \* IDLE, ACTIVE, STABLE or CAPTURED
  quiet,      \* quiet frames in a row since the last motion
  best,       \* the frame a snapshot would be of, 0 when there is none
  nframe,     \* frames read
  calm,       \* still frames in a row up to the last one, as far as StableFrames: for the properties
  snapshot,   \* the frame encoded but not yet in the slot
  pending,    \* the slot: a snapshot, or nothing
  event,      \* the slot's event
  caller,     \* next_frame's call: out, wait, take
  calls,      \* calls made
  outcome     \* what the calls returned, in order

driver == <<reader, scene, quiet, best, nframe, calm, snapshot, pending, event, caller, calls, outcome>>
slot == <<pending, event>>
waiter == <<caller, calls, outcome>>

\* A frame differs from the last by at most the threshold, by up to twice it, or more.
Scores == {"still", "motion", "strong"}
NoFrame == [frame |-> 0, score |-> "still", calm |-> 0]

DriverInit ==
  /\ reader = "off" /\ scene = "IDLE" /\ quiet = 0 /\ best = 0 /\ nframe = 0
  /\ calm = 0 /\ snapshot = NoFrame
  /\ pending = NoFrame /\ event = FALSE
  /\ caller = "out" /\ calls = 0 /\ outcome = <<>>

\* open() succeeded: the reader starts from IDLE.
StartReader ==
  /\ reader = "off" /\ reader' = "read"
  /\ UNCHANGED <<scene, quiet, best, nframe, calm, snapshot, slot, waiter>>

\* What a frame of the given score does to the scene.
FollowScene(score) ==
  \/ /\ scene = "IDLE"
     /\ IF score = "still" THEN UNCHANGED <<scene, quiet>> ELSE scene' = "ACTIVE" /\ quiet' = 0
     /\ UNCHANGED <<best, snapshot, reader>>
  \/ /\ scene = "ACTIVE"
     /\ best' = nframe'
     /\ quiet' = IF score = "still" THEN quiet + 1 ELSE 0
     /\ scene' = IF quiet' >= StableFrames THEN "STABLE" ELSE "ACTIVE"
     /\ UNCHANGED <<snapshot, reader>>
  \/ /\ scene = "STABLE"
     /\ snapshot' = [frame |-> best, score |-> score, calm |-> calm]
     /\ \/ reader' = "slot"
        \/ reader' = "dead"
     /\ UNCHANGED <<scene, quiet, best>>
  \/ /\ scene = "CAPTURED"
     /\ IF score = "strong" THEN scene' = "IDLE" /\ quiet' = 0 ELSE UNCHANGED <<scene, quiet>>
     /\ UNCHANGED <<best, snapshot, reader>>

\* One turn of the reader with a frame; the first has nothing to differ from. A
\* failed read changes nothing. A frame that cannot be encoded ends the thread.
ReadFrame ==
  /\ reader = "read" /\ nframe < LastFrame
  /\ nframe' = nframe + 1
  /\ \E score \in IF nframe = 0 THEN {"still"} ELSE Scores :
       /\ calm' = IF score # "still" THEN 0 ELSE IF calm < StableFrames THEN calm + 1 ELSE calm
       /\ FollowScene(score)
  /\ UNCHANGED <<slot, waiter>>

FillSlot ==
  /\ reader = "slot" /\ reader' = "event"
  /\ pending' = snapshot
  /\ UNCHANGED <<scene, quiet, best, nframe, calm, snapshot, event, waiter>>

SetEvent ==
  /\ reader = "event" /\ reader' = "read"
  /\ event' = TRUE /\ scene' = "CAPTURED"
  /\ UNCHANGED <<quiet, best, nframe, calm, snapshot, pending, waiter>>

\* next_frame clears the event, and only then waits for it.
CallNextFrame ==
  /\ reader # "off" /\ caller = "out" /\ calls < LastCall
  /\ caller' = "wait" /\ calls' = calls + 1
  /\ event' = FALSE
  /\ UNCHANGED <<reader, scene, quiet, best, nframe, calm, snapshot, pending, outcome>>

WakeUp ==
  /\ caller = "wait" /\ event /\ caller' = "take"
  /\ UNCHANGED <<reader, scene, quiet, best, nframe, calm, snapshot, slot, calls, outcome>>

TimeOut ==
  /\ caller = "wait" /\ ~event /\ caller' = "out"
  /\ outcome' = Append(outcome, [kind |-> "timeout", snap |-> NoFrame])
  /\ UNCHANGED <<reader, scene, quiet, best, nframe, calm, snapshot, slot, calls>>

Return(kind) ==
  /\ caller = "take" /\ caller' = "out"
  /\ outcome' = Append(outcome, [kind |-> kind, snap |-> pending])
  /\ UNCHANGED <<reader, scene, quiet, best, nframe, calm, snapshot, event, calls>>

\* Mutant: the slot is not emptied.
TakeAndKeep == Return(IF pending = NoFrame THEN "error" ELSE "frame") /\ UNCHANGED pending
\* The slot is taken and emptied; an empty one is an error.
Take == Return(IF pending = NoFrame THEN "error" ELSE "frame") /\ pending' = NoFrame

\* close(): the reader is told to stop and joined.
StopReader ==
  /\ caller = "out" /\ reader \in {"read", "dead"} /\ reader' = "off"
  /\ UNCHANGED <<scene, quiet, best, nframe, calm, snapshot, slot, waiter>>

DriverNext ==
  \/ ReadFrame
  \/ FillSlot
  \/ SetEvent
  \/ CallNextFrame
  \/ WakeUp
  \/ TimeOut
  \/ Take

------------------------------------------------------------------------------
Got(i) == outcome[i].kind = "frame"

\* Every frame next_frame returns is of a scene that had kept still for StableFrames
\* frames, is returned once, and comes after the ones returned before: whatever
\* the reader does to the slot between the wake-up and the take.
SnapshotsAreSettled ==
  \A i \in DOMAIN outcome : Got(i) =>
    /\ outcome[i].snap.calm = StableFrames
    /\ \A j \in 1 .. i - 1 : Got(j) => outcome[j].snap.frame < outcome[i].snap.frame

\* What next_frame's docstring says of its error: the capture thread died
\* (src/camera/driver.py:218).
ErrorMeansReaderDied == (\E i \in DOMAIN outcome : outcome[i].kind = "error") => reader = "dead"

\* What CameraFrame says of its score: the difference that triggered the capture
\* (src/camera/driver.py:103).
ScoreTriggered == \A i \in DOMAIN outcome : Got(i) => outcome[i].snap.score # "still"
=============================================================================
