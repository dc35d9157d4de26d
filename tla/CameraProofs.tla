----------------------------- MODULE CameraProofs -----------------------------
(***************************************************************************)
(* What CameraStation keeps for any number of frames, calls, workers and   *)
(* streams: the snapshots the capture agent is given, and the live feed.   *)
(* Neither the agent nor the stream touches the other's state, so each has *)
(* an inductive invariant of its own:                                      *)
(*                                                                         *)
(*   DriverInv  whatever is in the slot, or on its way to it, is of a      *)
(*              settled scene and newer than all that was returned;        *)
(*   StreamInv  the cycle's frame is not older than the last message's,    *)
(*              and every frame left on disk is of a cycle cut short.      *)
(***************************************************************************)
EXTENDS CameraStation, Integers, SequenceTheorems, TLAPS

Snapshots == [frame : Nat, score : Scores, calm : Nat]

DriverTypeOK ==
  /\ reader \in {"off", "read", "slot", "event", "dead"}
  /\ scene \in {"IDLE", "ACTIVE", "STABLE", "CAPTURED"}
  /\ quiet \in Nat /\ best \in Nat /\ nframe \in Nat /\ calm \in Nat
  /\ snapshot \in Snapshots /\ pending \in Snapshots
  /\ outcome \in Seq([kind : {"frame", "error", "timeout"}, snap : Snapshots])

\* Quiet frames are still frames in a row, so a scene is stable only after as many
\* as it takes; the snapshot would be of the last frame read.
SceneFollowed ==
  /\ calm <= StableFrames
  /\ reader = "off" => scene = "IDLE"
  /\ scene = "ACTIVE" => quiet <= calm /\ quiet < StableFrames
  /\ scene = "STABLE" /\ reader = "read" => calm = StableFrames /\ best = nframe

\* A snapshot of a settled scene that is newer than all that was returned.
IsNew(s) == /\ s.calm = StableFrames /\ s.frame < nframe
            /\ \A i \in DOMAIN outcome : Got(i) => outcome[i].snap.frame < s.frame

SlotInOrder ==
  /\ pending # NoFrame => IsNew(pending)
  /\ reader = "slot" => /\ IsNew(snapshot)
                        /\ pending # NoFrame => pending.frame < snapshot.frame

\* What was returned is older than the frame being read.
ReturnedBefore == \A i \in DOMAIN outcome : Got(i) => outcome[i].snap.frame < nframe

DriverInv == DriverTypeOK /\ SceneFollowed /\ SlotInOrder /\ ReturnedBefore /\ SnapshotsAreSettled
-----------------------------------------------------------------------------
(* The capture agent.                                                      *)

LEMMA DriverStarts ==
  ASSUME scene = "IDLE", quiet = 0, best = 0, nframe = 0, calm = 0, snapshot = NoFrame,
         pending = NoFrame, outcome = <<>>, reader \in {"off", "read"}
  PROVE  DriverInv
BY DriverAssumption
   DEF DriverInv, DriverTypeOK, SceneFollowed, SlotInOrder, ReturnedBefore,
       SnapshotsAreSettled, NoFrame, Snapshots, Scores

\* What the calls have returned, and the slot, are not the reader's to change.
LEMMA SlotKept ==
  ASSUME DriverInv, UNCHANGED <<pending, outcome>>, nframe' \in Nat, nframe <= nframe'
  PROVE  /\ pending' # NoFrame => IsNew(pending)'
         /\ ReturnedBefore' /\ SnapshotsAreSettled'
<1>1. pending.frame \in Nat /\ nframe \in Nat
  BY DEF DriverInv, DriverTypeOK, Snapshots
<1>2. \A i \in DOMAIN outcome : outcome[i].snap.frame \in Nat
  <2> SUFFICES ASSUME NEW i \in DOMAIN outcome PROVE outcome[i].snap.frame \in Nat
    OBVIOUS
  <2>1. outcome[i] \in [kind : {"frame", "error", "timeout"}, snap : Snapshots]
    BY ElementOfSeq, LenProperties DEF DriverInv, DriverTypeOK
  <2> QED
    BY <2>1 DEF Snapshots
<1>3. pending' # NoFrame => IsNew(pending)'
  BY <1>1 DEF DriverInv, SlotInOrder, IsNew, Got
<1>4. ReturnedBefore'
  BY <1>1, <1>2 DEF DriverInv, ReturnedBefore, Got
<1>5. SnapshotsAreSettled'
  BY DEF DriverInv, SnapshotsAreSettled, Got
<1> QED
  BY <1>3, <1>4, <1>5

LEMMA FrameIsRead ==
  ASSUME DriverInv, ReadFrame
  PROVE  DriverInv'
<1> USE DriverAssumption
<1>1. /\ reader = "read" /\ nframe' = nframe + 1 /\ UNCHANGED <<pending, outcome>>
      /\ nframe \in Nat /\ nframe' \in Nat /\ nframe < nframe'
  BY DEF ReadFrame, slot, waiter, DriverInv, DriverTypeOK
<1>2. PICK score \in Scores :
        /\ calm' = IF score # "still" THEN 0 ELSE IF calm < StableFrames THEN calm + 1 ELSE calm
        /\ FollowScene(score)
  BY DEF ReadFrame, Scores
<1>3. calm \in 0 .. StableFrames /\ calm' \in 0 .. StableFrames
  BY <1>2 DEF DriverInv, DriverTypeOK, SceneFollowed
<1>4. /\ pending' # NoFrame => IsNew(pending)'
      /\ ReturnedBefore' /\ SnapshotsAreSettled'
  BY <1>1, SlotKept
<1>5. CASE scene = "IDLE"
  <2>1. /\ scene' \in {"IDLE", "ACTIVE"} /\ (scene' = "ACTIVE" => quiet' = 0)
        /\ quiet' \in Nat /\ UNCHANGED <<best, snapshot, reader>>
    BY <1>2, <1>5 DEF FollowScene, DriverInv, DriverTypeOK
  <2> QED
    BY <1>1, <1>3, <1>4, <2>1 DEF DriverInv, DriverTypeOK, SceneFollowed, SlotInOrder
<1>6. CASE scene = "ACTIVE"
  <2>1. /\ best' = nframe' /\ quiet' = IF score = "still" THEN quiet + 1 ELSE 0
        /\ scene' = IF quiet' >= StableFrames THEN "STABLE" ELSE "ACTIVE"
        /\ UNCHANGED <<snapshot, reader>>
    BY <1>2, <1>6 DEF FollowScene
  <2>2. quiet \in Nat /\ quiet <= calm /\ quiet < StableFrames
    BY <1>6 DEF DriverInv, DriverTypeOK, SceneFollowed
  <2>3. quiet' \in Nat /\ quiet' <= calm'
    BY <1>2, <1>3, <2>1, <2>2
  <2> QED
    BY <1>1, <1>3, <1>4, <2>1, <2>3 DEF DriverInv, DriverTypeOK, SceneFollowed, SlotInOrder
<1>7. CASE scene = "STABLE"
  <2>1. /\ snapshot' = [frame |-> best, score |-> score, calm |-> calm]
        /\ reader' \in {"slot", "dead"} /\ UNCHANGED <<scene, quiet, best>>
    BY <1>2, <1>7 DEF FollowScene
  <2>2. calm = StableFrames /\ best = nframe
    BY <1>1, <1>7 DEF DriverInv, SceneFollowed
  <2>3. snapshot' \in Snapshots /\ snapshot'.frame = nframe /\ snapshot'.calm = StableFrames
    BY <1>1, <2>1, <2>2 DEF Snapshots
  <2>4. IsNew(snapshot)'
    BY <1>1, <2>3 DEF IsNew, Got, DriverInv, ReturnedBefore
  <2>5. pending' # NoFrame => pending'.frame < snapshot'.frame
    BY <1>1, <2>3 DEF DriverInv, SlotInOrder, IsNew
  <2> QED
    BY <1>1, <1>3, <1>4, <1>7, <2>1, <2>3, <2>4, <2>5
       DEF DriverInv, DriverTypeOK, SceneFollowed, SlotInOrder
<1>8. CASE scene = "CAPTURED"
  <2>1. scene' \in {"IDLE", "CAPTURED"} /\ quiet' \in Nat /\ UNCHANGED <<best, snapshot, reader>>
    BY <1>2, <1>8 DEF FollowScene, DriverInv, DriverTypeOK
  <2> QED
    BY <1>1, <1>3, <1>4, <2>1 DEF DriverInv, DriverTypeOK, SceneFollowed, SlotInOrder
<1> QED
  BY <1>5, <1>6, <1>7, <1>8 DEF DriverInv, DriverTypeOK

\* A call returns one outcome more.
LEMMA OutcomeFacts ==
  ASSUME DriverTypeOK, NEW o, o \in [kind : {"frame", "error", "timeout"}, snap : Snapshots],
         outcome' = Append(outcome, o)
  PROVE  /\ outcome' \in Seq([kind : {"frame", "error", "timeout"}, snap : Snapshots])
         /\ DOMAIN outcome = 1 .. Len(outcome) /\ Len(outcome) \in Nat
         /\ DOMAIN outcome' = 1 .. Len(outcome) + 1
         /\ outcome'[Len(outcome) + 1] = o
         /\ \A i \in DOMAIN outcome : outcome'[i] = outcome[i]
BY AppendProperties, LenProperties DEF DriverTypeOK
\* The call that takes the slot returns it, if it is not empty; one that timed out
\* or finds it empty returns none.
LEMMA CallReturns ==
  ASSUME DriverInv, NEW o, o \in [kind : {"frame", "error", "timeout"}, snap : Snapshots],
         outcome' = Append(outcome, o),
         o.kind = "frame" => o.snap = pending /\ pending # NoFrame /\ pending' = NoFrame,
         pending' \in {pending, NoFrame},
         UNCHANGED <<reader, scene, quiet, best, nframe, calm, snapshot>>
  PROVE  DriverInv'
<1> DEFINE n == Len(outcome) + 1
<1>1. /\ outcome' \in Seq([kind : {"frame", "error", "timeout"}, snap : Snapshots])
      /\ DOMAIN outcome = 1 .. Len(outcome) /\ Len(outcome) \in Nat
      /\ DOMAIN outcome' = 1 .. n /\ outcome'[n] = o
      /\ \A i \in DOMAIN outcome : outcome'[i] = outcome[i]
  BY OutcomeFacts DEF DriverInv
<1>2. \A i \in DOMAIN outcome' : i = n \/ i \in DOMAIN outcome
  BY <1>1
<1>3. pending' \in Snapshots
  BY DEF DriverInv, DriverTypeOK, NoFrame, Snapshots, Scores
<1>4. DriverTypeOK'
  BY <1>1, <1>3 DEF DriverInv, DriverTypeOK
<1>5. ReturnedBefore'
  BY <1>1, <1>2 DEF DriverInv, ReturnedBefore, Got, SlotInOrder, IsNew
<1>6. SnapshotsAreSettled'
  <2> SUFFICES ASSUME NEW i \in DOMAIN outcome', Got(i)'
               PROVE  /\ outcome'[i].snap.calm = StableFrames
                      /\ \A j \in 1 .. i - 1 :
                           Got(j)' => outcome'[j].snap.frame < outcome'[i].snap.frame
    BY DEF SnapshotsAreSettled
  <2>1. CASE i = n
    <3>1. \A j \in 1 .. i - 1 : j \in DOMAIN outcome
      BY <1>1, <2>1
    <3>2. IsNew(pending) /\ o.snap = pending
      BY <1>1, <2>1 DEF Got, DriverInv, SlotInOrder
    <3> QED
      BY <1>1, <2>1, <3>1, <3>2 DEF Got, IsNew
  <2>2. CASE i # n
    <3>1. i \in DOMAIN outcome /\ \A j \in 1 .. i - 1 : j \in DOMAIN outcome
      BY <1>1, <1>2, <2>2
    <3> QED
      BY <1>1, <3>1 DEF Got, DriverInv, SnapshotsAreSettled
  <2> QED
    BY <2>1, <2>2
<1>7. SlotInOrder'
  <2>1. ASSUME NEW s, IsNew(s), o.kind = "frame" => o.snap.frame < s.frame
        PROVE  s.calm = StableFrames /\ s.frame < nframe'
               /\ \A i \in DOMAIN outcome' : Got(i)' => outcome'[i].snap.frame < s.frame
    BY <1>1, <1>2, <2>1 DEF IsNew, Got
  <2>2. pending' # NoFrame => IsNew(pending)'
    <3> SUFFICES ASSUME pending' # NoFrame PROVE IsNew(pending)'
      OBVIOUS
    <3>1. pending' = pending /\ o.kind # "frame" /\ IsNew(pending)
      BY DEF DriverInv, SlotInOrder
    <3> QED
      BY <2>1, <3>1 DEF IsNew
  <2>3. ASSUME reader' = "slot"
        PROVE  IsNew(snapshot)' /\ (pending' # NoFrame => pending'.frame < snapshot'.frame)
    <3>1. IsNew(snapshot) /\ (o.kind = "frame" => o.snap.frame < snapshot.frame)
      BY <2>3 DEF DriverInv, SlotInOrder
    <3>2. IsNew(snapshot)'
      BY <2>1, <3>1 DEF IsNew
    <3> QED
      BY <2>3, <3>2 DEF DriverInv, SlotInOrder
  <2> QED
    BY <2>2, <2>3 DEF SlotInOrder
<1>8. SceneFollowed'
  BY DEF DriverInv, SceneFollowed
<1> QED
  BY <1>4, <1>5, <1>6, <1>7, <1>8 DEF DriverInv

LEMMA DriverMoves ==
  ASSUME DriverInv, DriverNext
  PROVE  DriverInv'
<1>1. CASE ReadFrame
  BY <1>1, FrameIsRead
<1>2. CASE FillSlot
  <2>1. /\ reader = "slot" /\ reader' = "event" /\ pending' = snapshot
        /\ UNCHANGED <<scene, quiet, best, nframe, calm, snapshot, outcome>>
    BY <1>2 DEF FillSlot, waiter
  <2>2. IsNew(pending)'
    BY <2>1 DEF DriverInv, SlotInOrder, IsNew, Got
  <2> QED
    BY <2>1, <2>2 DEF DriverInv, DriverTypeOK, SceneFollowed, SlotInOrder, ReturnedBefore,
                      SnapshotsAreSettled, Got
<1>3. CASE \/ SetEvent \/ CallNextFrame \/ WakeUp
  <2>1. /\ UNCHANGED <<quiet, best, nframe, calm, snapshot, pending, outcome>>
        /\ \/ reader' = "read" /\ scene' = "CAPTURED"
           \/ UNCHANGED <<reader, scene>>
    BY <1>3 DEF SetEvent, CallNextFrame, WakeUp, waiter, slot
  <2> QED
    BY <2>1 DEF DriverInv, DriverTypeOK, SceneFollowed, SlotInOrder, ReturnedBefore,
                SnapshotsAreSettled, Got, IsNew
<1>4. CASE TimeOut
  <2> DEFINE o == [kind |-> "timeout", snap |-> NoFrame]
  <2>1. o \in [kind : {"frame", "error", "timeout"}, snap : Snapshots] /\ o.kind # "frame"
    BY DEF NoFrame, Snapshots, Scores
  <2>2. /\ outcome' = Append(outcome, o) /\ pending' = pending
        /\ UNCHANGED <<reader, scene, quiet, best, nframe, calm, snapshot>>
    BY <1>4 DEF TimeOut, slot
  <2> HIDE DEF o
  <2> QED
    BY <2>1, <2>2, CallReturns
<1>5. CASE Take
  <2> DEFINE o == [kind |-> IF pending = NoFrame THEN "error" ELSE "frame", snap |-> pending]
  <2>1. /\ o \in [kind : {"frame", "error", "timeout"}, snap : Snapshots]
        /\ o.kind = "frame" => o.snap = pending /\ pending # NoFrame
    BY DEF DriverInv, DriverTypeOK
  <2>2. /\ outcome' = Append(outcome, o) /\ pending' = NoFrame
        /\ UNCHANGED <<reader, scene, quiet, best, nframe, calm, snapshot>>
    BY <1>5 DEF Take, Return
  <2> HIDE DEF o
  <2> QED
    BY <2>1, <2>2, CallReturns
<1> QED
  BY <1>1, <1>2, <1>3, <1>4, <1>5 DEF DriverNext

-----------------------------------------------------------------------------
(* The live stream.                                                        *)

Working == {"save", "detect", "verdict", "publish"}

StreamInv ==
  /\ session \in Nat /\ disk \in Int /\ cut \in Nat /\ bgr \in Nat /\ jpeg \in Nat
  /\ cycle \in [frame : Nat, detection : Detections \cup {"none"}, verdict : BOOLEAN]
  /\ sent.session \in Nat /\ sent.frame \in Nat
  /\ task \in Working \cup {"off", "warmup", "idle", "cleanup", "done"}
  /\ op \in {"none", "stop", "close"}
  \* Without a stream there is no task, no reader and no stop under way.
  /\ holder = Nobody => task = "off" /\ capture = "off" /\ op = "none"
  /\ op = "close" => task = "off"
  \* The last message is of this stream or an earlier one, and of no frame later than
  \* the cycle's, which is none later than the latest.
  /\ sent.session <= session
  /\ jpeg <= bgr
  /\ task \in Working => cycle.frame <= jpeg
  /\ sent.session = session =>
       sent.frame <= jpeg /\ (task \in Working => sent.frame <= cycle.frame)
  /\ disk <= cut + Saved

LEMMA StreamStarts == StreamInit => StreamInv
BY DEF StreamInit, StreamInv, NoCycle, NoMessage, Saved, Working, Nobody

\* The task is that of a stream, and a turn of it keeps the stream.
LEMMA TaskMoves ==
  ASSUME StreamInv, TaskNext
  PROVE  StreamInv'
<1> DEFINE c == cycle'.frame
<1>0. cycle.frame \in Nat
  BY DEF StreamInv
<1>1. CASE WarmUp \/ Leave
  BY <1>1 DEF WarmUp, Leave, StreamInv, Turn, KeepStream, frames, Saved, Working
<1>2. CASE TakeFrame
  <2>1. cycle' \in [frame : Nat, detection : Detections \cup {"none"}, verdict : BOOLEAN]
        /\ cycle'.frame = jpeg
    BY <1>2 DEF TakeFrame, NoCycle, StreamInv
  <2> QED
    BY <1>2, <2>1 DEF TakeFrame, StreamInv, Turn, KeepStream, frames, Saved, Working
<1>3. CASE SaveFrame
  BY <1>0, <1>3 DEF SaveFrame, StreamInv, Turn, KeepStream, frames, Saved, Working
<1>4. CASE DetectFrame \/ DescribeFrame
  <2>1. cycle' \in [frame : Nat, detection : Detections \cup {"none"}, verdict : BOOLEAN]
        /\ cycle'.frame = cycle.frame
    BY <1>4 DEF DetectFrame, DescribeFrame, StreamInv
  <2> QED
    BY <1>0, <1>4, <2>1
       DEF DetectFrame, DescribeFrame, StreamInv, Turn, KeepStream, frames, Saved, Working
<1>5. CASE Publish
  <2>1. /\ sent'.session = session /\ sent'.frame = cycle.frame
        /\ cycle' \in [frame : Nat, detection : Detections \cup {"none"}, verdict : BOOLEAN]
    BY <1>5 DEF Publish, Message, NoCycle
  <2> QED
    BY <1>0, <1>5, <2>1 DEF Publish, StreamInv, Turn, KeepStream, frames, Saved, Working
<1>6. CASE CleanUp
  BY <1>0, <1>6 DEF CleanUp, StreamInv, Turn, KeepStream, frames, Saved, Working
<1>7. CASE CycleRaises
  <2>1. cycle' \in [frame : Nat, detection : Detections \cup {"none"}, verdict : BOOLEAN]
    BY <1>7 DEF CycleRaises, NoCycle
  <2> QED
    BY <1>0, <1>7, <2>1 DEF CycleRaises, StreamInv, KeepStream, frames, Saved, Working
<1> QED
  BY <1>1, <1>2, <1>3, <1>4, <1>5, <1>6, <1>7 DEF TaskNext

LEMMA StreamMoves ==
  ASSUME StreamInv, NEW free, StreamNext(free)
  PROVE  StreamInv'
<1>0. cycle.frame \in Nat
  BY DEF StreamInv
<1> USE WorkersAssumption DEF Nobody
<1>1. ASSUME NEW w \in Workers, StartStream(w, free) PROVE StreamInv'
  <2>1. /\ task = "off" /\ session \in Nat /\ session' = session + 1 /\ sent' = sent
        /\ sent.session <= session /\ sent.session \in Nat
    BY <1>1 DEF StartStream, StreamInv
  <2>2. sent'.session # session'
    BY <2>1
  <2>3. cycle' \in [frame : Nat, detection : Detections \cup {"none"}, verdict : BOOLEAN]
    BY <1>1 DEF StartStream, NoCycle
  <2> QED
    BY <1>1, <2>1, <2>2, <2>3 DEF StartStream, StreamInv, Saved, Working
<1>2. ASSUME NEW w \in Workers, StopElsewhere(w) \/ StopStream(w) PROVE StreamInv'
  BY <1>0, <1>2 DEF StopElsewhere, StopStream, StreamInv, frames, analysis, Saved, Working
<1>3. CASE ReadPicture \/ ReadBlocks \/ ReadReturns \/ LeakedReturns
  <2>1. jpeg' = jpeg \/ jpeg' = bgr + 1
    BY <1>3 DEF ReadPicture, ReadBlocks, ReadReturns, LeakedReturns
  <2> QED
    BY <1>0, <1>3, <2>1
       DEF ReadPicture, ReadBlocks, ReadReturns, LeakedReturns, StreamInv, analysis, Saved, Working
<1>4. CASE TaskNext
  BY <1>4, TaskMoves
<1>5. CASE EndTask
  <2>1. cycle' \in [frame : Nat, detection : Detections \cup {"none"}, verdict : BOOLEAN]
    BY <1>5 DEF EndTask, NoCycle
  <2> QED
    BY <1>5, <2>1 DEF EndTask, StreamInv, frames, Saved, Working
<1>6. CASE CloseCapture
  BY <1>0, <1>6 DEF CloseCapture, StreamInv, analysis, Saved, Working
<1> QED
  BY <1>1, <1>2, <1>3, <1>4, <1>5, <1>6 DEF StreamNext, ManagerNext
\* A message is published by a task of the stream, with the frame of its cycle.
LEMMA FeedMoves ==
  ASSUME StreamInv, StreamInv', NEW free, StreamNext(free)
  PROVE  FeedStep
<1>1. /\ disk' <= cut' + Saved'
      /\ holder' = Nobody => task' = "off" /\ capture' = "off"
  BY DEF StreamInv
<1>2. CASE Publish
  <2>1. task = "publish" /\ sent' = Message
    BY <1>2 DEF Publish, Turn
  <2>2. holder # Nobody /\ (sent.session = session => sent.frame <= cycle.frame)
    BY <2>1 DEF StreamInv, Working
  <2>3. /\ sent'.session = session /\ sent'.frame = cycle.frame
        /\ sent'.detection = cycle.detection /\ sent'.risk = MessageBand(cycle)
    BY <2>1 DEF Message
  <2>4. cycle.detection \in {"findings", "unavailable"} => MessageBand(cycle) # "clear"
    BY DEF MessageBand
  <2> QED
    BY <1>1, <2>2, <2>3, <2>4 DEF FeedStep
<1>3. CASE ~Publish
  <2>1. sent' = sent
    BY <1>3 DEF StreamNext, StartStream, StopElsewhere, StopStream, ReadPicture, ReadBlocks,
                ReadReturns, LeakedReturns, TaskNext, WarmUp, Leave, TakeFrame, SaveFrame,
                DetectFrame, DescribeFrame, CleanUp, CycleRaises, ManagerNext, EndTask,
                CloseCapture, analysis
  <2> QED
    BY <1>1, <2>1 DEF FeedStep
<1> QED
  BY <1>2, <1>3

-----------------------------------------------------------------------------
(* The device and its users.                                               *)

CameraInv == DriverInv /\ StreamInv

LEMMA InitCamera == Init => CameraInv
BY DriverStarts, StreamStarts DEF Init, DriverInit, CameraInv

LEMMA NextCamera == CameraInv /\ [Next]_vars => CameraInv'
<1> SUFFICES ASSUME CameraInv, [Next]_vars PROVE CameraInv'
  OBVIOUS
<1>0. DriverInv /\ StreamInv
  BY DEF CameraInv
<1>1. ASSUME UNCHANGED driver PROVE DriverInv'
  BY <1>0, <1>1 DEF driver, DriverInv, DriverTypeOK, SceneFollowed, SlotInOrder, IsNew,
                    ReturnedBefore, SnapshotsAreSettled, Got
<1>2. ASSUME UNCHANGED stream PROVE StreamInv'
  BY <1>0, <1>2 DEF stream, StreamInv, Saved, Working
<1>3. CASE OpenAgent
  <2>1. DriverInv'
    <3>1. /\ reader = "off" /\ reader' = "read"
          /\ UNCHANGED <<scene, quiet, best, nframe, calm, snapshot, pending, outcome>>
      BY <1>3 DEF OpenAgent, StartReader, slot, waiter
    <3> QED
      BY <1>0, <3>1 DEF DriverInv, DriverTypeOK, SceneFollowed, SlotInOrder, IsNew,
                        ReturnedBefore, SnapshotsAreSettled, Got
  <2> QED
    BY <1>2, <1>3, <2>1 DEF OpenAgent, CameraInv
<1>4. CASE AgentStep
  BY <1>0, <1>2, <1>4, DriverMoves DEF AgentStep, CameraInv
<1>5. CASE CloseAgent
  <2>1. DriverInv'
    BY <1>5, DriverAssumption
       DEF CloseAgent, DriverInv, DriverTypeOK, SceneFollowed, SlotInOrder, ReturnedBefore,
           SnapshotsAreSettled, NoFrame, Snapshots, Scores
  <2> QED
    BY <1>2, <1>5, <2>1 DEF CloseAgent, CameraInv
<1>6. CASE OpenSnapshot \/ ReadAgain \/ CloseSnapshot
  BY <1>1, <1>2, <1>6 DEF OpenSnapshot, ReadAgain, CloseSnapshot, CameraInv
<1>7. CASE Live
  BY <1>0, <1>1, <1>7, StreamMoves DEF Live, CameraInv
<1>8. CASE UNCHANGED vars
  BY <1>1, <1>2, <1>8 DEF vars, CameraInv
<1> QED
  BY <1>3, <1>4, <1>5, <1>6, <1>7, <1>8 DEF Next

\* The agent, one-shot captures and the live stream keep CameraInv.
THEOREM CameraInvariance == Spec => []CameraInv
<1>1. Init => CameraInv
  BY InitCamera
<1>2. CameraInv /\ [Next]_vars => CameraInv'
  BY NextCamera
<1> QED
  BY <1>1, <1>2, PTL DEF Spec

\* Each snapshot next_frame returns is of a settled scene, once, in the order read.
THEOREM SnapshotsSettled == Spec => []SnapshotsAreSettled
<1>1. CameraInv => SnapshotsAreSettled
  BY DEF CameraInv, DriverInv
<1> QED
  BY <1>1, CameraInvariance, PTL

\* Messages of the live feed keep the order of the camera, findings are never shown
\* as clear, and a stop leaves no task and no file of a whole cycle.
THEOREM FeedIsOrderly == Spec => LiveFeedIsOrderly
<1>1. CameraInv /\ CameraInv' /\ [Next]_vars => [FeedStep]_stream
  <2> SUFFICES ASSUME CameraInv, CameraInv', Next PROVE [FeedStep]_stream
    BY DEF vars, stream
  <2>1. CASE Live
    BY <2>1, FeedMoves DEF Live, CameraInv
  <2>2. CASE ~Live
    BY <2>2 DEF Next, OpenAgent, AgentStep, CloseAgent, OpenSnapshot, ReadAgain, CloseSnapshot
  <2> QED
    BY <2>1, <2>2
<1> QED
  BY <1>1, CameraInvariance, PTL DEF Spec, LiveFeedIsOrderly
=============================================================================
