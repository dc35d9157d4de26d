----------------------------- MODULE CameraStream ----------------------------
(* The live camera of the API (src/camera/stream.py, src/app/api/v1/camera.py): *)
(* a reader thread keeps the latest frame, an analysis task puts it to the      *)
(* detector and the language model over and over and broadcasts a message, and  *)
(* a manager per worker starts and stops both. One stream has the device.       *)
EXTENDS Naturals, FiniteSets

CONSTANTS
  Workers,      \* the API's worker processes
  LastSession,  \* streams started, a bound
  LastPicture,  \* frames read per stream, a bound
  LastRaise     \* cycles cut short before another may raise, a bound

ASSUME StreamAssumption == LastSession \in Nat \ {0} /\ LastPicture \in Nat \ {0}
ASSUME WorkersAssumption == "nobody" \notin Workers

VARIABLES
  holder,    \* the worker whose stream has the device, or nobody
  session,   \* streams started so far
  op,        \* what the holder's manager is doing under its lock: none, start, stop, close
  bgr, jpeg, \* the latest frame, and the latest that could be encoded
  capture,   \* the reader thread: off, reading, stuck (inside a read)
  leaked,    \* reader threads still inside a read when their stream was closed
  stop,      \* the analysis task was told to stop
  task,      \* where the analysis task is
  cycle,     \* the cycle's frame, detection and verdict
  disk,      \* temporary frames on disk
  sent,      \* the last message broadcast
  cut,       \* cycles that raised or were cancelled
  missed     \* a stop was missed by a worker while another's stream ran

stream == <<holder, session, op, bgr, jpeg, capture, leaked, stop, task, cycle, disk, sent, cut, missed>>
frames == <<bgr, jpeg, capture, leaked>>
analysis == <<task, cycle, disk, sent, cut>>

Nobody == "nobody"
Detections == {"findings", "nothing", "failed", "unavailable"}
NoCycle == [frame |-> 0, detection |-> "none", verdict |-> FALSE]
NoMessage == [session |-> 0, frame |-> 0, detection |-> "none", risk |-> "none"]

StreamInit ==
  /\ holder = Nobody /\ session = 0 /\ op = "none"
  /\ bgr = 0 /\ jpeg = 0 /\ capture = "off" /\ leaked = 0
  /\ stop = FALSE /\ task = "off" /\ cycle = NoCycle /\ disk = 0
  /\ sent = NoMessage /\ cut = 0 /\ missed = FALSE

\* Start, on a worker without a stream: the device opens and the analyzer starts. A
\* device that is not free is a 503, and a start on the holder is a repeated one:
\* neither changes anything.
StartStream(w, free) ==
  /\ holder = Nobody /\ free /\ session < LastSession
  /\ holder' = w /\ session' = session + 1
  /\ bgr' = 0 /\ jpeg' = 0 /\ capture' = "reading"
  /\ stop' = FALSE /\ task' = "warmup" /\ cycle' = NoCycle
  /\ UNCHANGED <<op, leaked, disk, sent, cut, missed>>

\* Stop, on a worker without a stream, answers that nothing runs.
StopElsewhere(w) ==
  /\ holder # w
  /\ missed' = (missed \/ holder # Nobody)
  /\ UNCHANGED <<holder, session, op, frames, stop, analysis>>

\* Stop, on the holder: the task is told, and then waited for.
StopStream(w) ==
  /\ holder = w /\ op = "none"
  /\ op' = "stop" /\ stop' = TRUE
  /\ UNCHANGED <<holder, session, frames, analysis, missed>>

\* The reader thread: a frame arrives, and is encoded or not; or a read blocks.
ReadPicture ==
  /\ capture = "reading" /\ bgr < LastPicture
  /\ bgr' = bgr + 1 /\ jpeg' \in {jpeg, bgr + 1}
  /\ UNCHANGED <<holder, session, op, capture, leaked, stop, analysis, missed>>

ReadBlocks ==
  /\ capture = "reading" /\ capture' = "stuck"
  /\ UNCHANGED <<holder, session, op, bgr, jpeg, leaked, stop, analysis, missed>>

ReadReturns ==
  /\ capture = "stuck" /\ capture' = "reading"
  /\ UNCHANGED <<holder, session, op, bgr, jpeg, leaked, stop, analysis, missed>>

\* A leaked reader's read returns, and it finds itself told to stop.
LeakedReturns ==
  /\ leaked > 0 /\ leaked' = leaked - 1
  /\ UNCHANGED <<holder, session, op, bgr, jpeg, capture, stop, analysis, missed>>

Turn(from, to) == task = from /\ task' = to
KeepStream == UNCHANGED <<holder, session, op, frames, stop, missed>>

\* The first frame is waited for, but not for ever.
WarmUp == Turn("warmup", "idle") /\ KeepStream /\ UNCHANGED <<cycle, disk, sent, cut>>

\* The loop's condition: told to stop, the task ends.
Leave == stop /\ Turn("idle", "done") /\ KeepStream /\ UNCHANGED <<cycle, disk, sent, cut>>

\* A turn of the loop takes the latest frame and jpeg, also when it had them before.
TakeFrame ==
  /\ ~stop /\ bgr > 0 /\ jpeg > 0 /\ Turn("idle", "save")
  /\ cycle' = [NoCycle EXCEPT !.frame = jpeg]
  /\ KeepStream /\ UNCHANGED <<disk, sent, cut>>

SaveFrame ==
  /\ Turn("save", "detect") /\ disk' = disk + 1
  /\ KeepStream /\ UNCHANGED <<cycle, sent, cut>>

\* The detector answers, with findings, without, or with a failure of its own; an
\* exception, a stub or an answer for another scan makes the analysis unavailable.
DetectFrame ==
  /\ Turn("detect", "verdict")
  /\ \E d \in Detections : cycle' = [cycle EXCEPT !.detection = d]
  /\ KeepStream /\ UNCHANGED <<disk, sent, cut>>

\* A failed detection is not put to the language model, which may fail itself.
DescribeFrame ==
  /\ Turn("verdict", "publish")
  /\ \E v \in IF cycle.detection \in {"failed", "unavailable"} THEN {FALSE} ELSE BOOLEAN :
       cycle' = [cycle EXCEPT !.verdict = v]
  /\ KeepStream /\ UNCHANGED <<disk, sent, cut>>

\* Mutant: without a verdict the band is clear.
BandUnread(c) ==
  IF c.detection = "unavailable" THEN "unavailable"
  ELSE IF c.verdict /\ c.detection = "findings" THEN "found" ELSE "clear"
\* The message's band: the verdict's, or the one of the detections; a failed
\* result has no detections, and a band of none is clear.
MessageBand(c) ==
  IF c.detection = "unavailable" THEN "unavailable"
  ELSE IF c.detection = "findings" THEN "found" ELSE "clear"

Message == [session |-> session, frame |-> cycle.frame, detection |-> cycle.detection, risk |-> MessageBand(cycle)]

\* The broadcast is awaited: a subscriber that does not read holds the task here.
Publish ==
  /\ Turn("publish", "cleanup")
  /\ sent' = Message /\ cycle' = NoCycle
  /\ KeepStream /\ UNCHANGED <<disk, cut>>

\* The temporary frame is removed, when the cycle came this far.
CleanUp ==
  /\ Turn("cleanup", "idle") /\ disk' = disk - 1
  /\ KeepStream /\ UNCHANGED <<cycle, sent, cut>>

\* Writing the frame or building the message raises: the loop logs it and goes on.
CycleRaises ==
  /\ cut < LastRaise
  /\ task \in {"save", "publish"} /\ task' = "idle" /\ cut' = cut + 1
  /\ disk' \in IF task = "save" THEN {disk, disk + 1} ELSE {disk}
  /\ cycle' = NoCycle
  /\ KeepStream /\ UNCHANGED sent

\* Mutant: the task is waited for without a limit.
WaitForTask ==
  /\ op = "stop" /\ task = "done" /\ op' = "close" /\ task' = "off"
  /\ UNCHANGED <<holder, session, frames, stop, cycle, disk, sent, cut, missed>>
\* The task ended, or has not after the cadence and five seconds, and is cancelled:
\* a write or a removal under way in its thread goes on.
EndTask ==
  /\ op = "stop" /\ op' = "close" /\ task' = "off"
  /\ disk' \in {disk} \cup (IF task = "save" THEN {disk + 1} ELSE {})
                        \cup (IF task = "cleanup" THEN {disk - 1} ELSE {})
  /\ cut' = IF task \in {"save", "detect", "verdict", "publish", "cleanup"} THEN cut + 1 ELSE cut
  /\ cycle' = NoCycle
  /\ UNCHANGED <<holder, session, frames, stop, sent, missed>>

\* The reader is joined for three seconds and the device released, whether it ended or not.
CloseCapture ==
  /\ op = "close" /\ op' = "none" /\ holder' = Nobody
  /\ leaked' = IF capture = "stuck" THEN leaked + 1 ELSE leaked
  /\ capture' = "off"
  /\ UNCHANGED <<session, bgr, jpeg, stop, analysis, missed>>

\* The steps of the analysis task; the detector, the model and the hub may never return.
TaskNext ==
  \/ WarmUp \/ Leave \/ TakeFrame \/ SaveFrame \/ DetectFrame
  \/ DescribeFrame \/ Publish \/ CleanUp \/ CycleRaises

ManagerNext == EndTask \/ CloseCapture

StreamNext(free) ==
  \/ \E w \in Workers : StartStream(w, free) \/ StopElsewhere(w) \/ StopStream(w)
  \/ ReadPicture \/ ReadBlocks \/ ReadReturns \/ LeakedReturns
  \/ TaskNext
  \/ ManagerNext

------------------------------------------------------------------------------
Saved == IF task \in {"detect", "verdict", "publish", "cleanup"} THEN 1 ELSE 0

FeedStep ==
  /\ sent' # sent =>
       /\ sent'.session = session /\ holder # Nobody
       /\ sent.session = session => sent.frame <= sent'.frame
       /\ sent'.detection \in {"findings", "unavailable"} => sent'.risk # "clear"
  /\ disk' <= cut' + Saved'
  /\ holder' = Nobody => task' = "off"

\* Messages keep the order of the camera: each is of the running stream and of a
\* frame no older than the last message's; one with findings never says clear, nor
\* does one without a working detector. No temporary frame outlives its cycle
\* unless the cycle raised or was cancelled, and after a stop the analysis task is
\* gone. A reader inside a read may be left behind: NoThreadLeaks below.
LiveFeedIsOrderly == [][FeedStep]_stream

\* A stop on the worker that has the stream ends and frees the device, even with
\* a detector, a model or a subscriber that never answers.
StopReleases == (op = "stop") ~> (holder = Nobody)

\* What _run_detector's docstring says of a failed detector: no silent false clear
\* (src/camera/stream.py:460).
FailureIsNotClear == sent.detection = "failed" => sent.risk # "clear"

\* What the endpoint's summary says: stop ends the loop and releases the camera
\* (src/app/api/v1/camera.py:590). The request may reach the other worker.
StopMeansStopped == ~missed

\* What the manager's docstring says of a stop: no leaked thread (src/app/api/v1/camera.py:378).
NoThreadLeaks == leaked = 0

\* What the cleanup's comment says: the disk does not fill up (src/camera/stream.py:450).
DiskStaysClean == disk <= 1
=============================================================================
