# TLA+ verification of the X-ray Assistant

The repository is a decision-support system for customs X-ray operators: an
acquisition process takes scans off a scanner and posts them to a FastAPI
service; the service runs a detector, stores findings, asks a language model for
a verdict, and lets operators open and decide a scan, with every step written to
an HMAC-chained audit log; a console shows the queue and sends the operators'
decisions. `src/` below means the repository root.

This directory holds TLA+ models of the parts where concurrency, failure and
ordering matter, the TLC configurations that check them on small instances, and
TLAPS proofs of what holds for every instance.

    tlc   -workers 2 -config lifecycle_safety.cfg MCScanLifecycle
    tlapm ScanLifecycleProofs.tla

`PROJECT.json` lists the runs, the mutants that show each property can fail, the
source lines each definition stands for, the hazards and the theorems.

## 1. Inventory

| Component | State it keeps | Operations | Talks to |
|---|---|---|---|
| Scan lifecycle: `app/state/machine.py`, `app/api/v1/{scans,detect,verdict,feedback,camera}.py`, `app/db/session.py`, `app/deps.py` | tables `scans`, `scan_detections`, `scan_verdicts`, `scan_feedback` | capture, detect, verdict, feedback, review, decision | audit sink, label queue, notification hub, detector and verdict generator (calls); PostgreSQL (transactions) |
| Audit log: `app/audit/sink.py` | table `audit_events`, a lock and a connection pool per process | `record`, `verify_chain` | called by every handler; a session of its own |
| Frame watchdog: `acquisition/watchdog.py` | consecutive errors, current executor, abandoned read | `monitored_read`, `_timed_read`, `_reconnect` | scanner driver (a thread), pipeline |
| Acquisition pipeline: `acquisition/pipeline.py`, `datalayer/ingestion.py` | seen hashes, statistics, stop event | `run_forever`, `_run_one_cycle`, `_post_with_retry`, signals | watchdog, image store, `/v1/detect` over HTTP |
| Scanner drivers: `acquisition/{composition,dicos,framegrab}.py`, `acquisition/sdk/` | hot folder and its lock; frame window and capture state | composition at startup, `read_scan` | file system, display grabber, watchdog |
| Image store: `datalayer/storage.py` | content-addressed files | `put`, `get` | ingestion, camera, detector |
| Detector serving: `detector/serving/` | loaded model, category thresholds | `detect` | image store, lifecycle |
| Thresholds: `app/state/thresholds.py`, `app/api/v1/admin.py` | table `threshold_configs`, one cache per worker with a TTL | read, update, invalidate | console, admins |
| Verdict generator, guard, screening: `vlm/{generator,prompts,guard,backend,screen}.py` | none between requests | `generate`, guard, vote | model server, `/v1/verdict`, `/v1/screen` |
| Startup: `app/{main,settings,deps}.py` | which seams are live | validate, wire, stop | all of the above |
| Camera: `camera/{driver,stream,cli}.py`, `app/api/v1/camera.py` | slot and event; latest frame, task, holder of the device | `next_frame`, one-shot capture, stream start and stop | detector, generator, hub |
| Labels and retraining: `datalayer/{active_learning,labelstore,quality,retrain,balance,versioning}.py` | append-only label file, counts at the last retrain per process, job file, manifests | `process_feedback`, `check_and_emit`, `create_snapshot` | feedback endpoint (threads), annotator, trainer |
| Notifications: `app/api/v1/ws.py`, `console/src/lib/ws.ts`, `useWebSocket.ts`, `useScanQueue.ts` | subscribers per lane in one worker; socket, timer and counter of a console | connect, broadcast, drop, reconnect, poll | handlers, console |
| Console: `console/src/App.tsx`, `useScan.ts`, `DecisionPanel.tsx` | scan on the screen, drawn regions, chosen outcome, pending submission | select, load, draw, choose, submit | REST API, feed |
| Authentication, contracts | none | token checks, validation | every handler |
| Training, evaluation, fine-tuning, deployment scripts | files | batch runs by hand | - |

### What is hard

* **Requests race on one scan.** A handler reads the state in one statement,
  re-reads it in another and swaps it in a third, under READ COMMITTED; row and
  unique-key locks decide who waits. The response leaves *before* the commit:
  FastAPI runs the exit code of a `yield` dependency after the response
  (`app/deps.py:161-175`, `app/db/session.py:111-126`).
* **Effects outside the transaction.** Audit events are committed in a session of
  their own, labels are appended to a file, notices are broadcast; none is taken
  back when the request's own transaction is.
* **One chain, several processes.** The container runs two workers
  (`Dockerfile.api:50-54`), which append to one chain.
* **Locks taken in turn**: a lock of the process, a connection of a bounded pool,
  a lock of the database, while the request holds a connection already.
* **Reads that never return** are abandoned, not stopped, and go on in the driver.
* **Posts that time out** may be processed all the same, and are sent again.
* **Crashes and restarts** between any two steps; the dedup set is in memory.
* **Files shared without locks.** Several processes append to one label file, write
  one temporary name of the image store, read one hot folder; nothing is fsynced.
* **Threads and events.** The camera's reader sets an event the caller clears; live
  analysis awaits calls that may never return while the operator asks it to stop.
* **Caches** of one worker that another worker's update does not reach.
* **Answers out of order.** The console's fetches, loads, notices and reconnections
  overlap; notices come before the commit they are about.
* **A model that may say anything**: prose that must not be shown, votes that tie.

### What makes each component correct

* *Lifecycle*: a scan follows the transition table, is decided once, by one
  request, for good; a decided scan has a judgement and an audit event; an answer
  agrees with what is committed; a refused request leaves no row; every request ends.
* *Audit*: the table is one chain that `verify_chain` accepts at every moment; an
  event whose caller got an answer is in it; nothing is removed, changed or slipped
  in; connections come back; every call ends.
* *Watchdog*: no read queues behind a stuck one; threads and scans are lost to hung
  reads only, one each; a ready scan leaves.
* *Pipeline*: one `scan_id` per content and session; every scan ends up in one of
  the books; nothing is sent again after an answer; the loop comes back.
* *Drivers*: every file of the folder is accounted for and leaves it; a picture is
  captured only when the display has settled, and a new one that settles is captured.
* *Image store*: what is referenced can be read once nobody writes it. *Serving*: a
  result rests on the original frames or says FAILED, and the contract accepts it.
* *Thresholds*: a replaced row is served for the TTL and one query at most.
* *Generator*: no prose of the model is shown that did not pass the guard; band, order
  and categories come from the detector. *Screening* only escalates.
* *Startup*: a process that is up has every enabled seam live.
* *Camera*: snapshots are settled, once and in order; the feed is in order and never
  says clear without a working detector; the device is released.
* *Labels*: an acknowledged label can be read; a job rests on reviewed labels.
* *Notifications*: no subscription outlives its connection; one socket per console;
  the queue ends up as committed. *Console*: a decision is about the scan on screen.

`hazards` in `PROJECT.json` gives these at their lines, with the properties that
would catch each one.

## 2. Modules

| Module | What it is |
|---|---|
| `ScanStates` | the states, events and transition table of `machine.py` |
| `ScanArchive` | abstract: one scan appears, moves along the table, is decided once |
| `ScanLifecycle` | detailed: requests, transactions, locks and crashes; implements `ScanArchive` |
| `AuditLog` | abstract: an append-only log |
| `AuditChain` | detailed: `record()` in several workers, `verify_chain`; implements `AuditLog` |
| `FrameWatchdog` | `ConnectionWatchdog` and the reads it abandons |
| `AcquisitionPipeline` | the acquisition process and the API's `/v1/detect` |
| `AcquisitionStartup`, `DicosFolder`, `FrameGrabber` | composition from the environment; the hot folder; the display grabber |
| `ScannerLane` | composes the three with crashes and restarts |
| `ImageStore`, `DetectorServing`, `ThresholdCache` | `put` step by step; `detect`; thresholds and their caches |
| `ScanServing` | composes the three: a scan from its files to what its findings are treated as |
| `LanguageGuard`, `VlmBackend`, `VerdictWriter`, `CargoScreening`, `ApiStartup` | what the guard sees of a text; the requests made of each server; the generator; the screening vote; settings and wiring |
| `VlmService` | composes them: a process comes up, answers a request, stops |
| `CameraDriver`, `CameraStream` | the motion-triggered agent; the API's live camera |
| `CameraStation` | composes them with the one-shot capture around one device |
| `LabelExtraction`, `LabelQueue`, `RetrainScheduler` | labels of a feedback and their gate; the file; when and what to retrain |
| `ActiveLearning` | composes them: threads of several workers, annotator, version tool, faults |
| `NotificationHub`, `ConsoleFeed`, `ScanDesk` | the hub; the console's socket; the scan on its screen |
| `OperatorConsole` | composes them with decisions, network faults and logouts |
| `ScanLifecycleProofs`, `AuditChainProofs`, `DriverProofs`, `PipelineProofs`, `ServingProofs`, `CameraProofs`, `AssistantProofs`, `ConsoleProofs` | theorems, about the lifecycle; the audit chain; watchdog, hot folder and grabber; the acquisition loop; serving; the camera; the language model's service and the label loop; hub and console |
| `MC*` | the instances TLC explores, where a .cfg alone cannot give them |

A composing module EXTENDS its parts, which share no variable, and says which of
their actions may happen together and what each needs of the others.

### ScanLifecycle

*State.* The committed rows (`scan`, `riskFrom`, `verdict`, `feedback`,
`detections`, `decider`): one scan, and for each table the request whose row is
there. `tx[r]` is what request `r` has written and not committed, and the state of
the `Scan` object its session holds (`cached`); a written state is the row lock.
`pc`, `kind`, `result` and `choice` say where a handler stands and what it
carries. `audit`, `labels` and `noticed` are the effects outside the transaction;
`reply` is what the client saw; `aborted` counts crashes.

*Actions.* A handler is cut where another request can act: at each statement that
reads or writes, at each audit event, at the response and at the commit.
`Capture`, `Refuse`, `Detect`, `Verdict`, `Feedback`, `Review` and `DecideScan`
are a handler up to its first cut. `Store*` inserts and reads the state, `Reload*`
is `_transition`'s own read, `Advance*` the compare-and-swap with its error path,
`Commit*` a commit, `Audit*` an event, `Finish` notices and response. `Abort` is a
worker or a connection lost anywhere. One scan suffices: every row names one
`scan_id`, and requests about different scans share no row and no lock of these
tables. That the second read returns the row again and not a remembered object is
SQLAlchemy's weak identity map: only `mark_reviewing` and `decide_scan` hold the
object, and for them `cached` keeps the first value.

The sink's part in this module is one committed append per event; `AuditChain`
justifies that (`ImplementsLog`).

*External.* PostgreSQL's row locks, `ON CONFLICT` waits and rollback are modelled as
the code relies on them. The detector's status and the verdict's risk band are
inputs; without findings the generator takes its CLEAR template.

### AuditChain

*State.* `holder` is the process's lock, `free` the pool, `advisory` the lock of
the database, `draft[c]` the tail a call read and then the row it inserted,
`nextval` the sequence (never taken back), `table` the committed rows. A request
holds one connection when it calls `record()`, which takes a second one inside the
lock.

*Actions.* `Call`, `Lock`, `CheckOut` or `PoolTimeout`, `AdvisoryLock`, `ReadTail`,
`Insert`, `Commit`, `Abort`, `EndRequest`, `Crash`: the awaits of `record()` in
order, each of which may fail. `Commit` may succeed and lose its answer.

*Abstraction.* An HMAC is the sequence of event ids hashed into it: equal exactly
when every link before it is. Payload and timestamps are hashed with the id and
stand for nothing else. That PostgreSQL notices the death of a worker is one step
with the death. The asyncio lock is granted in any order, which allows more than
its queue does.

### FrameWatchdog

*State.* `pc`, `attempt`, `errors` of the two methods; the driver's `connected` and
the hardware's `link`; the scans `waiting` at the scanner; for each thread what its
`read_scan` is doing and the scan it took; `abandoned` is `self._pending`;
`returned` and `lost` are where scans went; `hangs` counts expired hard timeouts.

*Actions.* `Check`, `Connect`, `GiveUp`, `ConnectRaises`, `Submit`, `Return`, `Fail`,
`Hang` are the watchdog; `ReadBundle`, `ReadFails`, `ReadTimesOut`, `ReadDrops`,
`Stick` a thread inside the driver, abandoned threads included; `Produce`,
`LinkDown`, `LinkUp`, `NoticeLink` the scanner. Backoff delays are not modelled.

### AcquisitionPipeline

*State.* `pc`, `stopping`, `current`, `seen`, `attempt`, `stats` of the process and its
`session`; `minted`, one entry per ingest, whose number is the `scan_id`; the
`requests` on the wire or at work (two alike count once, the client waits for the
live one), the `answer` that came back; on the API's side `wired` (there is a
database), its `rows`, and what was `detected`.

*Actions.* `Top`, `Read`, `Unavailable`, `Refuse`, `IngestRaises`, `Ingest`, `Send`,
`TransportError`, `Receive` are the loop; `Detect`, `DetectConflict`, `DetectFails` the
API, which goes on with a request its client gave up; `Stop`, `Crash`, `Restart` the
supervisor and the operating system. `Attempts` evaluates the slice
`_RETRY_BACKOFF[: api_retries - 1]` as Python does, for negative ends too.

With a database `DetectConflict` is what a first post gets: the handler inserts the
scan uncommitted and audits it in another session, whose foreign key does not see
it (finding below). `ScanLifecycle` has the same fact as `Refuse`.

### ScannerLane: AcquisitionStartup, DicosFolder, FrameGrabber

*State.* `env` is what the process is started with: driver and vendor type, form of
the store key, whether the driver's library and its source are there. `folder`
says of each file whether it is absent, being written, whole or moved to `done`;
per thread, `at`, `listed`, `group`, `unmoved` and `frames` are the locals of
`read_scan` and `_try_ingest`, `lock` is `self._lock`; `emitted`, `stayed`,
`malformed` and `orphaned` are the books. The grabber keeps `shown`, `fsm`, `window`.

*Actions.* `Boots` is `build_acquisition_pipeline` returning. A `read_scan` is cut at
the listing, at the lock with the size checks, at decoding, at every move and at the
return; two threads are inside it when the watchdog has abandoned one. A
writer may stall, which makes a partial file look settled; a move may fail.
`Look` is one turn of the grabber's loop: push, classify, return the median.

*Abstraction.* A file is what its tags say and what decoding makes of it; a frame is
the picture it shows, two pictures are `Contrast` apart in mean difference.

### ScanServing: ImageStore, DetectorServing, ThresholdCache

*State.* The files under blob names and temporary names and whether they are whole, where
each lane stands in `put`, what was `acquired`; per request the frames scored so far
and the detections; `rows` of the thresholds, open transactions, and per worker
cache, stamp, lock and load under way.

*Actions.* `Look`, `Open`, `Write`, `Publish` are the four steps of `put`, on a
temporary name that is the same for everyone who stores that content; `CutShort`,
`PowerCut` the faults. `Detect`, `ScoreFrame`, `PredictorRaises` are the detector, one
frame after the other. `PutBegins`, `PutWrites`, `PutCommits` are `update_threshold` up
to the commit after the response; `LoadBegins`, `LoadEnds`, `LoadFails`, `Restart`,
`Tick` the caches and time. `Evaluate` is `evaluate_detections`; no endpoint calls it, so
here a worker judges a finished result by it.

*Abstraction.* A box is four coordinates in half pixels; scores are percent;
encryption is whether a file's bytes are the content's.

### VlmService: LanguageGuard, VlmBackend, VerdictWriter, CargoScreening, ApiStartup

*State.* `settings`, `phase`, `seams`: the process; `stage`, `findings`, `image`, `attempt`,
`broken`, `sent`, `written`, `risk`: one verdict; `upload`, `raws`, `tried`, `results`,
`code`: one screening.

*Actions.* `Validate`, `WireDb`, `WireDetector`, `WireVlm`, `WireScreener`, ... in the order
of `main.py`, each of which may abort the start; `Generate`, `LoadImage`, `Ask`,
`WriteFacts`, `Assemble`; `Upload`, `Infer`, `Conclude`.

*Abstraction.* A text is the class of its length and the kinds of marks the guard's
scans find in it; `CheckedAt` keeps the order in which `check()` appends violations,
because callers look at the first (`FirstViolation`). A message is its role and the form
of its image.

### CameraStation: CameraDriver, CameraStream

*State.* The agent: `reader`, `scene`, `quiet`, `best`, the slot (`pending`, `event`), `caller`,
`outcome`. The stream: which worker is `holder`, what its manager is doing (`op`), the
latest frames, the reader thread (`capture`), `stop`, `task`, `cycle`, temporary frames
on `disk`, the last message. `user`: who else has the device.

*Actions.* A snapshot is encoded, put into the slot and its event set in separate
steps; `next_frame` clears, waits and takes in separate steps. A cycle saves a frame,
detects, describes, publishes and cleans up; `CycleRaises`, `EndTask` and `CloseCapture`
are the ways it is cut. `StartStream` and stop are the manager under its lock; a stop
may reach the worker without the stream.

*Abstraction.* Frames are numbered; a frame's difference is still, motion or strong.

### ActiveLearning: LabelExtraction, LabelQueue, RetrainScheduler

*State.* `text` is the file, a sequence of lines with their origin, status and whether
they break off; per feedback `pc`, its worker, what its check `counts`, its `receipt`; per
worker the cooldown and the count at the last retrain; the job `spec`; what the
version tool has read and the tags it wrote.

*Actions.* Submission with extraction and gate, `EnqueueMany` or `EnqueueTears`, the count,
the emission, the receipt; `Review` is the annotator, who is not in the repository;
`BeginSnapshot` and `EndSnapshot`; faults: writes cut short, job files that cannot be
written, workers that die, power cuts. A batch is one write to a file opened for
appending, so processes tear each other's lines only when a write was cut short.

*Abstraction.* A finding is its category and its box, and those of one feedback are
different; a label says where it comes from, what it is of and, when it was
reclassified, what the model had called it.

### OperatorConsole: NotificationHub, ConsoleFeed, ScanDesk

*State.* Hub: lane sets, each connection's `handler` and `pipe`, the broadcasts under way
with the targets copied. Feed: a `socket` per connection, a `ScanWebSocket` per time the
console is mounted (`ws`, `stopped`, `timer`, `reconnects`, `status`). Desk: `queue`,
`fetches`, the selected and the shown scan, loads, regions, outcome, `posting`.
`decision` says of each scan whether it is noticed or committed: notices are sent inside
the transaction.

*Actions.* `Accept`, `HandlerEnds`, `Broadcast`, `Send`, `SendRaises`, `EndBroadcast`; `Mount`,
`Unmount`, `Opens`, `Closes`, `TimerFires`; `Poll`, `AnswerFetch`, `ShowFetch`, `Select`, `AnswerLoad`,
`ShowLoad`, `Draw`, `Choose`, `Submit`, `Decided`, `Refused`. The server's answer and its
arrival on the screen are two steps, so that answers overtake each other.

*External.* Network and browser: a peer stops reading, goes on, or its connection breaks.

## 3. Runs

| Run | Asks | Instance |
|---|---|---|
| `lifecycle_safety` | Do locks, rows, trail and answers agree with the committed state at every point, is a decision final, and does the scan follow `ScanArchive`? | 3 requests, every endpoint, 2 risk bands, 2 detector answers, 1 crash |
| `lifecycle_liveness` | Does every request end? | 3 requests, endpoints that take locks |
| `audit` | Is the table one valid, append-only chain, are acknowledged events kept, connections returned, and does every call end? | 3 calls, 2 workers, pool of 3, 1 crash |
| `watchdog` | Are threads and scans lost only to hung reads, one each, and do ready scans leave? | 2 scans, 2 attempts, error limit 2, 5 threads, 4 faults |
| `acquisition` | One `scan_id` per content and session, complete books, and does the loop come back? | 2 contents, 3 deliveries, 3 retries, 2 faults, 1 restart, with and without a database |
| `scanners` | Is every file accounted for and does it leave; is a capture settled, and is every new picture that comes to rest captured? | 7 environments; 4 files, 2 threads, 1 mishap; 3 pictures, window of 4, 2 glitches |
| `serving` | Are stored frames whole, results built on the originals and legal, thresholds at most a TTL old? | 3 modes: 3 lanes and ingests; 1 request with boxes of every kind; 2 workers, 2 updates; 1 fault each, with and without encryption |
| `verdict` | Is shown prose guarded, does the verdict follow the findings, does screening only escalate, does startup fail closed? | 11 configurations, 5 finding lists of up to 3, 10 texts, 7 replies, 3 passes, 5 uploads of up to 2 |
| `camera` | Are snapshots settled, is the live feed in order, does the device come back? | 12 frames, 3 calls; 2 workers, 2 streams of 2 pictures, 1 cycle cut short |
| `labels` | Are acknowledged labels in the queue, and do jobs rest on reviews? | 2 feedbacks of 3 mixes, 2 workers, 1 tag, 1 fault |
| `console` | No ghost subscriptions, one socket, and does the queue catch up? | 3 modes: feed with 2 mounts and 2 faults; 2 overlapping fetches; 2 selections with a decision |
| `claim_DecisionRowIsDeciders` | Is the stored judgement the decider's? It is not: section 6. | 3 requests |

### Properties

* `LockDiscipline`: the compare-and-swap holds to the commit: at most one open
  transaction has changed the scan, and what it wrote is still one hop away from
  the committed state.
* `DecidedIsRecorded`: a decided scan has a judgement, and its decider's event is in
  the trail already. `TrailInOrder`: no `scan.opened` follows it.
* `RejectedLeavesNoRow`, `AnsweredDecisionStands`: 4xx/5xx left nothing; 200 on a
  decision means it stands unless a crash took the commit.
* `DecisionIsFinal`, `ImplementsArchive`, `EveryRequestEnds`.
* `ChainVerifies`: `verify_chain` accepts the table under any limit at any moment.
  `AcknowledgedIsStored`, `PoolAccounted` (error paths and restart included),
  `ImplementsLog`, `EveryCallEnds`.
* `NeverQueued`; `HangsCostOne`: a hung read costs one thread, and one scan at most;
  `ReadyScansLeave`.
* `OneScanPerContent`, `Accounted`, `PostedIsDetected`, `LoopComesBack`.
* `FilesAccounted`: whichever threads read, a frame is delivered twice only if its file
  could not be moved, a file in `done` is in one of the books, and two studies are in
  one scan only behind a stalled write. `FilesLeave`: completed files leave, malformed
  ones too. `CaptureIsSettled`: no picture is a mix or a leftover. `RestIsCaptured`: a
  new picture that stays on the display is captured once at least, whether it came during
  a read, between two, or before a timeout, a failed read or a restart.
* `SettledIsWhole`: lanes truncate each other's temporary file and take its name away,
  still what is referenced can be read unless a write was cut short.
  `ResultsRestOnOriginals`: a result that is not FAILED rests on every frame as it was
  acquired. `ResultsAreLegal`: whatever boxes the model emits, the contract takes them.
  `StaleForTtlAtMost`: a replaced row is served for the TTL and one query.
* `GuardedProse`: model prose is shown only when both slots passed, and a text that is
  not worth a retry is not asked again. `VerdictIsFaithful`: each detection once, in
  order; CLEAR only without any, HIGH whenever a severe one scored high; the server
  got the image in the form it reads. `ScreeningEscalates`: clear needs a strict majority
  that said so. `StartupFailsClosed`: no seam is silently missing.
* `SnapshotsAreSettled`: each frame `next_frame` returns had kept still, comes once and in
  order. `LiveFeedIsOrderly`: messages are of the running stream and in frame order, never
  clear with findings or without a detector; temporary frames go with their cycle and the
  task with its stream (a stuck reader may stay: `NoThreadLeaks`, section 6).
  `DeviceIsReleased`: a stop or a capture gives the device back, whatever hangs.
* `AcknowledgedIsQueued`: an acknowledged label can be read, but for one per torn write and
  those a power cut took, and the receipt counts what the contract says.
  `SpecsRestOnReviews`: every class of a job has its minimum of reviewed labels.
* `NoGhosts`: when a connection's coroutine has ended, it is under no lane.
  `OneSocket`: one live socket per console, none at the login screen.
  `QueueCatchesUp`: a console that stays on ends up with the queue as committed.

Each has a mutant in `PROJECT.json`: an operator marked "Mutant:" in its module, put
in the place of the definition it varies, breaks the property. The type invariants,
`OneRowPerScan` and the other parts of the inductive invariants are proved, and the runs
leave them out; section 4 says on which instance TLC checked each.

### Bounds, and why they are enough

* *Three requests.* A scan exists only through a capture, so three requests are a
  capture and every pair of concurrent requests; the races of section 1 are between
  two. One crash loses any one of them at any step. The two risk bands are one
  that raises an alert and one that does not; "no findings" differs from "failed"
  only in name (nothing reads the status), so one of them is left out. Safety uses
  the symmetry of requests; the liveness run does not, as TLC's symmetry is unsound
  there, and leaves out `/v1/detect`, which takes no lock that the capture does not.
* *Three calls, two workers.* Two calls in one worker compete for its lock, two in
  different workers for the advisory lock, and a third can have written the tail.
  A pool of 3 lets two requests exhaust it when the first is inside the lock. The
  sequence and rows are bounded by the calls.
* *Watchdog.* Two scans, because a hang may lose one while the next is read. Four
  faults are two hangs, a frame error and a lost link, or an error streak that
  reaches its limit; five threads are one more than the faults can hang, so the
  bound never disables `Submit`.
* *Pipeline.* Three deliveries of two contents include a repeated one; one restart
  is a second session. Two faults are an ingest and an API error, or two of a kind.
  `ApiRetries = 3` is the default; other values change only `Attempts`.
* *Scanners.* Two channels of one study, a malformed file and one whose decoding raises
  meet every branch of `_try_ingest`; two threads are a read and an abandoned one. A
  window of 4 with a contrast of 20 over a threshold of 6 makes one change visible
  (20 > 3 * 6); `Deadline = 7` is a full window, its settling and three frames more.
* *Serving.* Three lanes are needed for one to publish a name that a second has truncated
  while a third reads it. The boxes are reversed, beyond the frame, half a pixel at odd
  and even places, and touching the edge. `TTL = 2`, `LoadTime = 1` and a clock to 8 leave
  room for two updates, each with a load under way; it starts at 0 or 3 because a
  machine that has been up for less than the TTL behaves differently.
* *Verdict.* Lists of up to three findings put a good, a guarded and a failing reply in
  every order and exceed `MaxRationales`; three passes are the default, and replies that
  agree, disagree and omit give every majority and tie of two flags.
* *Camera.* A settled scene takes five frames with `StableFrames = 2`: twelve are two of
  them, one of which moved again before it had settled and counted afresh, and there is
  a third call. Two streams are a stop and a start on the other worker.
* *Labels.* Two feedbacks are two threads in one worker or in two; one fault of each kind;
  minimums of one and two labels are met and missed.
* *Console.* `MaxReconnects = 1` stands for 20: the counter reaches its limit. Three
  connections in the pool are two mounts and a reconnection; a supervisor's console
  listens to all lanes. The three modes split feed, list and desk, which share only
  the notices: each has the notices in it.

`CHECK_DEADLOCK FALSE`: requests, calls, files and feedbacks are used once, so a run of
them ends; the watchdog ends when it reports the scanner unavailable; reads, faults
and restarts are bounded; processes are stopped.

### Fairness

* `ScanLifecycle`: weak fairness of each request's `Work`: the event loop runs a
  handler that can run, detector and generator answer or time out, and PostgreSQL
  grants a free lock. Nothing for arrivals and crashes.
* `AuditChain`: weak fairness of each call's `Step`, with the pool's timeout among the
  steps. Nothing for `Call`, `Abort` and `Crash`.
* `FrameWatchdog`: weak fairness of the watchdog's own thread, and of a read that is
  not stuck: it takes the scan that is ready, times out or notices the lost link.
  Nothing for hardware: a link that is down may stay down, a stuck read may stay
  stuck.
* `AcquisitionPipeline`: weak fairness of the loop with `TransportError`, which is
  httpx's timeout. Nothing is assumed of the API or of the scanner.
* `ScannerLane`: weak fairness of the supervisor's restart, of each thread's read, of the
  grabber's loop, and of a writer that has begun a file. Nothing makes a file appear or
  the display change.
* `CameraStation`: weak fairness of a capture's bounded reads and of the manager's stop,
  whose waits have timeouts. The detector, the model, subscribers and the reader
  thread may hang for ever.
* `OperatorConsole`: weak fairness of the server's coroutines, sends and transactions, of
  keep-alives, of the browser's timers and answers. Nothing for the network, logins,
  other operators or a failed request.
* `ScanServing`, `ActiveLearning`, `VlmService` state safety only: what they promise is
  about what is there, and their handlers end or fail at once.

## 4. Proofs

Every safety property the runs check, invariant or step, is a theorem too, in eight modules:
for any sets of requests, calls, workers, files, frames, findings, feedbacks and
connections, any limits, and any number of faults and crashes - the bounds of the runs
are constants here, and nothing is assumed of them but that they are numbers. What is
assumed are the named ASSUMEs of the modules, which TLC evaluates on the instances:
`None` is not one of the values it stands beside, a pool, a budget or a number of passes
is not zero, configurations, replies, feedbacks and files are of the kinds the code has.

A property is seldom inductive, so each part has an inductive invariant of its own. TLC
checked every one of them on the run's instance before it was proved; the last column
says over how many states. The runs leave them out, as the theorems say more.

| Module | Invariant | Theorems | States |
|---|---|---|---|
| `ScanLifecycleProofs` | `IInv` | `TypeCorrect`, `LocksAreExclusive`, `DecisionsAreRecorded`, `DecidedForGood`, `Refinement` | 2,036,454 |
| | `AInv` | `RejectionsLeaveNoRow`, `AnsweredDecisionsStand`, `TrailIsInOrder` | 2,036,454 |
| | `KeysInv` | `NoCircleOfRequests`, `SomeRequestIsFree` | 2,036,454 |
| `AuditChainProofs` | `IInv` | `ChainTypeCorrect`, `NoAcknowledgedEventIsLost`, `ChainAlwaysVerifies`, `ChainRefinement` | 83,834 |
| | `PoolInv` | `NoConnectionLeaks` | 83,834 |
| | `HoldersInside` | `NoCircleOfCalls`, `SomeCallIsFree` | 83,834 |
| `DriverProofs` | `IInv` | `HangsAreBounded`, `ReadsAreNotQueued` | 60,082 |
| | `FolderInv` | `EveryFileIsAccounted` | 115,781 |
| | `GrabInv` | `PicturesAreOfARest` | 115,781 |
| `PipelineProofs` | `IInv` | `NoDoubleIngest`, `EveryScanIsAccounted`, `NothingPostedUndetected` | 211,536 |
| `ServingProofs` | `StoreInv`, `DetectorInv`, `CacheInv` | `BlobsSettleWhole`, `NoResultOnOtherPixels`, `BoxesAreAccepted`, `ThresholdsAgeOut` | 666,319 |
| `CameraProofs` | `DriverInv`, `StreamInv` | `SnapshotsSettled`, `FeedIsOrderly` | 230,203 |
| `AssistantProofs` | `StartupInv`, `WriterInv`, `ScreenInv` | `StartsAreClosed`, `ProseIsAlwaysGuarded`, `VerdictsAreFaithful`, `ScreeningsEscalate` | 251,476 |
| | `LoopInv` | `AcknowledgedLabelsAreQueued`, `SpecsRestOnReviewedLabels` | 866,374 |
| `ConsoleProofs` | `HubInv`, `ClientInv` | `NoGhostsAreLeft`, `OneSocketAtATime` | 346,489 |

Each module also has the theorem that its invariants hold (`Invariance`, ...).

### ScanLifecycleProofs

`DecidedIsRecorded` is not inductive: the commit makes it true of rows written
several steps earlier. `IInv` adds what every open transaction holds where its
handler stands (`HandlerHolds`: a written "decided" comes with a feedback row, its
own or a committed one, and past "audit" with the event), that at most one
transaction has written the state and is one hop from the committed one
(`LockDiscipline`), and the same for unique rows (`OneRowPerScan`). Each step leaves rows
and transactions alone (`QuietStep`), inserts (`InsertStep`), wins the swap (`SwapStep`),
commits (`CommittedStep`) or stores the scan; the class lemma settles the parts about
rows and locks, and each action adds its typing and its own place. `DecidedForGood`
and `Refinement` follow from `RowsChange`: only a commit changes the state, by a hop of
the table, and no hop leaves "decided".

`AInv`, relative to `IInv`, is what a request has left behind when it answers: a row that
names a request other than the capture's can only be there once it is done with a 200,
because the answer comes before the commit and an error has rolled back (`Left`). That no
`scan.opened` follows the deciding event is the row lock again: the event is written
while the request holds the row, and an opener holds it for its own event
(`OpenedBefore`).

`KeysInv`, also relative to `IInv`, says at which places a transaction may have an
insert open. A request waits (`WaitsFor`) for a unique key, before its insert, or for the row
lock, at its UPDATE, and the handlers take the key first: `Depth`, the locks a request may
still wait for, is smaller for the one it waits for. So the waiting has no circle, and as long
as requests are under way one of them waits for nobody. That is the part of
`EveryRequestEnds` that fairness does not give.

### AuditChainProofs

The argument is the advisory lock: one call holds it from before it reads the tail
until after its row is committed or gone, so what it read, and the row it then
inserted, is still the end of the table when it commits (`DraftsAreNext`), and the
table stays `Linked`. That sequence numbers may be skipped by rollbacks does no harm,
as links go to the newest row and not to `seq - 1`. `LinkedVerifies` turns that into what
`verify_chain` computes, for the whole table and for every prefix; `ChainRefinement` is
that a commit adds at the end of the order and nothing else touches the table.

`PoolInv` counts: a worker's free connections, its requests' and those `record()` has
open make up its pool. The sets of calls are finite although `Calls` need not be, and a
step moves one connection between two of the three (`PoolMove`).

`HoldersInside` is that the worker's lock is never left with a call that raised, crashed or
returned. With it the two locks are taken in one order as above: who waits for the
worker's lock waits for a call inside, who waits for the advisory lock for one that is
chaining, and that one waits for no lock. The pool is not a lock in this order - the
connections may all be with requests that wait for the holder's lock - but the wait for it
ends with `pool_timeout`, an action of its own.

### DriverProofs

*Watchdog.* To count threads one must know where a dropped scan comes from. `Account`
says that each hang is paid for once: by the abandoned read until the next submission,
afterwards by a thread of its own or - when that read had ended by then - by the one
result thrown away with it. `ReadsAreNotQueued` follows from the order in which executors
are made.

*Hot folder.* `FolderInv` says that only the holder of `self._lock` has files in hand
(`LockIsHeld`, `InHand`), that each frame returned, or about to be, is paid for by its file's
move or by a failed one (`PaidFor`), and that a file that was moved is in a book or in
somebody's hands (`NoneIsMissing`). An abandoned thread is one more reader in all of that.

*Frame grabber.* `GrabInv` ties the counter to the window: no more frames at its end are
alike than were counted (`StillIsCounted`), and a display found at rest fills the window
(`StableIsFull`). That a picture is returned only of a display at rest needs that one change
shows in the mean difference, which the property has as its antecedent
(`Contrast > Thresh * (StableFrames - 1)`).

### PipelineProofs

The three properties rest on each other's bookkeeping: a `scan_id` is new to the books
while it is posted (`Books`), a content is not minted twice in a session as it is entered in
`seen` before its ingest (`MintedOnce`), and the answer that comes back is about the scan in
hand, because every older request has lost its client (`Wire`).

### ServingProofs

`StoreInv`: no file has two names, and a broken one with a name is being written by a
lane, unless a write was cut short; so when nobody writes a content any more its file is
whole, although lanes truncate each other's temporary file. `DetectorInv`: a request has
read, intact, exactly the frames it scored, and every box it keeps lies in the frame, which
is interval arithmetic over the clamping of half pixels. `CacheInv`: a cached row, and one
that a query is bringing, was in force when it was read, and the query is young.

### CameraProofs

The agent and the stream touch nothing of each other's. `DriverInv`: what is in the slot,
or on its way to it, is of a settled scene and newer than all that was returned, through
every order of clearing, filling and setting the event. `StreamInv`: the cycle's frame is not
older than the last message's, and a frame left on disk is of a cycle that was cut short.

### AssistantProofs

*Startup.* The live seams are exactly those the steps made so far had to wire, and each of
these steps let the settings by. *Verdict.* The rationales written are those of the first
findings, in order; the model's passed the guard with both slots; nothing that may not be
put again is ever waiting to be put again. *Screening.* Every result escalates as it should,
and there are results only of an upload of images: a text that is shown is one of the
replies' or the fallback, and counting how often each rank was given settles which flags
may be clear (`TallyCounts`, `RiskBands`).

*Labels.* `AcknowledgedIsQueued` counts, so `LoopInv` keeps books: the labels whose write went
through and which are on no line any longer are as few as the lines power cuts took, and
the lines that break off as few as the writes cut short (`Books`). A reader misses the former,
and the one line that follows each of the latter (`LostIsAccounted`). That receipts agree with
the contract needs the labels of a feedback to be as many as its reviews and missed
regions: two reviews never yield the same label, as a label says what was detected and
what it was taken for (`OneLabelEach`, `ReceiptsAddUp`). `SpecsRestOnReviews` holds without a lock
because counts only grow: lines are appended, reviewed lines stay so, and the one thing
that takes lines away, a power cut, takes every request under way with it (`CountsHold`).

### ConsoleProofs

`HubInv`: whoever is under a lane is being served, and only under lanes that its own
coroutine takes back. `ClientInv`: every socket that is not closed is the current one of the
feed that opened it, only the feed on the screen opens sockets, and its timer runs only
when its own is closed.

### What is only model-checked

* Liveness - `EveryRequestEnds`, `EveryCallEnds`, `ReadyScansLeave`, `LoopComesBack`,
  `FilesLeave`, `RestIsCaptured`, `DeviceIsReleased`, `QueueCatchesUp` - rests on fairness and
  ENABLED, which the prover does not handle. Of the first two the theorems have the safety
  half, that somebody waits for no lock; that such a request or call can step is an
  ENABLED formula, which TLC found true in all the states of the table.
* The statements of section 6, which are false: TLC shows the counterexamples.
* What a definition computes by recursion over its data, for every input: the library's
  induction theorems take an operator as a parameter, which the provers cannot
  instantiate. No module here has a RECURSIVE operator, and the theorems need no induction
  but over steps.

## 5. What is not modelled

* Read-only endpoints of the API, metrics, logging, formatting, token checks and
  contract validation: they change no state; the models take requests that passed.
* Inference, calibration, training, evaluation and fine-tuning: numeric, or batch
  scripts without shared state. Of the detector, what is around the network is.
* Vendor SDK adapters beyond `connect()`: it raises in both, the process does not
  start, and `read_scan` is a stub that cannot be reached.
* Deployment and recovery scripts: run by hand, one at a time.
* The strength of encryption and of the HMAC.
* Functions without a caller in the repository: `broadcast_all`, `enqueue()`,
  `check_and_emit(force=True)`, the DVC stubs. `evaluate_detections` has none either, and
  is modelled as the threshold cache's one user.
* The console's rendering, its live camera view and its upload form; the camera's
  recorder, which writes beside the loop; login and operator management, which are
  single statements.
* In the modelled parts: backoff delays, fidelity logging of the pipeline, the
  watchdog's `disconnect()` (the process ends), the other fields of an audit event,
  pixels, the wording of prompts and texts, report tables.

## 6. Disagreements between code and documentation

`findings` in `PROJECT.json` quotes the text each one contradicts. One has a run:

* `claim_DecisionRowIsDeciders`: an earlier feedback row keeps the decider's
  judgement out; the scan is decided with another operator's outcome on file.

The others that follow are stated in the module named, as the documentation has it,
and are violated: put the name under `INVARIANT`, or under `PROPERTY` where marked
(P), of the configuration named.

| Statement | Configuration | What the code does |
|---|---|---|
| `ScanLifecycle.RacedMeansDecided` | `lifecycle_safety` | answers "decided concurrently" when the swap lost to a review or a verdict |
| `ScanLifecycle.NoticeMeansDecided` | `lifecycle_safety` | broadcasts feedback on a pending scan as `scan.decided` |
| `ScanLifecycle.BankedFeedbackIsAccepted` | `lifecycle_safety` | answers 500 to feedback whose labels are in the training queue |
| `ScanLifecycle.FailedDetectionIsError` | `lifecycle_safety` | never enters ERROR; a FAILED detection goes on to a verdict |
| `ScanLifecycle.AutoAdvanceOnlyWithoutFindings` (P) | `lifecycle_safety` | lets a scan with findings go from ANALYZED to DECIDED |
| `ScanLifecycle.AuditedDecisionTakesEffect` (P) | `lifecycle_liveness`, `MaxAborts = 1` | never reconciles a decision in the trail whose commit was lost |
| `AuditChain.SubChainPerWorker` | `audit` | keeps one chain, not one per process |
| `AuditChain.AHolderGetsAConnection` | `audit` | lets the call inside the lock wait for connections held by those behind it |
| `FrameWatchdog.HealsAllOtherErrors` | `watchdog` | lets exceptions the driver contract does not name out of `monitored_read` |
| `AcquisitionPipeline.SkippedWasPosted` | `acquisition` | drops a scan whose posts all failed as already posted |
| `AcquisitionPipeline.ConflictMeansStored` | `acquisition` | takes the 409 of a rolled-back insert for success |
| `AcquisitionPipeline.RetriesWithinBudget` | `acquisition`, `ApiRetries = 0` | retries twice |
| `VerdictWriter.FactsPassGuard` | `verdict` | writes a fallback the guard would refuse |
| `CargoScreening.NoMarkIsShown` | `verdict` | looks at the first violation only, and lengths come first |
| `CargoScreening.IncompleteEscalates` | `verdict` | lets two replies outvote one with a field left out |
| `ApiStartup.LiveStoreIsReady` | `verdict` | goes live over a database that is down |
| `ApiStartup.BootedMeansTokensWork` | `verdict` | boots with a token secret the token functions do not see |
| `CameraStream.FailureIsNotClear` | `camera` | broadcasts a failed detection as clear |
| `CameraStream.StopMeansStopped` | `camera` | answers a stop on a worker that has no stream |
| `CameraStream.NoThreadLeaks` | `camera` | leaves a reader that does not end in three seconds |
| `CameraStream.DiskStaysClean` | `camera` | leaves the frame of a cycle that raised |
| `CameraDriver.ErrorMeansReaderDied` | `camera` | raises for an event left over from a snapshot already taken |
| `CameraDriver.ScoreTriggered` | `camera` | reports the score of a still frame |
| `DicosFolder.StudiesAreWhole` | `scanners` | emits one channel when the other comes later |
| `ScannerLane.BadFilesLeave` (P) | `scanners` | leaves files whose decoding raises another exception |
| `DicosFolder.OnlyWholeFilesAreRead` | `scanners` | takes a stalled write for a complete one |
| `DicosFolder.DualEnergyHasTwoChannels` | `scanners` | flags one channel as dual-energy |
| `FrameGrabber.OneCapturePerRest` (P) | `scanners` | captures a display at rest again and again |
| `FrameGrabber.EmptyBeltIsNotAScan` | `scanners` | captures an empty belt |
| `FrameGrabber.CaptureWasShown` | `scanners`, `Contrast = 8` | blends two pictures |
| `ScannerLane.BootedCanDecode`, `BootedCanStore`, `OneKeyOpensTheStore` | `scanners` | starts without a decoder, with a store that cannot encrypt, with a key the other processes refuse |
| `ActiveLearning.AcknowledgedSurvives`, `OneSpecPerDelta` (P), `NewClassIsAReason`, `MinimumOfDistinctLabels`, `TrainableIsPositive`, `UnseenWeighsMost`, `SnapshotIsWhatWasHashed` (P), `SeizuresHaveAPositive` | `labels` | does not fsync; counts per process; never finds a new class; counts doubled and negative labels; weighs by a formula that passes its maximum; hashes a later file; gates labels one by one |
| `NotificationHub.ConnectedAreTargets` (P) | `console` | misses operators who connect during a broadcast |
| `ConsoleFeed.OpenMeansServed` | `console` | shows an open feed that nothing serves |
| `OperatorConsole.FeedComesBack` (P) | `console` | stops reconnecting for good |
| `ScanDesk.ShownIsSelected`, `MissedIsOfTheScan`, `OutcomeIsOfTheScan` | `console` | shows whichever answer is last, and submits what was drawn before on it |
| `ImageStore.HalfWrittenNeverAppears` | `serving` | publishes a file another lane has just truncated |
| `ImageStore.StoredIsReadable` (P) | `serving` | takes a broken blob for stored content |
| `DetectorServing.AcquiredIsLoadable` | `serving` | hashes the encrypted file, so nothing encrypted is ever loaded |
| `ThresholdCache.UpdatedIsInForce`, `DatabaseIsInForce` | `serving` | invalidates one cache before the commit; loads late |

Further ones are in `findings` without a statement: nothing writes the REVIEWED status;
a reloaded console signs feedback with a fixed identity; nothing is fetched on a
reconnection; `evaluate_detections` has no caller; crops of an encrypted store are
never loaded.

## 7. Plan

What is left, in order of weight:

1. Abstract specifications with a proved refinement, as `ScanArchive` and `AuditLog` have
   one: a register whose readers lag by a bounded time, which `ThresholdCache`
   implements; a store in which what is referenced is never changed, which
   `ImageStore` implements while no write is cut short; a queue that loses what the
   faults allow, which `LabelQueue` implements.
2. Composition of `ScannerLane` with `AcquisitionPipeline`, and of `ScanLifecycle`'s
   notices with `OperatorConsole`.
3. The safety half of the other liveness properties, as the lifecycle and the audit log
   have it: that in each of the loops a state in which nothing can move is one in which
   everything is done.
