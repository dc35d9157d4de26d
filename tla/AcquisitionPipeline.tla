------------------------ MODULE AcquisitionPipeline -------------------------
(***************************************************************************)
(* The acquisition process of acquisition/pipeline.py: read a scan off the *)
(* watchdog, drop it if this session has seen it, ingest it under a fresh  *)
(* scan_id, post it to /v1/detect with retries; and the API at the other   *)
(* end of the wire, which goes on with a request its client has given up.  *)
(*                                                                         *)
(* A scan_id is the number of the ingest that minted it.  A failed read    *)
(* that the loop survives changes nothing (pipeline.py:147-150) and is     *)
(* left out.                                                               *)
(***************************************************************************)
EXTENDS Integers, Sequences, FiniteSets

CONSTANTS Contents,     \* what a scan can show: equal bytes are one content
          None,
          ApiRetries,   \* XRAY_ACQ_API_RETRIES
          MaxReads,     \* bound: scans the scanner delivers
          MaxFaults,    \* bound: lost scanners, failed ingests, errors in the API
          MaxRestarts   \* bound: times the supervisor starts the process again

ASSUME ContentsAssumption == None \notin Contents
ASSUME RetriesAssumption == ApiRetries \in Int
ASSUME BoundsAssumption == /\ MaxReads \in Nat /\ MaxFaults \in Nat
                           /\ MaxRestarts \in Nat

VARIABLES pc,           \* where run_forever stands
          stopping,     \* _stop_event
          current,      \* the content being worked on
          seen,         \* _seen_hashes, in contents
          attempt,      \* attempt of _post_with_retry, from 0
          stats,        \* PipelineStats
          session,      \* how often the process was started again
          minted,       \* per scan_id: whose it is and from which session
          requests,     \* requests on the wire or at work in the API, alike ones
                        \* counted once; the client waits for the live one
          answer,       \* the status code that came back to the client
          wired,        \* whether the API has a database; never changes
          rows,         \* scan_ids committed in the API's scans table
          detected,     \* scan_ids the API ran its detector on and answered 200
          posted,       \* scan_ids logged as posted
          conflicts,    \* scan_ids logged as existing already
          skipped,      \* contents dropped as duplicates in this session
          reads, faults

pipeline == <<current, seen, attempt>>
books == <<stats, posted, conflicts, skipped>>
api == <<requests, answer, wired, rows, detected>>
vars == <<pc, stopping, pipeline, session, minted, api, books, reads, faults>>

\* _RETRY_BACKOFF has three entries, and a slice of a tuple counts an end below
\* zero from the right.
Backoffs(end) == IF end >= 0 THEN IF end <= 3 THEN end ELSE 3
                             ELSE IF end >= -3 THEN 3 + end ELSE 0

\* [0.0] + list(_RETRY_BACKOFF[: self._api_retries - 1])
Attempts == 1 + Backoffs(ApiRetries - 1)

\* The scan_id of the scan in hand.
Scan == Len(minted)

NoStats == [ingested |-> 0, posted |-> 0, failed |-> 0, retries |-> 0]
-----------------------------------------------------------------------------
Init == /\ pc = "top" /\ stopping = FALSE /\ session = 0
        /\ current = None /\ seen = {} /\ attempt = 0 /\ stats = NoStats
        /\ minted = <<>>
        /\ requests = {} /\ answer = "none" /\ wired \in BOOLEAN /\ rows = {} /\ detected = {}
        /\ posted = {} /\ conflicts = {} /\ skipped = {}
        /\ reads = 0 /\ faults = 0

\* while not self._stop_event.is_set()
Top == /\ pc = "top"
       /\ pc' = IF stopping THEN "down" ELSE "read"
       /\ UNCHANGED <<stopping, pipeline, session, minted, api, books, reads,
                      faults>>

\* Mutant: duplicates are not looked for.
ReadUnchecked(c) == /\ pc = "read" /\ reads < MaxReads
                    /\ reads' = reads + 1
                    /\ seen' = seen \cup {c} /\ current' = c /\ pc' = "ingest"
                    /\ UNCHANGED <<stopping, attempt, session, minted, api,
                                   books, faults>>

\* monitored_read returns; a content of this session is dropped, any other is
\* marked as seen before anything is done with it.
Read(c) == /\ pc = "read" /\ reads < MaxReads
           /\ reads' = reads + 1
           /\ \/ /\ c \in seen
                 /\ skipped' = skipped \cup {c} /\ pc' = "top"
                 /\ UNCHANGED <<seen, current>>
              \/ /\ c \notin seen
                 /\ seen' = seen \cup {c} /\ current' = c /\ pc' = "ingest"
                 /\ UNCHANGED skipped
           /\ UNCHANGED <<stopping, attempt, session, minted, api, stats,
                          posted, conflicts, faults>>

\* ScannerUnavailableError leaves run_forever.
Unavailable == /\ pc = "read" /\ faults < MaxFaults
               /\ pc' = "down" /\ faults' = faults + 1
               /\ UNCHANGED <<stopping, pipeline, session, minted, api, books,
                              reads>>

\* The cycle is over.
NextCycle == pc' = "top" /\ current' = None /\ attempt' = 0

\* ingest raises IngestValidationError: counted, and on with the next scan.
Refuse == /\ pc = "ingest" /\ faults < MaxFaults
          /\ faults' = faults + 1
          /\ stats' = [stats EXCEPT !.failed = @ + 1]
          /\ NextCycle
          /\ UNCHANGED <<stopping, seen, session, minted, api, posted,
                         conflicts, skipped, reads>>

\* ingest raises something else (the image store cannot write): the process ends.
IngestRaises == /\ pc = "ingest" /\ faults < MaxFaults
                /\ pc' = "down" /\ faults' = faults + 1
                /\ UNCHANGED <<stopping, pipeline, session, minted, api, books,
                               reads>>

\* ingest stores the frames and mints the scan_id.
Ingest == /\ pc = "ingest"
          /\ minted' = Append(minted, [content |-> current, session |-> session])
          /\ stats' = [stats EXCEPT !.ingested = @ + 1]
          /\ pc' = "post"
          /\ UNCHANGED <<stopping, pipeline, session, api, posted, conflicts,
                         skipped, reads, faults>>

\* One attempt: client.post.
Send == /\ pc = "post"
        /\ requests' = requests \cup {[live |-> TRUE, scan |-> Scan]}
        /\ answer' = "none"
        /\ pc' = "waiting"
        /\ UNCHANGED <<stopping, pipeline, session, minted, wired, rows, detected, books,
                       reads, faults>>

\* Mutant: a scan that could not be posted is not counted.
AgainUncounted == IF attempt + 1 < Attempts
                    THEN /\ attempt' = attempt + 1 /\ pc' = "post"
                         /\ stats' = [stats EXCEPT !.retries = @ + 1]
                         /\ UNCHANGED current
                    ELSE NextCycle /\ UNCHANGED stats

\* The requests nobody waits for, and what becomes of them all when the client
\* hangs up.
Orphans == {r \in requests : ~r.live}
HangUp == requests' = {[r EXCEPT !.live = FALSE] : r \in requests}

\* The attempt failed: the next one after its backoff, or the scan has failed.
Again == \/ /\ attempt + 1 < Attempts
            /\ attempt' = attempt + 1 /\ pc' = "post"
            /\ stats' = [stats EXCEPT !.retries = @ + 1]
            /\ UNCHANGED current
         \/ /\ attempt + 1 >= Attempts
            /\ stats' = [stats EXCEPT !.failed = @ + 1]
            /\ NextCycle

\* httpx.TransportError: the request never left, or it was given up on after
\* api_timeout_s and is still at work.
TransportError == /\ pc = "waiting" /\ answer = "none"
                  /\ HangUp \/ requests' = Orphans
                  /\ Again
                  /\ UNCHANGED <<stopping, seen, session, minted, answer, wired,
                                 rows, detected, posted, conflicts, skipped, reads,
                                 faults>>

\* Mutant: any answer will do.
ReceiveAny == /\ pc = "waiting" /\ answer # "none"
              /\ posted' = posted \cup {Scan}
              /\ stats' = [stats EXCEPT !.posted = @ + 1]
              /\ NextCycle
              /\ UNCHANGED <<stopping, seen, session, minted, api, conflicts,
                             skipped, reads, faults>>

\* Mutant: nobody looks at an answer that is neither 200 nor 409.
ReceiveOnly200 == /\ pc = "waiting" /\ answer = "ok"
                  /\ posted' = posted \cup {Scan}
                  /\ stats' = [stats EXCEPT !.posted = @ + 1]
                  /\ NextCycle
                  /\ UNCHANGED <<stopping, seen, session, minted, api,
                                 conflicts, skipped, reads, faults>>

\* The answer arrives.
Receive == /\ pc = "waiting" /\ answer # "none"
           /\ \/ /\ answer = "ok"
                 /\ posted' = posted \cup {Scan}
                 /\ stats' = [stats EXCEPT !.posted = @ + 1]
                 /\ NextCycle
                 /\ UNCHANGED conflicts
              \/ /\ answer = "conflict"
                 /\ conflicts' = conflicts \cup {Scan}
                 /\ NextCycle
                 /\ UNCHANGED <<posted, stats>>
              \/ /\ answer = "error"
                 /\ Again
                 /\ UNCHANGED <<posted, conflicts>>
           /\ UNCHANGED <<stopping, seen, session, minted, api, skipped, reads,
                          faults>>
-----------------------------------------------------------------------------
\* The API is through with request r; only a client that still waits hears of it.
Reply(r, code) ==
  /\ requests' = requests \ {r}
  /\ answer' = IF r.live THEN code ELSE answer
  /\ UNCHANGED <<pc, stopping, pipeline, session, minted, wired, books, reads>>

\* The audit event of a scan refers to its committed row: the handler's own
\* insert is still uncommitted, and the sink has a session of its own.
AuditAccepts(scan) == wired => scan \in rows

\* POST /v1/detect: record the acquisition, audit it, detect, record, commit.
Detect(r) == /\ r \in requests /\ AuditAccepts(r.scan)
             /\ detected' = detected \cup {r.scan}
             /\ rows' = IF wired THEN rows \cup {r.scan} ELSE rows
             /\ Reply(r, "ok") /\ UNCHANGED faults

\* IntegrityError: rolled back and answered 409.
DetectConflict(r) == /\ r \in requests /\ ~AuditAccepts(r.scan)
                     /\ Reply(r, "conflict") /\ UNCHANGED <<rows, detected, faults>>

\* The detector or the database is not there: 500, 501 or 503.
DetectFails(r) == /\ r \in requests /\ faults < MaxFaults
                  /\ faults' = faults + 1
                  /\ Reply(r, "error") /\ UNCHANGED <<rows, detected>>
-----------------------------------------------------------------------------
\* SIGTERM or SIGINT.
Stop == /\ pc # "down" /\ ~stopping
        /\ stopping' = TRUE
        /\ UNCHANGED <<pc, pipeline, session, minted, api, books, reads, faults>>

\* The process dies.
Crash == /\ pc # "down" /\ session < MaxRestarts
         /\ pc' = "down"
         /\ HangUp
         /\ UNCHANGED <<stopping, pipeline, session, minted, answer, wired, rows,
                        detected, books, reads, faults>>

\* The supervisor starts it again: a new session with empty books.
Restart == /\ pc = "down" /\ session < MaxRestarts
           /\ session' = session + 1
           /\ pc' = "top" /\ stopping' = FALSE
           /\ current' = None /\ seen' = {} /\ attempt' = 0 /\ stats' = NoStats
           /\ posted' = {} /\ conflicts' = {} /\ skipped' = {}
           /\ UNCHANGED <<minted, api, reads, faults>>

Loop == Top \/ Ingest \/ Send \/ Receive
Handle(r) == Detect(r) \/ DetectConflict(r)
Serve == \E r \in requests : Handle(r)

Next == \/ Loop \/ Unavailable \/ Refuse \/ IngestRaises \/ TransportError
        \/ Serve \/ \E r \in requests : DetectFails(r)
        \/ \E c \in Contents : Read(c)
        \/ Stop \/ Crash \/ Restart

Spec == Init /\ [][Next]_vars

\* The loop runs on: a post ends with an answer or, after api_timeout_s, with a
\* TransportError.  Nothing is assumed of the API.
Fairness == WF_vars(Loop \/ TransportError)

FairSpec == Spec /\ Fairness
-----------------------------------------------------------------------------
\* OneScanPerContent: a scan the scanner delivers again, after a reconnect or any
\* later, never gets a second scan_id in the same session ("protects against
\* double-ingest on reconnect", _run_one_cycle).
OneScanPerContent == \A i, j \in DOMAIN minted : minted[i] = minted[j] => i = j

\* Accounted: every scan taken off the scanner in this session ends up in exactly
\* one of the books - posted, existing, failed - unless the process died over it
\* (_run_one_cycle, _post_with_retry).
Accounted ==
  LET settled == stats.posted + stats.failed + Cardinality(conflicts)
  IN  /\ pc \in {"top", "read"} => Cardinality(seen) = settled
      /\ pc \in {"ingest", "post", "waiting"} => Cardinality(seen) = settled + 1

\* PostedIsDetected: what is counted as posted has been through the detector,
\* whichever of its requests was the one that was answered (_post_with_retry,
\* detect).
PostedIsDetected == posted \subseteq detected

\* LoopComesBack: whatever the API does, the loop gets back to the scanner or the
\* process ends: "don't lose the scan loop because the API is momentarily down"
\* (pipeline.py:21-23).
LoopComesBack == pc \in {"ingest", "post", "waiting"} ~> pc \in {"read", "down"}
-----------------------------------------------------------------------------
(* Statements of the sources that the code does not keep.                  *)

\* SkippedWasPosted: "skip frames already posted in this session"
\* (pipeline.py:152): a dropped duplicate of an ingested scan has reached the API.
SkippedWasPosted ==
  \A s \in DOMAIN minted :
    minted[s].session = session /\ minted[s].content \in skipped
      => s \in posted \cup conflicts

\* ConflictMeansStored: "Idempotent duplicate - the API already has this scan"
\* (pipeline.py:208).
ConflictMeansStored == conflicts \subseteq rows

\* RetriesWithinBudget: "retry up to api_retries times" (pipeline.py:21).
RetriesWithinBudget == attempt > 0 => attempt <= ApiRetries
=============================================================================
