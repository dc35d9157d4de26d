--------------------------- MODULE FrameWatchdog ----------------------------
(***************************************************************************)
(* ConnectionWatchdog of acquisition/watchdog.py: monitored_read runs the  *)
(* driver's read_scan on a one-thread executor under a hard timeout, heals *)
(* timeouts, lost links and malformed frames by reconnecting, and gives up *)
(* when a reconnect budget is used up.                                     *)
(*                                                                         *)
(* A read that outlives the hard timeout is abandoned, not stopped: its    *)
(* thread goes on inside the driver next to the read that follows it.      *)
(* Threads are numbered in the order their executors are made.             *)
(***************************************************************************)
EXTENDS Naturals, FiniteSets

CONSTANTS Scans,        \* the scans the scanner produces
          None,
          Attempts,     \* reconnect_attempts
          MaxErrors,    \* MAX_CONSECUTIVE_FRAME_ERRORS
          MaxThreads,   \* bound: executors made in one run
          MaxFaults     \* bound: frame errors, timeouts, drops and surprises

ASSUME ScansAssumption == None \notin Scans
ASSUME BudgetAssumption == Attempts \in Nat \ {0} /\ MaxErrors \in Nat \ {0}
ASSUME BoundAssumption == MaxThreads \in Nat \ {0} /\ MaxFaults \in Nat

VARIABLES pc,           \* where monitored_read stands
          attempt,      \* the attempt _reconnect is about to make
          errors,       \* consecutive_errors
          connected,    \* driver.is_connected
          link,         \* the scanner hardware answers
          waiting,      \* scans ready at the scanner
          executor,     \* the current executor's thread
          reads,        \* per thread: what its read_scan is doing or came to
          got,          \* per thread: the scan it took from the driver
          abandoned,    \* self._pending: the thread of a read given up on, or 0
          returned,     \* scans handed to the pipeline
          lost,         \* scans of abandoned reads that nobody looked at
          hangs,        \* reads that outlived the hard timeout
          faults        \* faults so far

vars == <<pc, attempt, errors, connected, link, waiting, executor, reads, got,
          abandoned, returned, lost, hangs, faults>>

Threads == 1 .. MaxThreads

\* A thread is idle, inside read_scan, stuck there, or through with it.
ReadStates == {"idle", "reading", "stuck", "bundle", "timeout", "link", "frame",
               "other"}

\* The threads inside read_scan.
Running(t) == reads[t] \in {"reading", "stuck"}

\* What can come of a read that is not a scan.
Failures == {"timeout", "link", "frame", "other"}

ends == <<returned, lost, hangs, faults>>
driver == <<connected, link, waiting>>
threads == <<executor, reads, got, abandoned>>
-----------------------------------------------------------------------------
\* connect() has succeeded: the process does not start otherwise.
Init == /\ pc = "returned" /\ attempt = 0 /\ errors = 0
        /\ connected = TRUE /\ link = TRUE /\ waiting = {}
        /\ executor = 1 /\ abandoned = 0
        /\ reads = [t \in Threads |-> "idle"]
        /\ got = [t \in Threads |-> None]
        /\ returned = {} /\ lost = {} /\ hangs = 0 /\ faults = 0

\* The scans that have left the scanner.
Taken == returned \cup lost \cup {got[t] : t \in Threads}

\* A scan is ready at the scanner.
Produce(s) == /\ s \notin waiting \cup Taken
              /\ waiting' = waiting \cup {s}
              /\ UNCHANGED <<pc, attempt, errors, connected, link, threads, ends>>

\* The hardware goes away and comes back.
LinkDown == /\ link /\ faults < MaxFaults
            /\ link' = FALSE /\ faults' = faults + 1
            /\ UNCHANGED <<pc, attempt, errors, connected, waiting, threads,
                           returned, lost, hangs>>

LinkUp == /\ ~link
          /\ link' = TRUE
          /\ UNCHANGED <<pc, attempt, errors, connected, waiting, threads, ends>>

\* The driver notices that its link is gone: is_connected turns false.
NoticeLink == /\ connected /\ ~link
              /\ connected' = FALSE
              /\ UNCHANGED <<pc, attempt, errors, link, waiting, threads, ends>>

\* The pipeline calls monitored_read again.
CallRead == /\ pc \in {"returned", "raised"}
            /\ pc' = "check"
            /\ UNCHANGED <<attempt, errors, driver, threads, ends>>

\* _reconnect gives the old connection up before its first attempt.
StartReconnect == /\ pc' = "connect" /\ attempt' = 0 /\ connected' = FALSE

\* if not self._driver.is_connected
Check == /\ pc = "check"
         /\ \/ /\ connected
               /\ pc' = "submit"
               /\ UNCHANGED <<attempt, connected>>
            \/ ~connected /\ StartReconnect
         /\ UNCHANGED <<errors, link, waiting, threads, ends>>

\* One attempt of _reconnect.
Connect == /\ pc = "connect" /\ attempt < Attempts
           /\ \/ /\ link
                 /\ connected' = TRUE /\ errors' = 0
                 /\ pc' = "check"
                 /\ UNCHANGED attempt
              \/ /\ ~link
                 /\ attempt' = attempt + 1
                 /\ UNCHANGED <<pc, errors, connected>>
           /\ UNCHANGED <<link, waiting, threads, ends>>

\* driver.connect() raises something else than ScannerConnectionError.
ConnectRaises == /\ pc = "connect" /\ attempt < Attempts /\ faults < MaxFaults
                 /\ pc' = "raised" /\ faults' = faults + 1
                 /\ UNCHANGED <<attempt, errors, driver, threads, returned, lost, hangs>>

GiveUp == /\ pc = "connect" /\ attempt = Attempts
          /\ pc' = "unavailable"
          /\ UNCHANGED <<attempt, errors, driver, threads, ends>>

\* Mutant: the executor is never rotated.
NextThreadQueued == executor

\* The thread of the next read: the executor's own, or a fresh one if the read
\* that was given up on is still running.
NextThread == IF abandoned # 0 /\ Running(abandoned) THEN executor + 1 ELSE executor

\* _timed_read: rotate if need be, submit read_scan.
Submit == /\ pc = "submit"
          /\ NextThread \in Threads
          /\ executor' = NextThread
          /\ reads' = [reads EXCEPT ![NextThread] = "reading"]
          /\ got' = [got EXCEPT ![NextThread] = None]
          /\ lost' = lost \cup ({got[NextThread]} \ {None})
          /\ abandoned' = 0
          /\ pc' = "wait"
          /\ UNCHANGED <<attempt, errors, driver, returned, hangs, faults>>

\* Some thread's read_scan takes a scan from the driver.
ReadBundle(t, s) == /\ Running(t) /\ connected /\ link /\ s \in waiting
                    /\ waiting' = waiting \ {s}
                    /\ reads' = [reads EXCEPT ![t] = "bundle"]
                    /\ got' = [got EXCEPT ![t] = s]
                    /\ UNCHANGED <<pc, attempt, errors, connected, link, executor,
                                   abandoned, ends>>

\* Some thread's read_scan raises.
ReadFails(t, why) == /\ Running(t) /\ faults < MaxFaults
                     /\ why = "link" => ~link
                     /\ reads' = [reads EXCEPT ![t] = why]
                     /\ faults' = faults + 1
                     /\ UNCHANGED <<pc, attempt, errors, driver, executor, got,
                                    abandoned, returned, lost, hangs>>

\* read_scan's own timeout: there was no scan for it to take.
ReadTimesOut(t) == /\ reads[t] = "reading"
                   /\ ~(connected /\ link /\ waiting # {})
                   /\ reads' = [reads EXCEPT ![t] = "timeout"]
                   /\ UNCHANGED <<pc, attempt, errors, driver, executor, got,
                                  abandoned, ends>>

\* Some thread's read_scan stops making progress, for a while or for ever.
Stick(t) == /\ reads[t] = "reading" /\ faults < MaxFaults
            /\ reads' = [reads EXCEPT ![t] = "stuck"]
            /\ faults' = faults + 1
            /\ UNCHANGED <<pc, attempt, errors, driver, executor, got, abandoned,
                           returned, lost, hangs>>

\* The lost link ends a read without counting as a fault of its own.
ReadDrops(t) == /\ reads[t] = "reading" /\ ~link
                /\ reads' = [reads EXCEPT ![t] = "link"]
                /\ UNCHANGED <<pc, attempt, errors, driver, executor, got,
                               abandoned, ends>>

\* Mutant: a scan that arrives as the link drops is thrown away.
ReturnIfConnected == /\ pc = "wait" /\ reads[executor] = "bundle"
                     /\ reads' = [reads EXCEPT ![executor] = "idle"]
                     /\ got' = [got EXCEPT ![executor] = None]
                     /\ errors' = 0
                     /\ \/ /\ connected
                           /\ returned' = returned \cup {got[executor]}
                           /\ pc' = "returned"
                           /\ UNCHANGED <<attempt, connected, lost>>
                        \/ /\ ~connected
                           /\ lost' = lost \cup {got[executor]}
                           /\ StartReconnect
                           /\ UNCHANGED returned
                     /\ UNCHANGED <<link, waiting, executor, abandoned, hangs, faults>>

\* future.result() delivers a bundle: monitored_read returns it.
Return == /\ pc = "wait" /\ reads[executor] = "bundle"
          /\ returned' = returned \cup {got[executor]}
          /\ reads' = [reads EXCEPT ![executor] = "idle"]
          /\ got' = [got EXCEPT ![executor] = None]
          /\ errors' = 0
          /\ pc' = "returned"
          /\ UNCHANGED <<attempt, driver, executor, abandoned, lost, hangs, faults>>

\* How monitored_read goes on after an error of this kind.
Heal(why) == \/ /\ why \in {"timeout", "link"}
                /\ StartReconnect
             \/ /\ why = "frame" /\ errors' >= MaxErrors
                /\ StartReconnect
             \/ /\ why = "frame" /\ errors' < MaxErrors
                /\ pc' = "check"
                /\ UNCHANGED <<attempt, connected>>
             \/ /\ why = "other"
                /\ pc' = "raised"
                /\ UNCHANGED <<attempt, connected>>

\* future.result() delivers an exception.
Fail == /\ pc = "wait" /\ reads[executor] \in Failures
        /\ reads' = [reads EXCEPT ![executor] = "idle"]
        /\ errors' = errors + 1
        /\ Heal(reads[executor])
        /\ UNCHANGED <<link, waiting, executor, got, abandoned, ends>>

\* Mutant: future.result() waits without a timeout.
HangUnnoticed == FALSE /\ UNCHANGED vars

\* The hard timeout: the read is given up on and the driver is reconnected under
\* the thread that still runs inside it.
Hang == /\ pc = "wait" /\ reads[executor] = "stuck"
        /\ abandoned' = executor
        /\ hangs' = hangs + 1
        /\ errors' = errors + 1
        /\ StartReconnect
        /\ UNCHANGED <<link, waiting, executor, reads, got, returned, lost, faults>>

Step == \/ CallRead \/ Check \/ Connect \/ GiveUp \/ Submit \/ Return \/ Fail
        \/ Hang \/ NoticeLink

ReadSome(t) == \E s \in Scans : ReadBundle(t, s)

Next == \/ Step \/ LinkDown \/ LinkUp \/ ConnectRaises
        \/ \E s \in Scans : Produce(s)
        \/ \E t \in Threads : \/ ReadSome(t) \/ ReadDrops(t) \/ Stick(t)
                              \/ ReadTimesOut(t)
                              \/ \E why \in Failures : ReadFails(t, why)

Spec == Init /\ [][Next]_vars

\* The watchdog's thread and the pipeline's loop run on; a read that is neither
\* stuck nor cut off returns the scan that is ready or times out.
Fairness ==
  /\ WF_vars(Step)
  /\ \A t \in Threads : /\ WF_vars(reads[t] = "reading" /\ ReadSome(t))
                         /\ WF_vars(ReadDrops(t) \/ ReadTimesOut(t))

FairSpec == Spec /\ Fairness
-----------------------------------------------------------------------------
\* NeverQueued: a read is never submitted to a worker that is still inside the
\* read it was given up on, "so this read is not blocked behind the stuck one"
\* (_timed_read, watchdog.py:180-224).
NeverQueued == [][pc = "submit" /\ pc' = "wait" => ~Running(executor')]_vars

\* What the driver handed to a read that nobody waits for any more.
Dropped == lost \cup ({got[t] : t \in {u \in Threads : u # executor \/ u = abandoned}}
                       \ {None})

\* HangsCostOne: a hung read costs one thread - "exactly one thread leaks per distinct
\* hang, never one per read" (watchdog.py:189-190) - and one scan at most: whatever
\* else fails, what the driver has handed over reaches the pipeline (_timed_read).
HangsCostOne == executor <= 1 + hangs /\ Cardinality(Dropped) <= hangs

\* ReadyScansLeave: a scan that is ready does not wait for ever behind hung reads,
\* malformed frames and lost links: it is returned, or lost to a hung read, or
\* the watchdog reports the scanner unavailable.
ReadyScansLeave ==
  \A s \in Scans : s \in waiting ~> \/ s \in returned \cup Dropped
                                    \/ pc = "unavailable"
-----------------------------------------------------------------------------
(* A statement of the sources that the code does not keep.                 *)

\* HealsAllOtherErrors: "Raises ScannerUnavailableError only when the reconnect
\* budget is exhausted - all other errors are healed internally"
\* (watchdog.py:121-122).
HealsAllOtherErrors == pc # "raised"
=============================================================================
