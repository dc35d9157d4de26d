---------------------------- MODULE DriverProofs ----------------------------
(***************************************************************************)
(* What reading a scanner keeps.  Three parts, each with its inductive     *)
(* invariant:                                                              *)
(*                                                                         *)
(*   IInv       FrameWatchdog, for any scans, reconnect budget and number  *)
(*              of faults: a hung read costs one thread and at most one    *)
(*              scan, and no read waits behind it.  The count needs to     *)
(*              know where a dropped scan can come from.  A hang is paid   *)
(*              for once: until the next read is submitted by abandoned,   *)
(*              after that by a thread of its own or, when the read had    *)
(*              ended by then, by the one result that is thrown away with  *)
(*              it (Account).                                              *)
(*   FolderInv  the hot folder of ScannerLane, for any files, number of    *)
(*              threads and mishaps: whoever has the lock, and no one      *)
(*              else, has files in hand, and every frame that was returned *)
(*              is paid for by the file's move or by a failed one.         *)
(*   GrabInv    the frame grabber of ScannerLane, for any pictures, window *)
(*              and threshold: what the counters say of the window.        *)
(***************************************************************************)
EXTENDS FrameWatchdog, ScannerLane, FiniteSetTheorems, SequenceTheorems,
        WellFoundedInduction, TLAPS

-----------------------------------------------------------------------------
(* The watchdog.                                                           *)

Places == {"returned", "check", "submit", "wait", "connect", "unavailable", "raised"}

\* The state space.
TypeOK == /\ pc \in Places
          /\ executor \in Threads
          /\ reads \in [Threads -> ReadStates]
          /\ got \in [Threads -> Scans \cup {None}]
          /\ abandoned \in {0} \cup Threads
          /\ hangs \in Nat

\* Executors that are not made yet have read nothing; a thread has a scan
\* only as the result of its read.
ThreadsInOrder ==
  \A t \in Threads : /\ t > executor => reads[t] = "idle" /\ got[t] = None
                     /\ got[t] # None => reads[t] = "bundle"

\* The read given up on is the current executor's; without one, no read runs
\* on the executor but the one monitored_read waits for.
ExecutorKnown ==
  /\ abandoned # 0 => abandoned = executor /\ pc # "wait"
  /\ abandoned = 0 /\ pc # "wait" => reads[executor] = "idle"

\* Every hang is paid for once.
Account ==
  /\ IsFiniteSet(lost)
  /\ Cardinality(lost) + executor <= hangs + (IF abandoned = 0 THEN 1 ELSE 0)

IInv == TypeOK /\ ThreadsInOrder /\ ExecutorKnown /\ Account

-----------------------------------------------------------------------------

LEMMA InitInv == Init => IInv
<1> SUFFICES ASSUME Init PROVE IInv
  OBVIOUS
<1>1. 1 \in Threads
  BY BoundAssumption DEF Threads
<1>2. TypeOK /\ ThreadsInOrder /\ ExecutorKnown
  BY <1>1 DEF Init, TypeOK, Places, ReadStates, ThreadsInOrder, ExecutorKnown
<1>3. Account
  BY FS_EmptySet DEF Init, Account
<1> QED
  BY <1>2, <1>3 DEF IInv

\* The next read is submitted to a thread that is not inside another: a fresh
\* one, or the executor's own when its read has ended.
LEMMA NextThreadIsFree ==
  ASSUME IInv, pc = "submit", NextThread \in Threads
  PROVE  /\ ~Running(NextThread)
         /\ \/ NextThread = executor
            \/ NextThread = executor + 1 /\ abandoned # 0 /\ got[NextThread] = None
         /\ abandoned = 0 => NextThread = executor /\ got[NextThread] = None
BY DEF IInv, TypeOK, ThreadsInOrder, ExecutorKnown, NextThread, Running, Threads

\* Submitting settles the account of the read that was given up on.
LEMMA SubmitStep ==
  ASSUME IInv, Submit
  PROVE  IInv'
<1> DEFINE n == NextThread
<1>1. /\ pc = "submit" /\ n \in Threads /\ pc' = "wait" /\ executor' = n
      /\ reads' = [reads EXCEPT ![n] = "reading"]
      /\ got' = [got EXCEPT ![n] = None]
      /\ lost' = lost \cup ({got[n]} \ {None})
      /\ abandoned' = 0 /\ hangs' = hangs
  BY DEF Submit
<1>2. /\ n = executor \/ (n = executor + 1 /\ abandoned # 0 /\ got[n] = None)
      /\ abandoned = 0 => n = executor /\ got[n] = None
  BY <1>1, NextThreadIsFree
<1> HIDE DEF n
<1>3. TypeOK'
  BY <1>1 DEF IInv, TypeOK, Places, ReadStates
<1>4. ThreadsInOrder'
  BY <1>1, <1>2 DEF IInv, TypeOK, ThreadsInOrder, Threads
<1>5. ExecutorKnown'
  BY <1>1 DEF ExecutorKnown
<1>6. Account'
  <2>1. /\ executor \in Nat /\ n \in Nat /\ hangs \in Nat
        /\ IsFiniteSet(lost) /\ Cardinality(lost) \in Nat
    BY <1>1, FS_CardinalityType DEF IInv, TypeOK, Account, Threads
  <2>2. CASE got[n] = None
    <3>1. lost' = lost
      BY <1>1, <2>2
    <3>2. Cardinality(lost) + n <= hangs + 1
      BY <1>2, <2>1 DEF IInv, Account
    <3> QED
      BY <1>1, <2>1, <3>1, <3>2 DEF Account
  <2>3. CASE got[n] # None
    <3>1. n = executor /\ abandoned # 0
      BY <1>2, <2>3
    <3>2. lost' = lost \cup {got[n]}
      BY <1>1, <2>3
    <3>3. IsFiniteSet(lost') /\ Cardinality(lost') <= Cardinality(lost) + 1
      BY <2>1, <3>2, FS_AddElement
    <3>4. Cardinality(lost') \in Nat
      BY <3>3, FS_CardinalityType
    <3> QED
      BY <1>1, <2>1, <3>1, <3>3, <3>4 DEF IInv, Account
  <2> QED
    BY <2>2, <2>3
<1> QED
  BY <1>3, <1>4, <1>5, <1>6 DEF IInv

\* The hard timeout adds a hang and the thread that pays for it.
LEMMA HangStep ==
  ASSUME IInv, Hang
  PROVE  IInv'
<1>1. /\ pc = "wait" /\ pc' = "connect" /\ abandoned' = executor /\ hangs' = hangs + 1
      /\ UNCHANGED <<executor, reads, got, lost>>
  BY DEF Hang, StartReconnect
<1>2. abandoned = 0 /\ executor \in Nat \ {0} /\ hangs \in Nat
  BY <1>1 DEF IInv, TypeOK, ExecutorKnown, Threads
<1>3. TypeOK' /\ ThreadsInOrder' /\ ExecutorKnown'
  BY <1>1, <1>2 DEF IInv, TypeOK, ThreadsInOrder, ExecutorKnown, Places
<1>4. Account'
  BY <1>1, <1>2, FS_CardinalityType DEF IInv, Account
<1> QED
  BY <1>3, <1>4 DEF IInv

\* A read that is waited for ends, and is taken note of.
LEMMA AnswerStep ==
  ASSUME IInv, Return \/ Fail
  PROVE  IInv'
<1>1. /\ pc = "wait" /\ pc' \in Places \ {"wait"}
      /\ reads' = [reads EXCEPT ![executor] = "idle"]
      /\ \/ got' = got /\ reads[executor] # "bundle"
         \/ got' = [got EXCEPT ![executor] = None]
      /\ UNCHANGED <<executor, abandoned, lost, hangs>>
  <2>1. CASE Return
    BY <2>1 DEF Return, Places
  <2>2. CASE Fail
    BY <2>2 DEF Fail, Heal, StartReconnect, ends, Failures, Places
  <2> QED
    BY <2>1, <2>2
<1>2. TypeOK' /\ ThreadsInOrder' /\ ExecutorKnown' /\ Account'
  BY <1>1 DEF IInv, TypeOK, ThreadsInOrder, ExecutorKnown, Account, Places, ReadStates
<1> QED
  BY <1>2 DEF IInv

\* A thread inside read_scan goes on, gets stuck, or comes to a result.
LEMMA ThreadStep ==
  ASSUME IInv, NEW t \in Threads,
         \/ ReadSome(t) \/ ReadDrops(t) \/ Stick(t) \/ ReadTimesOut(t)
         \/ \E why \in Failures : ReadFails(t, why)
  PROVE  IInv'
<1>1. /\ Running(t)
      /\ UNCHANGED <<pc, executor, abandoned, lost, hangs>>
      /\ \/ \E s \in Scans : /\ reads' = [reads EXCEPT ![t] = "bundle"]
                             /\ got' = [got EXCEPT ![t] = s]
         \/ \E now \in ReadStates : /\ reads' = [reads EXCEPT ![t] = now]
                                    /\ got' = got
  <2>1. CASE ReadSome(t)
    BY <2>1 DEF ReadSome, ReadBundle, ends
  <2>2. CASE \E why \in Failures : ReadFails(t, why)
    BY <2>2 DEF ReadFails, Failures, ReadStates, driver
  <2>3. CASE ReadDrops(t) \/ Stick(t) \/ ReadTimesOut(t)
    BY <2>3 DEF ReadDrops, Stick, ReadTimesOut, Running, ReadStates, driver, ends
  <2> QED
    BY <2>1, <2>2, <2>3
<1>2. /\ t <= executor /\ got[t] = None
      /\ abandoned = 0 /\ pc # "wait" => t # executor
  BY <1>1 DEF IInv, TypeOK, ThreadsInOrder, ExecutorKnown, Running, Threads
<1>3. TypeOK'
  BY <1>1 DEF IInv, TypeOK, ReadStates
<1>4. \A u \in Threads \ {t} : reads'[u] = reads[u] /\ got'[u] = got[u]
  BY <1>1 DEF IInv, TypeOK
<1>5. got'[t] # None => reads'[t] = "bundle"
  BY <1>1, <1>2 DEF IInv, TypeOK
<1>6. ThreadsInOrder'
  BY <1>1, <1>2, <1>4, <1>5 DEF IInv, TypeOK, ThreadsInOrder, Threads
<1>7. ExecutorKnown'
  BY <1>1, <1>2, <1>4 DEF IInv, TypeOK, ExecutorKnown
<1>8. Account'
  BY <1>1 DEF IInv, Account
<1> QED
  BY <1>3, <1>6, <1>7, <1>8 DEF IInv

\* The steps that leave the threads alone.
LEMMA OutsideStep ==
  ASSUME IInv,
         \/ CallRead \/ Check \/ Connect \/ GiveUp \/ NoticeLink
         \/ LinkDown \/ LinkUp \/ ConnectRaises
         \/ \E s \in Scans : Produce(s)
  PROVE  IInv'
<1>1. /\ UNCHANGED <<executor, reads, got, abandoned, lost, hangs>>
      /\ pc' = pc \/ (pc # "wait" /\ pc' \in Places \ {"wait"})
  <2>1. CASE CallRead \/ Check \/ Connect \/ GiveUp
    BY <2>1 DEF CallRead, Check, Connect, GiveUp, StartReconnect, threads, ends, Places
  <2>2. CASE NoticeLink \/ LinkDown \/ LinkUp \/ ConnectRaises
    BY <2>2 DEF NoticeLink, LinkDown, LinkUp, ConnectRaises, threads, ends, Places
  <2>3. CASE \E s \in Scans : Produce(s)
    BY <2>3 DEF Produce, threads, ends
  <2> QED
    BY <2>1, <2>2, <2>3
<1> QED
  BY <1>1 DEF IInv, TypeOK, ThreadsInOrder, ExecutorKnown, Account

LEMMA NextInv == IInv /\ [Next]_vars => IInv'
<1> SUFFICES ASSUME IInv, [Next]_vars PROVE IInv'
  OBVIOUS
<1>1. CASE UNCHANGED vars
  BY <1>1 DEF vars, IInv, TypeOK, ThreadsInOrder, ExecutorKnown, Account
<1>2. CASE Next
  BY <1>2, SubmitStep, HangStep, AnswerStep, ThreadStep, OutsideStep DEF Next, Step
<1> QED
  BY <1>1, <1>2

\* Threads, results and hangs stay accounted for, whatever fails.
THEOREM WatchdogInvariance == Spec => []IInv
BY InitInv, NextInv, PTL DEF Spec

-----------------------------------------------------------------------------

\* The scans held by threads nobody waits for are at most the threads that
\* were given up on.
LEMMA DroppedIsBounded ==
  ASSUME IInv
  PROVE  Cardinality(Dropped) <= hangs
<1> DEFINE last == IF abandoned = 0 THEN executor - 1 ELSE executor
           S == {t \in Threads : (t # executor \/ t = abandoned) /\ got[t] # None}
           T == {got[t] : t \in {u \in Threads : u # executor \/ u = abandoned}} \ {None}
<1>1. /\ executor \in Nat \ {0} /\ hangs \in Nat /\ last \in Nat
      /\ IsFiniteSet(lost) /\ Cardinality(lost) \in Nat
      /\ Cardinality(lost) + last <= hangs
  BY FS_CardinalityType DEF IInv, TypeOK, Account, Threads
<1>2. S \subseteq 1 .. last
  BY DEF IInv, TypeOK, ThreadsInOrder, ExecutorKnown, Threads
<1>3. IsFiniteSet(1 .. last) /\ Cardinality(1 .. last) = last
  <2> HIDE DEF last
  <2> QED
    BY <1>1, FS_Interval
<1>4. IsFiniteSet(S) /\ Cardinality(S) <= last
  BY <1>2, <1>3, FS_Subset
<1>5. IsFiniteSet(T) /\ Cardinality(T) <= Cardinality(S)
  <2> DEFINE f == [t \in S |-> got[t]]
  <2>1. f \in Surjection(S, T)
    BY DEF Surjection
  <2> QED
    BY <1>4, <2>1, FS_Surjection
<1>6. Cardinality(S) \in Nat /\ Cardinality(T) \in Nat
  BY <1>4, <1>5, FS_CardinalityType
<1>7. Dropped = lost \cup T
  BY DEF Dropped
<1>8. /\ Cardinality(lost \cup T) = Cardinality(lost) + Cardinality(T) - Cardinality(lost \cap T)
      /\ IsFiniteSet(lost \cap T)
  BY <1>1, <1>5, FS_Union, FS_Intersection
<1>9. Cardinality(lost \cap T) \in Nat
  BY <1>8, FS_CardinalityType
<1> HIDE DEF last, S, T
<1> QED
  BY <1>1, <1>4, <1>5, <1>6, <1>7, <1>8, <1>9

\* A hung read costs one thread and one scan at most, for any number of
\* hangs, faults and scans.
THEOREM HangsAreBounded == Spec => []HangsCostOne
<1>1. IInv => HangsCostOne
  <2> SUFFICES ASSUME IInv PROVE HangsCostOne
    OBVIOUS
  <2>1. executor <= 1 + hangs
    BY FS_CardinalityType DEF IInv, TypeOK, Account, Threads
  <2> QED
    BY <2>1, DroppedIsBounded DEF HangsCostOne
<1> QED
  BY <1>1, WatchdogInvariance, PTL

\* No read is submitted to a thread that is still inside another.
THEOREM ReadsAreNotQueued == Spec => NeverQueued
<1>1. ASSUME IInv, [Next]_vars
      PROVE  [pc = "submit" /\ pc' = "wait" => ~Running(executor')]_vars
  <2> SUFFICES ASSUME Next, pc = "submit", pc' = "wait" PROVE ~Running(executor')
    BY <1>1 DEF vars
  <2>1. Submit
    <3>1. Step
      BY DEF Next, LinkDown, LinkUp, ConnectRaises, Produce, ReadSome, ReadBundle, ReadDrops, Stick,
             ReadTimesOut, ReadFails
    <3> QED
      BY <3>1 DEF Step, CallRead, Check, Connect, GiveUp, Return, Fail, Hang, NoticeLink
  <2> QED
    BY <1>1, <2>1, NextThreadIsFree DEF Submit
<1> QED
  BY <1>1, WatchdogInvariance, PTL DEF Spec, NeverQueued

-----------------------------------------------------------------------------
(* The hot folder.                                                         *)

FolderTypeOK ==
  /\ folder \in [Files -> {"absent", "partial", "whole", "done"}]
  /\ at \in [Readers -> {"out", "poll", "lock", "decode", "move"}]
  /\ lock \in Readers \cup {Nil}
  /\ listed \in [Readers -> SUBSET Files] /\ group \in [Readers -> SUBSET Files]
  /\ unmoved \in [Readers -> SUBSET Files] /\ frames \in [Readers -> SUBSET Files]
  /\ emitted \in [Files -> Nat] /\ stayed \in [Files -> Nat]
  /\ mishaps \in Nat

\* A thread decodes and moves only with the lock.
LockIsHeld == \A r \in Readers : at[r] \in {"decode", "move"} <=> lock = r

\* What a thread has in hand at each place.
InHand ==
  \A r \in Readers :
    /\ at[r] # "move" => frames[r] = {} /\ unmoved[r] = {}
    /\ at[r] = "decode" => \A f \in group[r] : folder[f] # "done"
    /\ at[r] = "move" =>
         /\ frames[r] \subseteq group[r] /\ unmoved[r] \subseteq group[r]
         /\ group[r] \ frames[r] \subseteq malformed
         /\ \A f \in unmoved[r] : folder[f] # "done"

\* A thread has the file's frame and has tried to move the file.
Attempted(f) == \E r \in Readers : f \in frames[r] /\ f \notin unmoved[r]

\* A frame that was, or is about to be, returned is paid for by a move.
PaidFor ==
  \A f \in Files :
    emitted[f] + (IF Attempted(f) THEN 1 ELSE 0)
      <= stayed[f] + (IF folder[f] = "done" THEN 1 ELSE 0)

\* A file that was moved is somewhere.
NoneIsMissing ==
  \A f \in Files : folder[f] = "done" =>
    \/ emitted[f] > 0 \/ f \in malformed \cup orphaned
    \/ \E r \in Readers : at[r] = "move" /\ f \in group[r]

\* Without a mishap a thread's files, when it can read them, are of one study.
StudiesApart ==
  \A r \in Readers :
    /\ at[r] = "move" => env.library
    /\ at[r] \in {"decode", "move"} /\ mishaps = 0 /\ env.library =>
         \A f, g \in group[r] : Header[f].study = Header[g].study

FolderInv == FolderTypeOK /\ LockIsHeld /\ InHand /\ PaidFor /\ NoneIsMissing /\ StudiesApart

LEMMA FolderStarts == LaneInit => FolderInv
BY FilesAssumption
   DEF LaneInit, FolderInit, FolderInv, FolderTypeOK, LockIsHeld, InHand, Attempted, PaidFor,
       NoneIsMissing, StudiesApart

LEMMA FolderStands ==
  ASSUME FolderInv, UNCHANGED <<env, folderVars>>
  PROVE  FolderInv'
<1>1. /\ folder' = folder /\ at' = at /\ lock' = lock /\ listed' = listed /\ group' = group
      /\ unmoved' = unmoved /\ frames' = frames /\ emitted' = emitted /\ stayed' = stayed
      /\ malformed' = malformed /\ orphaned' = orphaned /\ mishaps' = mishaps /\ env' = env
  BY DEF folderVars, scan, history
<1> QED
  BY <1>1 DEF FolderInv, FolderTypeOK, LockIsHeld, InHand, Attempted, PaidFor, NoneIsMissing,
              StudiesApart

\* The scanner's files: only their first two states change.
LEMMA ScannerStep ==
  ASSUME FolderInv, NEW f \in Files, Create(f) \/ Finish(f), env' = env
  PROVE  FolderInv'
<1>1. /\ at' = at /\ lock' = lock /\ listed' = listed /\ group' = group
      /\ unmoved' = unmoved /\ frames' = frames /\ emitted' = emitted /\ stayed' = stayed
      /\ malformed' = malformed /\ orphaned' = orphaned /\ mishaps' = mishaps
      /\ folder[f] # "done"
      /\ \E s \in {"partial", "whole"} : folder' = [folder EXCEPT ![f] = s]
  BY DEF Create, Finish, scan, history
<1>2. /\ folder' \in [Files -> {"absent", "partial", "whole", "done"}]
      /\ \A g \in Files : folder'[g] = "done" <=> folder[g] = "done"
  BY <1>1 DEF FolderInv, FolderTypeOK
<1>3. FolderTypeOK' /\ LockIsHeld'
  BY <1>1, <1>2 DEF FolderInv, FolderTypeOK, LockIsHeld
<1>4. InHand'
  BY <1>1, <1>2 DEF FolderInv, FolderTypeOK, InHand
<1>5. PaidFor'
  BY <1>1, <1>2 DEF FolderInv, PaidFor, Attempted
<1>6. NoneIsMissing' /\ StudiesApart'
  BY <1>1, <1>2 DEF FolderInv, NoneIsMissing, StudiesApart
<1> QED BY <1>3, <1>4, <1>5, <1>6 DEF FolderInv

\* A thread that has nothing in hand goes on to where it has nothing either.
LEMMA IdleStep ==
  ASSUME FolderInv, NEW r \in Readers, NEW place \in {"out", "poll", "lock"},
         at[r] \notin {"decode", "move"}, at' = [at EXCEPT ![r] = place],
         listed' \in [Readers -> SUBSET Files], mishaps' \in Nat, mishaps <= mishaps',
         UNCHANGED <<env, folder, group, unmoved, frames, lock, history>>
  PROVE  FolderInv'
<1>1. /\ folder' = folder /\ lock' = lock /\ group' = group
      /\ unmoved' = unmoved /\ frames' = frames /\ emitted' = emitted /\ stayed' = stayed
      /\ malformed' = malformed /\ orphaned' = orphaned /\ env' = env
  BY DEF history
<1>2. /\ at' \in [Readers -> {"out", "poll", "lock", "decode", "move"}]
      /\ \A s \in Readers : /\ at'[s] = "move" <=> at[s] = "move"
                            /\ at'[s] = "decode" <=> at[s] = "decode"
  BY DEF FolderInv, FolderTypeOK
<1>3. FolderTypeOK' /\ LockIsHeld'
  BY <1>1, <1>2 DEF FolderInv, FolderTypeOK, LockIsHeld
<1>4. InHand'
  BY <1>1, <1>2 DEF FolderInv, InHand
<1>5. PaidFor'
  BY <1>1 DEF FolderInv, PaidFor, Attempted
<1>6. NoneIsMissing'
  BY <1>1, <1>2 DEF FolderInv, NoneIsMissing
<1>7. StudiesApart'
  <2>1. mishaps' = 0 => mishaps = 0
    BY DEF FolderInv, FolderTypeOK
  <2> QED BY <1>1, <1>2, <2>1 DEF FolderInv, StudiesApart
<1> QED BY <1>3, <1>4, <1>5, <1>6, <1>7 DEF FolderInv

\* The smallest of some files.
LEMMA FirstFile ==
  ASSUME NEW S \in SUBSET Files, S # {}
  PROVE  Min(S) \in S
<1>1. S \subseteq Nat
  BY FilesAssumption
<1>2. \E x \in S : \A y \in S : ~ (<<y, x>> \in OpToRel(<, Nat))
  BY <1>1, NatLessThanWellFounded, WFMin
<1>3. PICK x \in S : \A y \in S : ~ (<<y, x>> \in OpToRel(<, Nat))
  BY <1>2
<1>4. \A y \in S : ~ (y < x)
  BY <1>1, <1>3, Zenon DEF OpToRel
<1>5. \A y \in S : x =< y
  BY <1>1, <1>4
<1> QED BY <1>5 DEF Min

\* The lock is taken only by a thread that finds it free, for files that are there.
LEMMA SettleStep ==
  ASSUME FolderInv, NEW r \in Readers, Settle(r, env.library), env' = env
  PROVE  FolderInv'
<1>0. PICK stalled \in SUBSET Growing(r) :
        \E readable \in SUBSET stalled : Settles(r, stalled, readable, env.library)
  BY DEF Settle
<1>1. PICK readable \in SUBSET stalled : Settles(r, stalled, readable, env.library)
  BY <1>0
<1> DEFINE whole == {f \in listed[r] : folder[f] = "whole"}
           settled == whole \cup stalled
           legible == IF env.library THEN whole \cup readable ELSE {}
<1>2. at[r] = "lock" /\ lock = Nil
  BY DEF Settle
<1>3. /\ stalled \subseteq Files /\ whole \subseteq Files
      /\ \A f \in settled : folder[f] # "done"
  BY DEF Growing, FolderInv, FolderTypeOK
<1>4. Cardinality(stalled) \in Nat /\ (Cardinality(stalled) = 0 => stalled = {})
  BY <1>3, FilesAssumption, FS_Subset, FS_CardinalityType, FS_EmptySet
<1>5. /\ mishaps' = mishaps + Cardinality(stalled) /\ mishaps' \in Nat /\ mishaps <= mishaps'
      /\ listed' = [listed EXCEPT ![r] = {}] /\ listed' \in [Readers -> SUBSET Files]
      /\ folder' = folder /\ unmoved' = unmoved /\ frames' = frames
      /\ emitted' = emitted /\ stayed' = stayed /\ malformed' = malformed
      /\ orphaned' = orphaned
  BY <1>1, <1>4 DEF Settles, history, FolderInv, FolderTypeOK
<1>6. CASE settled = {}
  <2>1. Wait(r) /\ UNCHANGED <<group, lock>>
    BY <1>1, <1>6 DEF Settles
  <2>2. PICK place \in {"poll", "out"} : at' = [at EXCEPT ![r] = place]
    BY <2>1 DEF Wait
  <2> QED BY <1>2, <1>5, <2>1, <2>2, IdleStep DEF history
<1>7. CASE settled # {}
  <2> DEFINE mine == FirstGroup(settled, legible)
  <2>1. /\ at' = [at EXCEPT ![r] = "decode"] /\ lock' = r
        /\ group' = [group EXCEPT ![r] = mine]
    BY <1>1, <1>7 DEF Settles
  <2>2. mine \subseteq settled
    BY DEF FirstGroup
  <2>3. /\ at' \in [Readers -> {"out", "poll", "lock", "decode", "move"}]
        /\ at'[r] = "decode" /\ \A s \in Readers \ {r} : at'[s] = at[s] /\ group'[s] = group[s]
        /\ group'[r] = mine /\ group' \in [Readers -> SUBSET Files]
    BY <1>3, <2>1, <2>2 DEF FolderInv, FolderTypeOK
  <2>4. \A s \in Readers : at[s] \notin {"decode", "move"}
    BY <1>2, FilesAssumption DEF FolderInv, LockIsHeld
  <2>5. mishaps' = 0 /\ env.library => \A f, g \in mine : Header[f].study = Header[g].study
    <3>1. SUFFICES ASSUME mishaps' = 0, env.library
                   PROVE  \A f, g \in mine : Header[f].study = Header[g].study
      OBVIOUS
    <3>2. stalled = {}
      BY <1>4, <1>5, <3>1 DEF FolderInv, FolderTypeOK
    <3>3. settled = legible /\ settled \in SUBSET Files
      BY <1>3, <3>1, <3>2
    <3>4. Min(settled) \in settled
      BY <1>7, <3>3, FirstFile
    <3> HIDE DEF settled, legible
    <3>5. \A f \in mine : Header[f].study = Header[Min(settled)].study
      BY <3>3, <3>4 DEF FirstGroup
    <3> QED BY <3>5
  <2> HIDE DEF mine, settled
  <2>6. FolderTypeOK' /\ LockIsHeld'
    BY <1>5, <2>1, <2>3, <2>4, FilesAssumption DEF FolderInv, FolderTypeOK, LockIsHeld
  <2>7. InHand'
    BY <1>3, <1>5, <2>2, <2>3, <2>4 DEF FolderInv, InHand
  <2>8. PaidFor'
    BY <1>5 DEF FolderInv, PaidFor, Attempted
  <2>9. NoneIsMissing'
    BY <1>5, <2>3, <2>4 DEF FolderInv, NoneIsMissing
  <2>10. StudiesApart'
    BY <2>3, <2>4, <2>5 DEF FolderInv, StudiesApart
  <2> QED BY <2>6, <2>7, <2>8, <2>9, <2>10 DEF FolderInv
<1> QED BY <1>6, <1>7

\* A read that ends gives the lock back and has nothing in hand.
LEMMA LeaveKeeps ==
  ASSUME FolderInv, NEW r \in Readers, Leave(r), lock = r, unmoved[r] = {}, env' = env,
         UNCHANGED <<listed, unmoved, mishaps>>
  PROVE  /\ at' \in [Readers -> {"out", "poll", "lock", "decode", "move"}]
         /\ group' \in [Readers -> SUBSET Files] /\ frames' \in [Readers -> SUBSET Files]
         /\ at'[r] = "out" /\ frames'[r] = {} /\ lock' = Nil
         /\ \A s \in Readers \ {r} : /\ at'[s] = at[s] /\ at[s] \notin {"decode", "move"}
                                     /\ group'[s] = group[s] /\ frames'[s] = frames[s]
                                     /\ frames[s] = {}
         /\ LockIsHeld' /\ StudiesApart'
<1>1. /\ at' \in [Readers -> {"out", "poll", "lock", "decode", "move"}]
      /\ group' \in [Readers -> SUBSET Files] /\ frames' \in [Readers -> SUBSET Files]
      /\ at'[r] = "out" /\ frames'[r] = {} /\ lock' = Nil
      /\ \A s \in Readers \ {r} : /\ at'[s] = at[s] /\ group'[s] = group[s]
                                  /\ frames'[s] = frames[s]
  BY DEF Leave, FolderInv, FolderTypeOK
<1>2. \A s \in Readers \ {r} : at[s] \notin {"decode", "move"} /\ frames[s] = {}
  BY DEF FolderInv, LockIsHeld, InHand
<1>3. LockIsHeld' /\ StudiesApart'
  BY <1>1, <1>2, FilesAssumption DEF LockIsHeld, StudiesApart
<1> QED BY <1>1, <1>2, <1>3

LEMMA RaiseStep ==
  ASSUME FolderInv, NEW r \in Readers, DecodeRaises(r, env.library), env' = env
  PROVE  FolderInv'
<1>1. /\ at[r] = "decode" /\ lock = r /\ unmoved[r] = {} /\ frames[r] = {} /\ Leave(r)
      /\ folder' = folder /\ listed' = listed /\ unmoved' = unmoved /\ mishaps' = mishaps
      /\ emitted' = emitted /\ stayed' = stayed /\ malformed' = malformed
      /\ orphaned' = orphaned
  BY DEF DecodeRaises, history, FolderInv, LockIsHeld, InHand
<1>2. /\ at' \in [Readers -> {"out", "poll", "lock", "decode", "move"}]
      /\ group' \in [Readers -> SUBSET Files] /\ frames' \in [Readers -> SUBSET Files]
      /\ at'[r] = "out" /\ frames'[r] = {} /\ lock' = Nil
      /\ \A s \in Readers \ {r} : /\ at'[s] = at[s] /\ at[s] \notin {"decode", "move"}
                                  /\ group'[s] = group[s] /\ frames'[s] = frames[s]
                                  /\ frames[s] = {}
      /\ LockIsHeld' /\ StudiesApart'
  BY <1>1, LeaveKeeps
<1>3. FolderTypeOK'
  BY <1>1, <1>2 DEF FolderInv, FolderTypeOK
<1>4. InHand'
  BY <1>1, <1>2 DEF FolderInv, InHand
<1>5. PaidFor'
  BY <1>1, <1>2 DEF FolderInv, PaidFor, Attempted
<1>6. NoneIsMissing'
  BY <1>1, <1>2 DEF FolderInv, NoneIsMissing
<1> QED BY <1>2, <1>3, <1>4, <1>5, <1>6 DEF FolderInv

LEMMA DecodeStep ==
  ASSUME FolderInv, NEW r \in Readers, Decode(r, env.library), env' = env
  PROVE  FolderInv'
<1> DEFINE good == {f \in group[r] : folder[f] = "whole" /\ Header[f].decodes = "frame"}
<1>1. /\ at[r] = "decode" /\ env.library
      /\ frames' = [frames EXCEPT ![r] = good] /\ malformed' = malformed \cup (group[r] \ good)
      /\ unmoved' = [unmoved EXCEPT ![r] = group[r]] /\ at' = [at EXCEPT ![r] = "move"]
      /\ folder' = folder /\ listed' = listed /\ group' = group /\ lock' = lock
      /\ emitted' = emitted /\ stayed' = stayed /\ orphaned' = orphaned /\ mishaps' = mishaps
  BY DEF Decode
<1>2. /\ good \subseteq group[r] /\ group[r] \subseteq Files
      /\ \A f \in group[r] : folder[f] # "done"
  BY <1>1 DEF FolderInv, FolderTypeOK, InHand
<1> HIDE DEF good
<1>3. /\ at' \in [Readers -> {"out", "poll", "lock", "decode", "move"}]
      /\ unmoved' \in [Readers -> SUBSET Files] /\ frames' \in [Readers -> SUBSET Files]
      /\ at'[r] = "move" /\ frames'[r] = good /\ unmoved'[r] = group[r]
      /\ \A s \in Readers \ {r} : /\ at'[s] = at[s] /\ unmoved'[s] = unmoved[s]
                                  /\ frames'[s] = frames[s]
  BY <1>1, <1>2 DEF FolderInv, FolderTypeOK
<1>4. FolderTypeOK' /\ LockIsHeld'
  BY <1>1, <1>3 DEF FolderInv, FolderTypeOK, LockIsHeld
<1>5. InHand'
  BY <1>1, <1>2, <1>3 DEF FolderInv, InHand
<1>6. PaidFor'
  <2>1. \A f \in Files : Attempted(f)' => Attempted(f)
    BY <1>2, <1>3 DEF Attempted
  <2>2. \A f \in Files : emitted[f] \in Nat /\ stayed[f] \in Nat
    BY DEF FolderInv, FolderTypeOK
  <2> QED BY <1>1, <2>1, <2>2 DEF FolderInv, PaidFor
<1>7. NoneIsMissing'
  BY <1>1, <1>3 DEF FolderInv, NoneIsMissing
<1>8. StudiesApart'
  BY <1>1, <1>3 DEF FolderInv, StudiesApart
<1> QED BY <1>4, <1>5, <1>6, <1>7, <1>8 DEF FolderInv
\* A file is moved once, and a failed move is counted.
LEMMA MoveStep ==
  ASSUME FolderInv, NEW r \in Readers, MoveDone(r), env' = env
  PROVE  FolderInv'
<1> DEFINE f == Min(unmoved[r])
<1>1. /\ at[r] = "move" /\ unmoved[r] # {} /\ unmoved[r] \in SUBSET Files
      /\ unmoved' = [unmoved EXCEPT ![r] = unmoved[r] \ {f}]
      /\ at' = at /\ listed' = listed /\ group' = group /\ frames' = frames /\ lock' = lock
      /\ emitted' = emitted /\ malformed' = malformed /\ orphaned' = orphaned
  BY DEF MoveDone, FolderInv, FolderTypeOK
<1>2. f \in unmoved[r]
  BY <1>1, FirstFile
<1>3. \/ folder' = [folder EXCEPT ![f] = "done"] /\ stayed' = stayed /\ mishaps' = mishaps
      \/ folder' = folder /\ stayed' = [stayed EXCEPT ![f] = stayed[f] + 1]
         /\ mishaps' = mishaps + 1
  BY DEF MoveDone
<1> HIDE DEF f
<1>4. f \in Files /\ f \in group[r] /\ folder[f] # "done"
  BY <1>1, <1>2 DEF FolderInv, InHand
<1>5. /\ unmoved' \in [Readers -> SUBSET Files] /\ unmoved'[r] = unmoved[r] \ {f}
      /\ \A s \in Readers \ {r} : unmoved'[s] = unmoved[s]
  BY <1>1 DEF FolderInv, FolderTypeOK
<1>6. \A s \in Readers \ {r} : frames[s] = {} /\ unmoved[s] = {} /\ at[s] \notin {"decode", "move"}
  BY <1>1 DEF FolderInv, LockIsHeld, InHand
<1>7. /\ FolderTypeOK'
      /\ \A g \in Files \ {f} : folder'[g] = folder[g] /\ stayed'[g] = stayed[g]
      /\ \/ folder'[f] = "done" /\ stayed'[f] = stayed[f]
         \/ folder'[f] = folder[f] /\ stayed'[f] = stayed[f] + 1
      /\ mishaps' = 0 => mishaps = 0
  <2>1. CASE folder' = [folder EXCEPT ![f] = "done"] /\ stayed' = stayed /\ mishaps' = mishaps
    BY <1>1, <1>4, <1>5, <2>1 DEF FolderInv, FolderTypeOK
  <2>2. CASE folder' = folder /\ stayed' = [stayed EXCEPT ![f] = stayed[f] + 1]
             /\ mishaps' = mishaps + 1
    BY <1>1, <1>4, <1>5, <2>2 DEF FolderInv, FolderTypeOK
  <2> QED BY <1>3, <2>1, <2>2
<1>8. LockIsHeld'
  BY <1>1 DEF FolderInv, LockIsHeld
<1>9. InHand'
  BY <1>1, <1>2, <1>5, <1>6, <1>7 DEF FolderInv, InHand, FolderTypeOK
<1>10. PaidFor'
  <2>1. \A g \in Files : emitted[g] \in Nat /\ stayed[g] \in Nat
    BY DEF FolderInv, FolderTypeOK
  <2>2. \A g \in Files \ {f} : Attempted(g)' <=> Attempted(g)
    BY <1>1, <1>5, <1>6 DEF Attempted
  <2>3. ~Attempted(f)
    BY <1>2, <1>6 DEF Attempted
  <2>4. emitted[f] <= stayed[f]
    BY <1>4, <2>1, <2>3 DEF FolderInv, PaidFor
  <2>5. emitted[f] + 1 <= stayed'[f] + (IF folder'[f] = "done" THEN 1 ELSE 0)
    BY <1>4, <1>7, <2>1, <2>4
  <2>6. \A g \in Files \ {f} : emitted[g] + (IF Attempted(g)' THEN 1 ELSE 0)
                                 <= stayed'[g] + (IF folder'[g] = "done" THEN 1 ELSE 0)
    BY <1>7, <2>2 DEF FolderInv, PaidFor
  <2>7. \A g \in Files : emitted[g] + (IF Attempted(g)' THEN 1 ELSE 0)
                           <= stayed'[g] + (IF folder'[g] = "done" THEN 1 ELSE 0)
    <3> SUFFICES ASSUME NEW g \in Files
                 PROVE  emitted[g] + (IF Attempted(g)' THEN 1 ELSE 0)
                          <= stayed'[g] + (IF folder'[g] = "done" THEN 1 ELSE 0)
      OBVIOUS
    <3>1. CASE g = f
      <4>1. emitted[g] \in Nat /\ stayed'[g] \in Nat
        BY <1>7, <2>1 DEF FolderTypeOK
      <4> QED BY <2>5, <3>1, <4>1
    <3>2. CASE g # f
      BY <2>6, <3>2
    <3> QED BY <3>1, <3>2
  <2>8. emitted' = emitted
    BY <1>1
  <2> QED BY <2>7, <2>8 DEF PaidFor
<1>11. NoneIsMissing'
  BY <1>1, <1>4, <1>7 DEF FolderInv, NoneIsMissing
<1>12. StudiesApart'
  BY <1>1, <1>7 DEF FolderInv, StudiesApart
<1> QED BY <1>7, <1>8, <1>9, <1>10, <1>11, <1>12 DEF FolderInv

\* The bundle's frames are counted when no thread has them any longer.
LEMMA ReturnStep ==
  ASSUME FolderInv, NEW r \in Readers, ReturnBundle(r), env' = env
  PROVE  FolderInv'
<1>1. /\ at[r] = "move" /\ lock = r /\ unmoved[r] = {} /\ Leave(r)
      /\ folder' = folder /\ listed' = listed /\ unmoved' = unmoved /\ mishaps' = mishaps
      /\ emitted' = [f \in Files |-> emitted[f] + IF f \in frames[r] THEN 1 ELSE 0]
      /\ stayed' = stayed /\ malformed' = malformed /\ orphaned' = orphaned
  BY DEF ReturnBundle, FolderInv, LockIsHeld
<1>2. /\ at' \in [Readers -> {"out", "poll", "lock", "decode", "move"}]
      /\ group' \in [Readers -> SUBSET Files] /\ frames' \in [Readers -> SUBSET Files]
      /\ at'[r] = "out" /\ frames'[r] = {} /\ lock' = Nil
      /\ \A s \in Readers \ {r} : /\ at'[s] = at[s] /\ at[s] \notin {"decode", "move"}
                                  /\ group'[s] = group[s] /\ frames'[s] = frames[s]
                                  /\ frames[s] = {}
      /\ LockIsHeld' /\ StudiesApart'
  BY <1>1, LeaveKeeps
<1>3. \A f \in Files : /\ emitted[f] \in Nat /\ stayed[f] \in Nat
                       /\ emitted'[f] = emitted[f] + IF f \in frames[r] THEN 1 ELSE 0
  BY <1>1 DEF FolderInv, FolderTypeOK
<1>4. FolderTypeOK'
  BY <1>1, <1>2, <1>3 DEF FolderInv, FolderTypeOK
<1>5. InHand'
  BY <1>1, <1>2 DEF FolderInv, InHand
<1>6. PaidFor'
  <2>1. \A f \in Files : ~Attempted(f)'
    BY <1>2 DEF Attempted
  <2>2. \A f \in Files : f \in frames[r] => Attempted(f)
    BY <1>1 DEF Attempted
  <2>3. \A f \in Files : emitted'[f] <= emitted[f] + IF Attempted(f) THEN 1 ELSE 0
    BY <1>3, <2>2
  <2>4. \A f \in Files : emitted[f] + (IF Attempted(f) THEN 1 ELSE 0)
                           <= stayed[f] + (IF folder[f] = "done" THEN 1 ELSE 0)
    BY DEF FolderInv, PaidFor
  <2>5. \A f \in Files : emitted'[f] <= stayed[f] + (IF folder[f] = "done" THEN 1 ELSE 0)
    BY <1>3, <2>3, <2>4
  <2> QED BY <1>1, <1>3, <2>1, <2>5 DEF PaidFor
<1>7. NoneIsMissing'
  <2>1. SUFFICES ASSUME NEW f \in Files, folder[f] = "done"
                 PROVE  \/ emitted'[f] > 0 \/ f \in malformed \cup orphaned
                        \/ \E s \in Readers : at'[s] = "move" /\ f \in group'[s]
    BY <1>1 DEF NoneIsMissing
  <2>2. CASE emitted[f] > 0
    BY <1>3, <2>2
  <2>3. CASE f \in group[r]
    <3>1. f \in frames[r] \/ f \in malformed
      BY <1>1, <2>3 DEF FolderInv, InHand
    <3> QED BY <1>3, <3>1
  <2>4. CASE \E s \in Readers \ {r} : at[s] = "move" /\ f \in group[s]
    BY <1>2, <2>4
  <2> QED BY <2>1, <2>2, <2>3, <2>4 DEF FolderInv, NoneIsMissing
<1> QED BY <1>2, <1>4, <1>5, <1>6, <1>7 DEF FolderInv

\* What a process had in hand when it died is orphaned or was malformed.
LEMMA CrashStep ==
  ASSUME FolderInv, Crash
  PROVE  FolderInv'
<1>1. /\ env' = env /\ mishaps' = mishaps + 1
      /\ orphaned' = orphaned \cup {f \in UNION {frames[r] : r \in Readers} : folder[f] = "done"}
      /\ at' = [r \in Readers |-> "out"] /\ lock' = Nil
      /\ listed' = [r \in Readers |-> {}] /\ group' = [r \in Readers |-> {}]
      /\ unmoved' = [r \in Readers |-> {}] /\ frames' = [r \in Readers |-> {}]
      /\ folder' = folder /\ emitted' = emitted /\ stayed' = stayed /\ malformed' = malformed
  BY DEF Crash, FolderCrash
<1>2. FolderTypeOK' /\ LockIsHeld' /\ InHand' /\ StudiesApart'
  BY <1>1, FilesAssumption
     DEF FolderInv, FolderTypeOK, LockIsHeld, InHand, StudiesApart
<1>3. PaidFor'
  <2>1. \A f \in Files : ~Attempted(f)'
    BY <1>1 DEF Attempted
  <2>2. \A f \in Files : emitted[f] \in Nat /\ stayed[f] \in Nat
    BY DEF FolderInv, FolderTypeOK
  <2> QED BY <1>1, <2>1, <2>2 DEF FolderInv, PaidFor
<1>4. NoneIsMissing'
  <2>1. SUFFICES ASSUME NEW f \in Files, folder[f] = "done"
                 PROVE  emitted[f] > 0 \/ f \in malformed \/ f \in orphaned'
    BY <1>1 DEF NoneIsMissing
  <2>2. CASE \E r \in Readers : at[r] = "move" /\ f \in group[r]
    <3>1. PICK r \in Readers : f \in frames[r] \/ f \in malformed
      BY <2>2 DEF FolderInv, InHand
    <3> QED BY <1>1, <2>1, <3>1
  <2> QED BY <1>1, <2>1, <2>2 DEF FolderInv, NoneIsMissing
<1> QED BY <1>2, <1>3, <1>4 DEF FolderInv

LEMMA FolderStep == FolderInv /\ [LaneNext]_laneVars => FolderInv'
<1> SUFFICES ASSUME FolderInv, [LaneNext]_laneVars PROVE FolderInv'
  OBVIOUS
<1>1. CASE Boot \/ Display \/ Watch \/ Glitch
  BY <1>1, FolderStands DEF Boot, Display, Watch, Glitch
<1>2. CASE Crash
  BY <1>2, CrashStep
<1>3. ASSUME NEW f \in Files, Scanner(f) PROVE FolderInv'
  BY <1>3, ScannerStep DEF Scanner
<1>4. ASSUME NEW r \in Readers, Read(r) PROVE FolderInv'
  <2>1. env' = env /\ ReadFolder(r, env.library)
    BY <1>4 DEF Read
  <2>2. CASE CallReadScan(r)
    <3>1. /\ at[r] = "out" /\ at' = [at EXCEPT ![r] = "poll"] /\ mishaps' = mishaps
          /\ listed' = listed
          /\ UNCHANGED <<env, folder, group, unmoved, frames, lock, history>>
      BY <2>1, <2>2 DEF CallReadScan, scan
    <3>2. listed' \in [Readers -> SUBSET Files] /\ mishaps' \in Nat /\ mishaps <= mishaps'
      BY <3>1 DEF FolderInv, FolderTypeOK
    <3> QED BY <3>1, <3>2, IdleStep
  <2>3. CASE Poll(r)
    <3>1. /\ at[r] = "poll" /\ mishaps' = mishaps
          /\ UNCHANGED <<env, folder, group, unmoved, frames, lock, history>>
          /\ \E place \in {"poll", "out", "lock"} : at' = [at EXCEPT ![r] = place]
          /\ listed' = listed \/ listed' = [listed EXCEPT ![r] = Glob]
      BY <2>1, <2>3 DEF Poll, Wait
    <3>2. Glob \subseteq Files
      BY DEF Glob, Present
    <3>3. /\ listed' \in [Readers -> SUBSET Files] /\ mishaps' \in Nat /\ mishaps <= mishaps'
      BY <3>1, <3>2 DEF FolderInv, FolderTypeOK
    <3> QED BY <3>1, <3>3, IdleStep
  <2> QED BY <2>1, <2>2, <2>3, SettleStep, RaiseStep, DecodeStep, MoveStep, ReturnStep
          DEF ReadFolder
<1>5. CASE UNCHANGED laneVars
  BY <1>5, FolderStands DEF laneVars
<1> QED BY <1>1, <1>2, <1>3, <1>4, <1>5 DEF LaneNext

\* FolderInv holds in every state of a lane.
THEOREM FolderInvariance == LaneSpec => []FolderInv
BY FolderStarts, FolderStep, PTL DEF LaneSpec

\* For any files, any number of threads inside read_scan and any mishaps: a frame
\* is delivered again only for a move that failed, a file that was moved is
\* delivered, malformed, in hand or in those of a process that died, and a scan is
\* of one study unless a write stalled (_try_ingest of dicos.py).
THEOREM EveryFileIsAccounted == LaneSpec => []FilesAccounted
<1>1. FolderInv => FilesAccounted
  <2>1. SUFFICES ASSUME FolderInv PROVE FilesAccounted
    OBVIOUS
  <2>2. \A f \in Files : emitted[f] <= 1 + stayed[f]
    <3>1. \A f \in Files : emitted[f] \in Nat /\ stayed[f] \in Nat
      BY <2>1 DEF FolderInv, FolderTypeOK
    <3> QED BY <2>1, <3>1 DEF FolderInv, PaidFor
  <2> QED BY <2>1, <2>2 DEF FolderInv, NoneIsMissing, StudiesApart, FilesAccounted
<1> QED BY <1>1, FolderInvariance, PTL
-----------------------------------------------------------------------------
(* The frame grabber.                                                      *)

GrabTypeOK ==
  /\ shown \in Pictures
  /\ fsm \in {"off", "WAITING", "SCANNING", "STABLE"}
  /\ window \in Seq(Pictures) /\ Len(window) <= StableFrames
  /\ still \in Nat

\* The last k frames of a window are alike.
LastAlike(w, k) == \A i \in Len(w) - k + 1 .. Len(w) : w[i] = w[Len(w)]

\* No more frames are alike than were counted.
StillIsCounted == \A k \in 1 .. Len(window) : LastAlike(window, k) => k <= still

\* A read that found the display at rest has a full window of it.
StableIsFull == fsm = "STABLE" => IsFull(window) /\ ~Differs(window)

GrabInv == GrabTypeOK /\ StillIsCounted /\ StableIsFull

LEMMA LesserOfTwo ==
  ASSUME NEW a \in Nat, NEW b \in Nat
  PROVE  Min({a, b}) = IF a <= b THEN a ELSE b
<1> DEFINE m == IF a <= b THEN a ELSE b
<1>1. /\ m \in {a, b} /\ \A y \in {a, b} : m =< y
      /\ \A x \in {a, b} : (\A y \in {a, b} : x =< y) => x = m
  OBVIOUS
<1> HIDE DEF m
<1>2. Min({a, b}) = m
  BY <1>1 DEF Min
<1> QED BY <1>2 DEF m

\* What push does to a window.
LEMMA PushedWindow ==
  ASSUME NEW w \in Seq(Pictures), Len(w) <= StableFrames, NEW p \in Pictures
  PROVE  LET v == Push(w, p)
             out == IF Len(w) < StableFrames THEN 0 ELSE 1
         IN  /\ v \in Seq(Pictures) /\ Len(v) = Len(w) + 1 - out
             /\ v[Len(v)] = p
             /\ \A i \in 1 .. Len(v) - 1 : v[i] = w[i + out]
<1>1. Len(w) \in Nat /\ StableFrames \in Nat /\ StableFrames >= 2
  BY LenProperties, WindowAssumption
<1>2. CASE Len(w) < StableFrames
  <2>1. Push(w, p) = Append(w, p)
    BY <1>2 DEF Push
  <2>2. /\ Append(w, p) \in Seq(Pictures) /\ Len(Append(w, p)) = Len(w) + 1
        /\ \A i \in 1 .. Len(w) : Append(w, p)[i] = w[i]
        /\ Append(w, p)[Len(w) + 1] = p
    BY AppendProperties
  <2> QED BY <1>1, <1>2, <2>1, <2>2
<1>3. CASE Len(w) = StableFrames
  <2> DEFINE t == Tail(w)
  <2>1. w # <<>>
    BY <1>1, <1>3, EmptySeq
  <2>2. t \in Seq(Pictures) /\ Len(t) = Len(w) - 1 /\ \A i \in 1 .. Len(t) : t[i] = w[i + 1]
    BY <2>1, HeadTailProperties
  <2>3. Push(w, p) = Append(t, p)
    BY <1>3, <1>1 DEF Push
  <2> HIDE DEF t
  <2>4. /\ Append(t, p) \in Seq(Pictures) /\ Len(Append(t, p)) = Len(t) + 1
        /\ \A i \in 1 .. Len(t) : Append(t, p)[i] = t[i]
        /\ Append(t, p)[Len(t) + 1] = p
    BY <2>2, AppendProperties
  <2> QED BY <1>1, <1>3, <2>2, <2>3, <2>4
<1> QED BY <1>1, <1>2, <1>3

\* When changes show, a full window that does not differ is of one picture.
LEMMA AtRest ==
  ASSUME NEW w \in Seq(Pictures), Len(w) = StableFrames, ~Differs(w),
         Contrast > Thresh * (StableFrames - 1)
  PROVE  \A i \in 1 .. Len(w) : w[i] = w[1]
<1> DEFINE changed == {i \in 2 .. Len(w) : w[i] # w[i - 1]}
           Apart(i) == i \in 1 .. Len(w) /\ w[i] # w[1]
           apart == {i \in Nat : Apart(i)}
<1>1. /\ StableFrames \in Nat /\ StableFrames >= 2 /\ Contrast \in Nat /\ Thresh \in Nat
      /\ Len(w) \in Nat
  BY WindowAssumption
<1>2. IsFiniteSet(changed) /\ Cardinality(changed) \in Nat
  <2>1. IsFiniteSet(2 .. Len(w))
    BY <1>1, FS_Interval
  <2> QED BY <2>1, FS_Subset, FS_CardinalityType
<1>3. ~(Contrast * Cardinality(changed) > Thresh * (StableFrames - 1))
  BY <1>1 DEF Differs, Changes
<1>4. Cardinality(changed) = 0
  <2> DEFINE c == Cardinality(changed)
             most == Thresh * (StableFrames - 1)
  <2>1. c \in Nat /\ most \in Int /\ Contrast > most /\ ~(Contrast * c > most)
    BY <1>1, <1>2, <1>3
  <2> HIDE DEF c, most
  <2>2. c >= 1 => Contrast * c >= Contrast
    BY <1>1, <2>1
  <2>3. Contrast * c \in Int
    BY <1>1, <2>1
  <2>4. c = 0
    BY <1>1, <2>1, <2>2, <2>3
  <2> QED BY <2>4 DEF c
<1>5. \A i \in 2 .. Len(w) : w[i] = w[i - 1]
  <2>1. changed = {}
    BY <1>2, <1>4, FS_EmptySet
  <2> QED BY <2>1
<1>6. SUFFICES ASSUME apart # {} PROVE FALSE
  BY <1>1
<1> HIDE DEF changed
<1>7. \E x \in apart : \A y \in apart : ~ (<<y, x>> \in OpToRel(<, Nat))
  <2>1. apart \subseteq Nat
    OBVIOUS
  <2> QED BY <1>6, <2>1, NatLessThanWellFounded, WFMin
<1>8. PICK x \in apart : \A y \in apart : ~ (<<y, x>> \in OpToRel(<, Nat))
  BY <1>7
<1>9. \A y \in apart : ~ (y < x)
  <2>1. \A y \in apart : y \in Nat /\ x \in Nat
    BY <1>8
  <2> QED BY <1>8, <2>1, Zenon DEF OpToRel
<1>10. x \in 2 .. Len(w) /\ x - 1 \in 1 .. Len(w)
  <2>1. x \in 1 .. Len(w) /\ w[x] # w[1]
    BY <1>8, Zenon
  <2>2. x # 1
    BY <2>1
  <2> QED BY <1>1, <2>1, <2>2
<1>11. w[x - 1] # w[1]
  BY <1>5, <1>8, <1>10
<1>12. x - 1 \in apart /\ x - 1 < x
  BY <1>10, <1>11
<1> QED BY <1>9, <1>12

\* The median of a window of one picture.
LEMMA MedianOfOne ==
  ASSUME NEW w \in Seq(Pictures), Len(w) > 0, NEW p \in Pictures,
         \A i \in 1 .. Len(w) : w[i] = p
  PROVE  Median(w) = p
<1> DEFINE Shows(q) == Cardinality({i \in DOMAIN w : w[i] = q})
           most == {q \in Pictures : 2 * Shows(q) > Len(w)}
<1>1. Len(w) \in Nat /\ DOMAIN w = 1 .. Len(w)
  BY LenProperties
<1>2. Shows(p) = Len(w)
  <2>1. {i \in DOMAIN w : w[i] = p} = 1 .. Len(w)
    BY <1>1
  <2>2. Cardinality(1 .. Len(w)) = Len(w)
    BY <1>1, FS_Interval
  <2> QED BY <2>1, <2>2
<1>3. \A q \in Pictures \ {p} : Shows(q) = 0
  <2> SUFFICES ASSUME NEW q \in Pictures \ {p} PROVE Shows(q) = 0
    OBVIOUS
  <2>1. {i \in DOMAIN w : w[i] = q} = {}
    BY <1>1
  <2> QED BY <2>1, FS_EmptySet
<1>4. Median(w) = IF most = {} THEN "blend" ELSE CHOOSE q \in most : TRUE
  BY DEF Median
<1> HIDE DEF Shows
<1>5. most = {p}
  BY <1>1, <1>2, <1>3
<1> QED BY <1>4, <1>5

\* One turn of the loop keeps the count; the turn that captures has seen
\* StableFrames + 1 frames alike.
LEMMA LookStep ==
  ASSUME GrabInv, Look
  PROVE  /\ GrabInv'
         /\ shot' # shot /\ Contrast > Thresh * (StableFrames - 1) =>
              still' = StableFrames + 1 /\ shot' = shown
<1> DEFINE w == Push(window, shown)
           s == NextState(fsm, w)
           out == IF Len(window) < StableFrames THEN 0 ELSE 1
<1>1. /\ StableFrames \in Nat /\ StableFrames >= 2 /\ Len(window) \in Nat
      /\ window \in Seq(Pictures) /\ Len(window) <= StableFrames /\ shown \in Pictures
      /\ still \in Nat /\ fsm \in {"WAITING", "SCANNING", "STABLE"}
  BY WindowAssumption, LenProperties DEF GrabInv, GrabTypeOK, Look
<1>2. /\ w \in Seq(Pictures) /\ Len(w) = Len(window) + 1 - out /\ w[Len(w)] = shown
      /\ \A i \in 1 .. Len(w) - 1 : w[i] = window[i + out]
  BY <1>1, PushedWindow
<1>3. /\ still' = IF window # <<>> /\ Last(window) = shown
                    THEN Min({still + 1, StableFrames + 1}) ELSE 1
      /\ IF s = "CAPTURED" THEN shot' = Median(w) /\ fsm' = "off" /\ window' = <<>>
                           ELSE fsm' = s /\ window' = w /\ shot' = shot
      /\ shown' = shown
  BY DEF Look, StopLooking
<1>4. /\ s \in {"WAITING", "SCANNING", "STABLE", "CAPTURED"}
      /\ s = "STABLE" => \/ IsFull(w) /\ ~Differs(w)
                         \/ fsm = "STABLE" /\ ~Differs(w) /\ ~IsFull(w)
      /\ s = "CAPTURED" => fsm = "STABLE" /\ IsFull(w) /\ ~Differs(w)
  BY <1>1 DEF NextState
<1> HIDE DEF w, s
<1>5. /\ still' \in Nat
      /\ still' = IF window # <<>> /\ window[Len(window)] = shown
                    THEN (IF still <= StableFrames THEN still + 1 ELSE StableFrames + 1)
                    ELSE 1
  <2>1. Min({still + 1, StableFrames + 1})
          = IF still <= StableFrames THEN still + 1 ELSE StableFrames + 1
    BY <1>1, LesserOfTwo
  <2> QED BY <1>1, <1>3, <2>1 DEF Last
<1>6. \A k \in 1 .. Len(w) : LastAlike(w, k) => k <= still'
  <2> SUFFICES ASSUME NEW k \in 1 .. Len(w), LastAlike(w, k) PROVE k <= still'
    OBVIOUS
  <2>1. CASE k = 1
    BY <1>1, <1>5, <2>1
  <2>2. CASE k > 1
    <3>1. Len(window) >= k - 1 /\ k - 1 \in 1 .. Len(window) /\ k <= StableFrames
      BY <1>1, <1>2, <2>2
    <3>2. \A i \in Len(window) - (k - 1) + 1 .. Len(window) : window[i] = shown
      <4> SUFFICES ASSUME NEW i \in Len(window) - (k - 1) + 1 .. Len(window)
                   PROVE  window[i] = shown
        OBVIOUS
      <4>1. i - out \in 1 .. Len(w) - 1 /\ i - out \in Len(w) - k + 1 .. Len(w)
        BY <1>1, <1>2, <3>1
      <4>2. w[i - out] = shown
        BY <1>2, <4>1 DEF LastAlike
      <4>3. w[i - out] = window[i]
        BY <1>1, <1>2, <4>1
      <4> QED BY <4>2, <4>3
    <3>3. window # <<>> /\ window[Len(window)] = shown
      BY <1>1, <3>1, <3>2, EmptySeq
    <3>4. k - 1 <= still
      BY <3>1, <3>2, <3>3 DEF GrabInv, StillIsCounted, LastAlike
    <3> QED BY <1>1, <1>5, <3>1, <3>3, <3>4
  <2> QED BY <1>1, <2>1, <2>2
<1>7. GrabInv'
  <2>1. CASE s = "CAPTURED"
    <3>1. window' \in Seq(Pictures) /\ Len(window') = 0
      BY <1>3, <2>1, EmptySeq
    <3> QED BY <1>1, <1>3, <1>5, <2>1, <3>1
            DEF GrabInv, GrabTypeOK, StillIsCounted, StableIsFull
  <2>2. CASE s # "CAPTURED"
    <3>1. window' = w /\ fsm' = s
      BY <1>3, <2>2
    <3>2. GrabTypeOK'
      BY <1>1, <1>2, <1>3, <1>4, <1>5, <2>2, <3>1 DEF GrabTypeOK
    <3>3. StillIsCounted'
      BY <1>6, <3>1 DEF StillIsCounted, LastAlike
    <3>4. IsFull(window) => IsFull(w)
      BY <1>1, <1>2 DEF IsFull
    <3>5. StableIsFull'
      BY <1>4, <3>1, <3>4 DEF GrabInv, StableIsFull, IsFull, Differs, Changes
    <3> QED BY <3>2, <3>3, <3>5 DEF GrabInv
  <2> QED BY <2>1, <2>2
<1>8. ASSUME shot' # shot, Contrast > Thresh * (StableFrames - 1)
      PROVE  still' = StableFrames + 1 /\ shot' = shown
  <2>1. s = "CAPTURED" /\ shot' = Median(w)
    BY <1>3, <1>8
  <2>2. /\ fsm = "STABLE" /\ IsFull(window) /\ ~Differs(window) /\ ~Differs(w)
        /\ Len(window) = StableFrames /\ Len(w) = StableFrames
    BY <1>1, <1>2, <1>4, <2>1 DEF GrabInv, StableIsFull, IsFull
  <2>3. \A i \in 1 .. Len(w) : w[i] = shown
    <3>1. \A i \in 1 .. Len(w) : w[i] = w[1]
      BY <1>2, <1>8, <2>2, AtRest
    <3> QED BY <1>1, <1>2, <2>2, <3>1
  <2>4. \A i \in 1 .. Len(window) : window[i] = window[1]
    BY <1>1, <1>8, <2>2, AtRest
  <2>5. Len(window) <= still
    <3>1. LastAlike(window, Len(window)) /\ Len(window) \in 1 .. Len(window)
      BY <1>1, <2>2, <2>4 DEF LastAlike
    <3> QED BY <3>1 DEF GrabInv, StillIsCounted
  <2>6. window # <<>> /\ window[Len(window)] = shown
    <3>1. w[Len(w) - 1] = window[Len(window)]
      BY <1>1, <1>2, <2>2
    <3> QED BY <1>1, <2>2, <2>3, <3>1, EmptySeq
  <2>7. Median(w) = shown
    BY <1>1, <1>2, <2>2, <2>3, MedianOfOne
  <2> QED BY <1>1, <1>5, <2>1, <2>2, <2>5, <2>6, <2>7
<1> QED BY <1>7, <1>8

LEMMA GrabStarts == LaneInit => GrabInv
<1> SUFFICES ASSUME LaneInit PROVE GrabInv
  OBVIOUS
<1>1. /\ shown \in Pictures /\ fsm = "off" /\ window = <<>> /\ still = 0
      /\ <<>> \in Seq(Pictures) /\ Len(<<>>) = 0 /\ StableFrames \in Nat
  BY PicturesAssumption, WindowAssumption, EmptySeq DEF LaneInit, GrabInit
<1> QED BY <1>1 DEF GrabInv, GrabTypeOK, StillIsCounted, StableIsFull

\* A read that ends, or begins, has an empty window.
LEMMA EmptiedWindow ==
  ASSUME GrabInv, window' = <<>>, fsm' \in {"off", "WAITING"}, still' \in Nat,
         shown' = shown
  PROVE  GrabInv'
<1>1. window' \in Seq(Pictures) /\ Len(window') = 0 /\ StableFrames \in Nat
  BY EmptySeq, WindowAssumption
<1> QED BY <1>1 DEF GrabInv, GrabTypeOK, StillIsCounted, StableIsFull

\* Every step of a lane keeps the grabber's count, and a picture is returned only
\* from a display that was still.
LEMMA GrabberStep ==
  ASSUME GrabInv, [LaneNext]_laneVars
  PROVE  /\ GrabInv'
         /\ shot' # NoShot /\ shot = NoShot /\ Contrast > Thresh * (StableFrames - 1) =>
              still' = StableFrames + 1 /\ shot' = shown
<1>1. CASE UNCHANGED grabVars
  BY <1>1 DEF grabVars, GrabInv, GrabTypeOK, StillIsCounted, LastAlike, StableIsFull,
              IsFull, Differs, Changes
<1>2. CASE Display
  <2>1. /\ shown' \in Pictures /\ fsm' = fsm /\ window' = window /\ still' = still
        /\ shot' = shot
    BY <1>2 DEF Display, Show
  <2> QED BY <2>1 DEF GrabInv, GrabTypeOK, StillIsCounted, LastAlike, StableIsFull,
                      IsFull, Differs, Changes
<1>3. CASE Watch
  <2>1. CASE CallGrab
    <3>1. window' = <<>> /\ fsm' = "WAITING" /\ still' = 0 /\ shown' = shown /\ shot' = NoShot
      BY <2>1 DEF CallGrab
    <3> QED BY <3>1, EmptiedWindow
  <2>2. CASE Look
    BY <2>2, LookStep
  <2>3. CASE GrabExpire
    <3>1. window' = <<>> /\ fsm' = "off" /\ still' = still /\ shown' = shown /\ shot' = shot
      BY <2>3 DEF GrabExpire, StopLooking
    <3>2. still \in Nat
      BY DEF GrabInv, GrabTypeOK
    <3> QED BY <3>1, <3>2, EmptiedWindow
  <2> QED BY <1>3, <2>1, <2>2, <2>3 DEF Watch, Grab
<1>4. CASE Glitch
  <2>1. window' = <<>> /\ fsm' = "off" /\ still' = still /\ shown' = shown /\ shot' = shot
    BY <1>4 DEF Glitch, GrabFails, StopLooking
  <2>2. still \in Nat
    BY DEF GrabInv, GrabTypeOK
  <2> QED BY <2>1, <2>2, EmptiedWindow
<1>5. CASE Crash
  <2>1. window' = <<>> /\ fsm' = "off" /\ still' = 0 /\ shown' = shown /\ shot' = NoShot
    BY <1>5 DEF Crash
  <2> QED BY <2>1, EmptiedWindow
<1>6. CASE Boot \/ (\E f \in Files : Scanner(f)) \/ (\E r \in Readers : Read(r))
  <2>1. UNCHANGED grabVars
    BY <1>6 DEF Boot, Scanner, Read
  <2> QED BY <1>1, <2>1
<1>7. CASE UNCHANGED laneVars
  <2>1. UNCHANGED grabVars
    BY <1>7 DEF laneVars
  <2> QED BY <1>1, <2>1
<1> QED BY <1>2, <1>3, <1>4, <1>5, <1>6, <1>7 DEF LaneNext

\* GrabInv holds in every state of a lane.
THEOREM GrabberInvariance == LaneSpec => []GrabInv
BY GrabStarts, GrabberStep, PTL DEF LaneSpec

\* For any pictures, window and threshold at which one change of picture in a
\* window shows: a picture is returned only when the window before and the frame
\* after it all showed it (read_scan and median_frame of framegrab.py).
THEOREM PicturesAreOfARest == LaneSpec => CaptureIsSettled
<1>1. GrabInv /\ [LaneNext]_laneVars =>
        [shot' # NoShot /\ shot = NoShot /\ Contrast > Thresh * (StableFrames - 1) =>
           still' = StableFrames + 1 /\ shot' = shown]_grabVars
  BY GrabberStep
<1> QED BY <1>1, GrabberInvariance, PTL DEF LaneSpec, CaptureIsSettled
=============================================================================
