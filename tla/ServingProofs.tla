---------------------------- MODULE ServingProofs ----------------------------
(***************************************************************************)
(* What ScanServing keeps for any lanes, contents, frame lists, requests,  *)
(* workers, updates and modes: the image store's blobs, the detector's     *)
(* results and the age of cached thresholds.  Each has its own inductive   *)
(* invariant:                                                              *)
(*                                                                         *)
(*   StoreInv     a file has one name, and a broken one that has a name is *)
(*                being written by a lane, unless a write was cut short;   *)
(*   DetectorInv  a request has read, intact, exactly the frames it has    *)
(*                scored, and each of its boxes lies in the frame;         *)
(*   CacheInv     a cached row, and one that a query is bringing, was      *)
(*                active when it was read, and the query is young.         *)
(***************************************************************************)
EXTENDS ScanServing, SequenceTheorems, TLAPS

Ingests == [step : {"idle", "put", "open", "write", "publish"},
            todo : Seq(Contents), frames : Seq(Contents), fd : Files \cup {None}]

\* An ingest under way has a frame left to store.
LaneOK(q) == /\ q \in Ingests
             /\ q.step # "idle" => q.todo # <<>> /\ q.frames \in FrameLists
             /\ q.step \in {"write", "publish"} => q.fd \in Files

StoreTypeOK ==
  /\ blob \in [Contents -> Files \cup {None}] /\ tmp \in [Contents -> Files \cup {None}]
  /\ file \in [Files -> {"whole", "broken"}]
  /\ lane \in [Lanes -> Ingests] /\ \A p \in Lanes : LaneOK(lane[p])
  /\ acquired \subseteq FrameLists
  /\ cut \in BOOLEAN

\* No file has two names.
NamesApart ==
  /\ \A c, d \in Contents : blob[c] = blob[d] => c = d \/ blob[c] = None
  /\ \A c, d \in Contents : tmp[c] = tmp[d] => c = d \/ tmp[c] = None
  /\ \A c, d \in Contents : blob[c] = tmp[d] => blob[c] = None

\* A lane has the file open and is about to write the content to it.
BeingWritten(c, i) == \E p \in Lanes : /\ lane[p].step = "write" /\ lane[p].fd = i
                                       /\ Head(lane[p].todo) = c

BrokenIsWritten ==
  ~cut => \A c \in Contents : \A i \in {blob[c], tmp[c]} \ {None} :
            file[i] = "whole" \/ BeingWritten(c, i)

StoreInv == StoreTypeOK /\ NamesApart /\ BrokenIsWritten
-----------------------------------------------------------------------------
(* The image store.                                                        *)

LEMMA InitStore == StoreInit => StoreInv
<1> SUFFICES ASSUME StoreInit PROVE StoreInv
  OBVIOUS
<1>1. LaneOK(Idle)
  BY DEF LaneOK, Ingests, Idle
<1>2. StoreTypeOK
  BY <1>1 DEF StoreInit, StoreTypeOK, LaneOK
<1> QED
  BY <1>2 DEF StoreInit, StoreInv, NamesApart, BrokenIsWritten

\* What is left of a list of frames once its first is stored.
LEMMA RestFacts ==
  ASSUME NEW s \in Seq(Contents), s # <<>>
  PROVE  Tail(s) \in Seq(Contents) /\ Head(s) \in Contents
BY HeadTailProperties

\* Return ends the ingest or goes on with its next frame.
LEMMA ReturnFacts ==
  ASSUME StoreTypeOK, NEW p \in Lanes, lane[p].step # "idle", Return(p)
  PROVE  /\ \E q : /\ LaneOK(q) /\ q.step \in {"idle", "put"}
                   /\ lane' = [lane EXCEPT ![p] = q]
         /\ acquired' \subseteq FrameLists
<1> DEFINE rest == Tail(lane[p].todo)
           q == [lane[p] EXCEPT !.step = "put", !.todo = rest, !.fd = None]
<1>1. lane[p] \in Ingests /\ lane[p].todo # <<>> /\ lane[p].frames \in FrameLists
  BY DEF StoreTypeOK, LaneOK
<1>2. rest \in Seq(Contents)
  BY <1>1, RestFacts DEF Ingests
<1>3. CASE rest = <<>>
  <2>1. LaneOK(Idle) /\ Idle.step = "idle"
    BY DEF LaneOK, Ingests, Idle
  <2>2. lane' = [lane EXCEPT ![p] = Idle] /\ acquired' = acquired \cup {lane[p].frames}
    BY <1>3 DEF Return
  <2> QED
    BY <1>1, <2>1, <2>2 DEF StoreTypeOK
<1>4. CASE rest # <<>>
  <2>1. LaneOK(q) /\ q.step = "put"
    BY <1>1, <1>2, <1>4 DEF LaneOK, Ingests
  <2>2. lane' = [lane EXCEPT ![p] = q] /\ acquired' = acquired
    BY <1>4 DEF Return
  <2> QED
    BY <2>1, <2>2 DEF StoreTypeOK
<1> QED
  BY <1>3, <1>4

\* A lane that is not about to write changes its state; no file and no name does.
LEMMA LaneMoves ==
  ASSUME StoreInv, NEW p \in Lanes, NEW q, LaneOK(q), lane' = [lane EXCEPT ![p] = q],
         acquired' \subseteq FrameLists, UNCHANGED <<blob, tmp, file>>,
         cut' \in BOOLEAN, cut => cut',
         lane[p].step # "write" \/ cut'
  PROVE  StoreInv'
<1>1. StoreTypeOK'
  BY DEF StoreInv, StoreTypeOK, LaneOK
<1>2. NamesApart'
  BY DEF StoreInv, NamesApart
<1>3. BrokenIsWritten'
  <2> SUFFICES ASSUME ~cut', NEW c \in Contents, NEW i \in {blob[c], tmp[c]} \ {None},
                      file[i] # "whole"
               PROVE  BeingWritten(c, i)'
    BY DEF BrokenIsWritten
  <2>1. PICK r \in Lanes : lane[r].step = "write" /\ lane[r].fd = i /\ Head(lane[r].todo) = c
    BY DEF StoreInv, BrokenIsWritten, BeingWritten
  <2>2. lane'[r] = lane[r]
    BY <2>1 DEF StoreInv, StoreTypeOK
  <2> QED
    BY <2>1, <2>2 DEF BeingWritten
<1> QED
  BY <1>1, <1>2, <1>3 DEF StoreInv

LEMMA OpenFile ==
  ASSUME StoreInv, NEW p \in Lanes, Open(p)
  PROVE  StoreInv'
<1> DEFINE c == Head(lane[p].todo)
           inodes == IF tmp[c] # None THEN {tmp[c]} ELSE Unused
           i == CHOOSE i \in inodes : TRUE
           q == [lane[p] EXCEPT !.step = "write", !.fd = i]
<1>1. lane[p] \in Ingests /\ lane[p].todo # <<>> /\ lane[p].frames \in FrameLists /\ c \in Contents
  BY RestFacts DEF Open, At, StoreInv, StoreTypeOK, LaneOK, Ingests
<1>2. i \in inodes
  BY DEF Open
<1>3. i \in Files /\ i # None
  BY <1>1, <1>2, FilesAssumption DEF Unused, StoreInv, StoreTypeOK
<1>4. \A d \in Contents : blob[d] # i /\ (d # c => tmp[d] # i)
  <2>1. CASE tmp[c] # None
    BY <1>1, <1>2, <2>1 DEF StoreInv, NamesApart
  <2>2. CASE tmp[c] = None
    <3>1. i \notin Range(blob) /\ i \notin Range(tmp)
      BY <1>2, <2>2 DEF Unused
    <3> QED
      BY <3>1 DEF Range, StoreInv, StoreTypeOK
  <2> QED
    BY <2>1, <2>2
<1>5. /\ tmp' = [tmp EXCEPT ![c] = i] /\ file' = [file EXCEPT ![i] = "broken"]
      /\ lane' = [lane EXCEPT ![p] = q] /\ UNCHANGED <<blob, acquired, cut>>
  BY DEF Open
<1>6. LaneOK(q) /\ q.step = "write" /\ q.fd = i /\ q.todo = lane[p].todo
  BY <1>1, <1>3 DEF LaneOK, Ingests
<1>7. lane[p].step = "open"
  BY DEF Open, At
<1> HIDE DEF i, q, inodes
<1>8. StoreTypeOK'
  BY <1>1, <1>3, <1>5, <1>6 DEF StoreInv, StoreTypeOK, LaneOK
<1>9. tmp'[c] = i /\ \A d \in Contents : d # c => tmp'[d] = tmp[d]
  BY <1>1, <1>5 DEF StoreInv, StoreTypeOK
<1>10. NamesApart'
  BY <1>1, <1>3, <1>4, <1>5, <1>9 DEF StoreInv, NamesApart
<1>11. BrokenIsWritten'
  <2> SUFFICES ASSUME ~cut, NEW d \in Contents, NEW j \in {blob[d], tmp'[d]} \ {None},
                      file'[j] # "whole"
               PROVE  BeingWritten(d, j)'
    BY <1>5 DEF BrokenIsWritten
  <2>1. CASE j = i
    <3>1. d = c /\ lane'[p] = q
      BY <1>4, <1>5, <1>9, <2>1 DEF StoreInv, StoreTypeOK
    <3> QED
      BY <1>6, <2>1, <3>1 DEF BeingWritten
  <2>2. CASE j # i
    <3>1. j \in {blob[d], tmp[d]} \ {None} /\ file[j] # "whole"
      BY <1>5, <1>9, <2>2 DEF StoreInv, StoreTypeOK
    <3>2. PICK r \in Lanes : lane[r].step = "write" /\ lane[r].fd = j /\ Head(lane[r].todo) = d
      BY <3>1 DEF StoreInv, BrokenIsWritten, BeingWritten
    <3>3. lane'[r] = lane[r]
      BY <1>5, <1>7, <3>2 DEF StoreInv, StoreTypeOK
    <3> QED
      BY <3>2, <3>3 DEF BeingWritten
  <2> QED
    BY <2>1, <2>2
<1> QED
  BY <1>8, <1>10, <1>11 DEF StoreInv

LEMMA WriteFile ==
  ASSUME StoreInv, NEW p \in Lanes, Write(p)
  PROVE  StoreInv'
<1> DEFINE i == lane[p].fd
           q == [lane[p] EXCEPT !.step = "publish"]
<1>1. lane[p] \in Ingests /\ LaneOK(lane[p]) /\ lane[p].step = "write" /\ i \in Files
  BY DEF Write, At, StoreInv, StoreTypeOK, LaneOK
<1>2. /\ file' = [file EXCEPT ![i] = "whole"] /\ lane' = [lane EXCEPT ![p] = q]
      /\ UNCHANGED <<blob, tmp, acquired, cut>>
  BY DEF Write
<1>3. LaneOK(q)
  BY <1>1 DEF LaneOK, Ingests
<1> HIDE DEF q
<1>4. StoreTypeOK'
  BY <1>1, <1>2, <1>3 DEF StoreInv, StoreTypeOK, LaneOK
<1>5. NamesApart'
  BY <1>2 DEF StoreInv, NamesApart
<1>6. BrokenIsWritten'
  <2> SUFFICES ASSUME ~cut, NEW c \in Contents, NEW j \in {blob[c], tmp[c]} \ {None},
                      file'[j] # "whole"
               PROVE  BeingWritten(c, j)'
    BY <1>2 DEF BrokenIsWritten
  <2>1. j # i /\ file[j] # "whole"
    BY <1>2 DEF StoreInv, StoreTypeOK
  <2>2. PICK r \in Lanes : lane[r].step = "write" /\ lane[r].fd = j /\ Head(lane[r].todo) = c
    BY <2>1 DEF StoreInv, BrokenIsWritten, BeingWritten
  <2>3. lane'[r] = lane[r]
    BY <1>2, <2>1, <2>2 DEF StoreInv, StoreTypeOK
  <2> QED
    BY <2>2, <2>3 DEF BeingWritten
<1> QED
  BY <1>4, <1>5, <1>6 DEF StoreInv
\* os.replace moves a name; what was broken under the temporary name and being
\* written is so under the blob's.
LEMMA PublishName ==
  ASSUME StoreInv, NEW p \in Lanes, Publish(p)
  PROVE  StoreInv'
<1> DEFINE c == Head(lane[p].todo)
<1>1. lane[p] \in Ingests /\ LaneOK(lane[p]) /\ lane[p].step = "publish" /\ c \in Contents
  BY RestFacts DEF Publish, At, StoreInv, StoreTypeOK, LaneOK, Ingests
<1>2. CASE tmp[c] = None
  <2>1. LaneOK(Idle)
    BY DEF LaneOK, Ingests, Idle
  <2>2. lane' = [lane EXCEPT ![p] = Idle] /\ UNCHANGED <<blob, tmp, file, acquired, cut>>
    BY <1>2 DEF Publish, Raise
  <2> QED
    BY <1>1, <2>1, <2>2, LaneMoves DEF StoreInv, StoreTypeOK
<1>3. CASE tmp[c] # None
  <2>1. /\ blob' = [blob EXCEPT ![c] = tmp[c]] /\ tmp' = [tmp EXCEPT ![c] = None]
        /\ Return(p) /\ UNCHANGED <<file, cut>>
    BY <1>3 DEF Publish
  <2>2. PICK q : LaneOK(q) /\ q.step \in {"idle", "put"} /\ lane' = [lane EXCEPT ![p] = q]
    BY <1>1, <2>1, ReturnFacts DEF StoreInv
  <2>3. acquired' \subseteq FrameLists
    BY <1>1, <2>1, ReturnFacts DEF StoreInv
  <2> HIDE DEF c
  <2>4. StoreTypeOK'
    BY <1>1, <2>1, <2>2, <2>3 DEF StoreInv, StoreTypeOK, LaneOK
  <2>5. /\ blob'[c] = tmp[c] /\ tmp'[c] = None
        /\ \A d \in Contents : d # c => blob'[d] = blob[d] /\ tmp'[d] = tmp[d]
    BY <1>1, <2>1 DEF StoreInv, StoreTypeOK
  <2>6. NamesApart'
    BY <1>1, <1>3, <2>5 DEF StoreInv, NamesApart
  <2>7. BrokenIsWritten'
    <3> SUFFICES ASSUME ~cut, NEW d \in Contents, NEW j \in {blob'[d], tmp'[d]} \ {None},
                        file[j] # "whole"
                 PROVE  BeingWritten(d, j)'
      BY <2>1 DEF BrokenIsWritten
    <3>1. j \in {blob[d], tmp[d]} \ {None}
      BY <2>5
    <3>2. PICK r \in Lanes : lane[r].step = "write" /\ lane[r].fd = j /\ Head(lane[r].todo) = d
      BY <3>1 DEF StoreInv, BrokenIsWritten, BeingWritten
    <3>3. lane'[r] = lane[r]
      BY <1>1, <2>2, <3>2 DEF StoreInv, StoreTypeOK
    <3> QED
      BY <3>2, <3>3 DEF BeingWritten
  <2> QED
    BY <2>4, <2>6, <2>7 DEF StoreInv
<1> QED
  BY <1>2, <1>3

LEMMA LookAtBlob ==
  ASSUME StoreInv, NEW p \in Lanes, Look(p)
  PROVE  StoreInv'
<1> DEFINE q == [lane[p] EXCEPT !.step = "open"]
<1>1. lane[p] \in Ingests /\ LaneOK(lane[p]) /\ lane[p].step = "put" /\ cut' = cut
      /\ UNCHANGED <<blob, tmp, file>> /\ cut \in BOOLEAN
  BY DEF Look, At, StoreInv, StoreTypeOK
<1>2. CASE Return(p)
  BY <1>1, <1>2, ReturnFacts, LaneMoves DEF StoreInv
<1>3. CASE lane' = [lane EXCEPT ![p] = q] /\ acquired' = acquired
  <2>1. LaneOK(q)
    BY <1>1 DEF LaneOK, Ingests
  <2> HIDE DEF q
  <2> QED
    BY <1>1, <1>3, <2>1, LaneMoves DEF StoreInv, StoreTypeOK
<1> QED
  BY <1>2, <1>3 DEF Look

\* What lanes, and a power cut, do to the store.
LEMMA StoreMoves ==
  ASSUME StoreInv,
         \/ \E p \in Lanes : StoreStep(p) \/ CutShort(p)
         \/ \E p \in Lanes, frames \in FrameLists : Ingest(p, frames)
         \/ PowerCut
         \/ UNCHANGED store
  PROVE  StoreInv'
<1>0. LaneOK(Idle) /\ Idle \in Ingests /\ Idle.step = "idle"
  BY DEF LaneOK, Ingests, Idle
<1>1. ASSUME NEW p \in Lanes, StoreStep(p) PROVE StoreInv'
  BY <1>1, LookAtBlob, OpenFile, WriteFile, PublishName DEF StoreStep
<1>2. ASSUME NEW p \in Lanes, CutShort(p) PROVE StoreInv'
  <2>1. lane' = [lane EXCEPT ![p] = Idle] /\ UNCHANGED <<blob, tmp, file, acquired>> /\ cut'
    BY <1>2 DEF CutShort, Raise
  <2> QED
    BY <1>0, <2>1, LaneMoves DEF StoreInv, StoreTypeOK
<1>3. ASSUME NEW p \in Lanes, NEW frames \in FrameLists, Ingest(p, frames) PROVE StoreInv'
  <2> DEFINE q == [step |-> "put", todo |-> frames, frames |-> frames, fd |-> None]
  <2>1. LaneOK(q)
    BY FramesAssumption DEF LaneOK, Ingests
  <2>2. /\ lane[p].step = "idle" /\ lane' = [lane EXCEPT ![p] = q]
        /\ UNCHANGED <<blob, tmp, file, acquired, cut>>
    BY <1>3 DEF Ingest, At
  <2> HIDE DEF q
  <2> QED
    BY <2>1, <2>2, LaneMoves DEF StoreInv, StoreTypeOK
<1>4. CASE PowerCut
  <2>1. PICK lostFiles : file' = [i \in Files |-> IF i \in lostFiles THEN "broken" ELSE file[i]]
    BY <1>4 DEF PowerCut
  <2>2. lane' = [p \in Lanes |-> Idle] /\ cut' = TRUE /\ UNCHANGED <<blob, tmp, acquired>>
    BY <1>4 DEF PowerCut
  <2>3. StoreTypeOK'
    BY <1>0, <2>1, <2>2 DEF StoreInv, StoreTypeOK, LaneOK
  <2> QED
    BY <2>2, <2>3 DEF StoreInv, NamesApart, BrokenIsWritten
<1>5. CASE UNCHANGED store
  BY <1>5 DEF store, StoreInv, StoreTypeOK, LaneOK, NamesApart, BrokenIsWritten, BeingWritten
<1> QED
  BY <1>1, <1>2, <1>3, <1>4, <1>5

\* Nothing is broken that nobody writes.
LEMMA StoreIsSettled == StoreInv => SettledIsWhole
BY DEF StoreInv, BrokenIsWritten, BeingWritten, SettledIsWhole, Writing, Whole

-----------------------------------------------------------------------------
(* The thresholds.                                                         *)

Rows == Updates \cup {Seed}

\* The row was the active one at the time, or is so still.
ActiveSince(row, time) == row \in Rows /\ (row = active \/ until[row] >= time)

CacheInv ==
  /\ now \in Nat /\ active \in Rows /\ until \in [Rows -> Int]
  /\ cache \in [Workers -> Rows \cup {Default}]
  /\ loadedAt \in [Workers -> Nat]
  /\ loading \in [Workers -> [row : Rows \cup {Default}, since : Int]]
  /\ \A w \in Workers :
       /\ loadedAt[w] <= now
       /\ loadedAt[w] > 0 => ActiveSince(cache[w], loadedAt[w] - LoadTime)
       /\ loading[w] # NotLoading =>
            /\ 0 <= now - loading[w].since /\ now - loading[w].since <= LoadTime
            /\ ActiveSince(loading[w].row, loading[w].since)

LEMMA InitCache == ThresholdInit => CacheInv
BY TimesAssumption, RowsAssumption DEF ThresholdInit, CacheInv, Rows, NotLoading

\* Whoever was active at a time not yet come has been so when it has passed.
LEMMA ActiveStays ==
  ASSUME CacheInv, NEW u \in Updates, active' = u, until' = [until EXCEPT ![active] = now],
         NEW row, NEW time \in Int, time <= now, ActiveSince(row, time)
  PROVE  ActiveSince(row, time)'
BY DEF CacheInv, ActiveSince, Rows

LEMMA CacheMoves ==
  ASSUME CacheInv,
         \/ Tick
         \/ \E u \in Updates, w \in Workers : PutBegins(u, w)
         \/ \E u \in Updates : PutWrites(u) \/ PutCommits(u)
         \/ \E w \in Workers : LoadBegins(w) \/ LoadEnds(w) \/ LoadFails(w) \/ Restart(w)
         \/ UNCHANGED thresholds
  PROVE  CacheInv'
<1> USE TimesAssumption
<1>1. CASE Tick
  BY <1>1 DEF Tick, rows, caches, CacheInv, ActiveSince
<1>2. ASSUME NEW w, loadedAt' = [loadedAt EXCEPT ![w] = 0],
             UNCHANGED <<now, active, until, cache, loading>>
      PROVE  CacheInv'
  <2>1. loadedAt' \in [Workers -> Nat]
    BY <1>2 DEF CacheInv
  <2>2. \A v \in Workers : loadedAt'[v] = loadedAt[v] \/ loadedAt'[v] = 0
    BY <1>2 DEF CacheInv
  <2>3. \A v \in Workers : loadedAt'[v] <= now
    BY <2>2 DEF CacheInv
  <2> QED
    BY <1>2, <2>1, <2>2, <2>3 DEF CacheInv, ActiveSince, NotLoading
<1>3. CASE UNCHANGED <<now, active, until, cache, loadedAt, loading>>
  BY <1>3 DEF CacheInv, ActiveSince
<1>4. ASSUME NEW u \in Updates, PutWrites(u) PROVE CacheInv'
  BY <1>2, <1>3, <1>4 DEF PutWrites, Invalidate
<1>5. ASSUME NEW u \in Updates, PutCommits(u) PROVE CacheInv'
  <2>1. /\ active' = u /\ until' = [until EXCEPT ![active] = now]
        /\ UNCHANGED <<now, cache, loadedAt, loading>>
    BY <1>5 DEF PutCommits, caches
  <2>2. active' \in Rows /\ until' \in [Rows -> Int]
    BY <2>1 DEF CacheInv, Rows
  <2>3. ASSUME NEW w \in Workers, loadedAt[w] > 0
        PROVE  ActiveSince(cache[w], loadedAt[w] - LoadTime)'
    <3>1. loadedAt[w] - LoadTime \in Int /\ loadedAt[w] - LoadTime <= now
          /\ ActiveSince(cache[w], loadedAt[w] - LoadTime)
      BY <2>3 DEF CacheInv
    <3> QED
      BY <2>1, <3>1, ActiveStays DEF ActiveSince
  <2>4. ASSUME NEW w \in Workers, loading[w] # NotLoading
        PROVE  ActiveSince(loading[w].row, loading[w].since)'
    <3>1. loading[w].since \in Int /\ loading[w].since <= now
          /\ ActiveSince(loading[w].row, loading[w].since)
      BY <2>4 DEF CacheInv
    <3> QED
      BY <2>1, <3>1, ActiveStays DEF ActiveSince
  <2> QED
    BY <2>1, <2>2, <2>3, <2>4 DEF CacheInv, NotLoading
<1>6. ASSUME NEW w \in Workers, LoadBegins(w) PROVE CacheInv'
  <2>1. /\ loading' = [loading EXCEPT ![w] = [row |-> active, since |-> now]]
        /\ UNCHANGED <<now, active, until, cache, loadedAt>>
    BY <1>6 DEF LoadBegins, rows
  <2> QED
    BY <2>1 DEF CacheInv, ActiveSince, NotLoading
<1>7. ASSUME NEW w \in Workers, LoadEnds(w) PROVE CacheInv'
  <2>1. /\ loading[w] # NotLoading /\ cache' = [cache EXCEPT ![w] = loading[w].row]
        /\ loadedAt' = [loadedAt EXCEPT ![w] = now]
        /\ loading' = [loading EXCEPT ![w] = NotLoading]
        /\ UNCHANGED <<now, active, until>>
    BY <1>7 DEF LoadEnds, rows
  <2>2. ActiveSince(loading[w].row, now - LoadTime)
    BY <2>1 DEF CacheInv, ActiveSince
  <2> QED
    BY <2>1, <2>2 DEF CacheInv, ActiveSince, NotLoading
<1>8. ASSUME NEW w \in Workers, LoadFails(w) PROVE CacheInv'
  <2>1. /\ loading' = [loading EXCEPT ![w] = NotLoading]
        /\ UNCHANGED <<now, active, until, cache, loadedAt>>
    BY <1>8 DEF LoadFails, rows
  <2> QED
    BY <2>1 DEF CacheInv, ActiveSince, NotLoading
<1>9. ASSUME NEW w \in Workers, Restart(w) PROVE CacheInv'
  <2>1. /\ cache' = [cache EXCEPT ![w] = Default] /\ loadedAt' = [loadedAt EXCEPT ![w] = 0]
        /\ loading' = [loading EXCEPT ![w] = NotLoading] /\ UNCHANGED <<now, active, until>>
    BY <1>9 DEF Restart
  <2> QED
    BY <2>1 DEF CacheInv, ActiveSince, NotLoading
<1> QED
  BY <1>1, <1>3, <1>4, <1>5, <1>6, <1>7, <1>8, <1>9
     DEF PutBegins, thresholds, rows, caches

\* An unexpired cache was loaded after the worker's start, if the machine is older
\* than the cache's life.
LEMMA CacheIsYoung == CacheInv => StaleForTtlAtMost
BY TimesAssumption, RowsAssumption
   DEF CacheInv, ActiveSince, Rows, StaleForTtlAtMost, Serves, Expired
-----------------------------------------------------------------------------
(* The detector.                                                           *)

LEMMA MaxOfTwo ==
  ASSUME NEW a \in Int, NEW b \in Int
  PROVE  Max({a, b}) \in Int /\ Max({a, b}) >= a /\ Max({a, b}) >= b
<1>1. \E x \in {a, b} : \A y \in {a, b} : x >= y
  <2>1. CASE a >= b
    BY <2>1
  <2>2. CASE b >= a
    BY <2>2
  <2> QED
    BY <2>1, <2>2
<1>2. Max({a, b}) \in {a, b} /\ \A y \in {a, b} : Max({a, b}) >= y
  BY <1>1 DEF Max
<1> QED
  BY <1>2

LEMMA MinOfTwo ==
  ASSUME NEW a \in Int, NEW b \in Int
  PROVE  Min({a, b}) \in Int /\ Min({a, b}) <= a /\ Min({a, b}) <= b
<1>1. \E x \in {a, b} : \A y \in {a, b} : x <= y
  <2>1. CASE a <= b
    BY <2>1
  <2>2. CASE b <= a
    BY <2>2
  <2> QED
    BY <2>1, <2>2
<1>2. Min({a, b}) \in {a, b} /\ \A y \in {a, b} : Min({a, b}) <= y
  BY <1>1 DEF Min
<1> QED
  BY <1>2

LEMMA RoundIsInt ==
  ASSUME NEW h \in Int
  PROVE  Round(h) \in Int
BY DEF Round

\* A box, whatever its corners, is dropped or cut to the frame.
LEMMA LegalBoxFits ==
  ASSUME NEW b \in Corners, LegalBox(b) # None, NEW d, d.box = LegalBox(b)
  PROVE  Accepted(d)
<1> DEFINE x1 == Max({0, Round(Min({b.x1, b.x2}))})
           y1 == Max({0, Round(Min({b.y1, b.y2}))})
           x2 == Min({Frame.width, Round(Max({b.x1, b.x2}))})
           y2 == Min({Frame.height, Round(Max({b.y1, b.y2}))})
<1>1. b.x1 \in Int /\ b.x2 \in Int /\ b.y1 \in Int /\ b.y2 \in Int
  BY DEF Corners
<1>2. /\ Round(Min({b.x1, b.x2})) \in Int /\ Round(Min({b.y1, b.y2})) \in Int
      /\ Round(Max({b.x1, b.x2})) \in Int /\ Round(Max({b.y1, b.y2})) \in Int
  BY <1>1, MinOfTwo, MaxOfTwo, RoundIsInt
<1>3. x1 \in Int /\ x1 >= 0 /\ y1 \in Int /\ y1 >= 0
  <2>1. \A i \in Int : Max({0, i}) \in Int /\ Max({0, i}) >= 0
    <3>1. 0 \in Int
      OBVIOUS
    <3> QED
      BY <3>1, MaxOfTwo, Zenon
  <2> QED
    BY <1>2, <2>1
<1>4. x2 \in Int /\ x2 <= Frame.width /\ y2 \in Int /\ y2 <= Frame.height
  BY <1>2, MinOfTwo, FrameAssumption
<1>5. /\ x1 < x2 /\ y1 < y2
      /\ LegalBox(b) = [x |-> x1, y |-> y1, width |-> x2 - x1, height |-> y2 - y1]
  <2>1. LegalBox(b) = IF x2 <= x1 \/ y2 <= y1 \/ x1 >= Frame.width \/ y1 >= Frame.height
                        THEN None
                        ELSE [x |-> x1, y |-> y1, width |-> x2 - x1, height |-> y2 - y1]
    BY DEF LegalBox
  <2> HIDE DEF x1, y1, x2, y2
  <2> QED
    BY <2>1, <1>3, <1>4
<1> HIDE DEF x1, y1, x2, y2
<1> QED
  BY <1>3, <1>4, <1>5, FrameAssumption DEF Accepted

\* The first n frames, read as they were acquired.
Intact(frames, n) == {<<frames[i], TRUE>> : i \in 1 .. n}

\* A request that has been made: while it runs, what it has read are the first n
\* frames, intact, and the rest is to do; a result rests on all of them.
Asked(q) ==
  /\ q = [status |-> q.status, todo |-> q.todo, frames |-> q.frames,
          read |-> q.read, detections |-> q.detections]
  /\ q.status \in {"running", "completed", "no_findings", "failed"}
  /\ q.frames \in FrameLists
  /\ q.status = "running" =>
       \E n \in 0 .. Len(q.frames) - 1 :
         /\ q.todo = SubSeq(q.frames, n + 1, Len(q.frames))
         /\ q.read = Intact(q.frames, n)
  /\ q.status \in {"completed", "no_findings"} =>
       q.read = Intact(q.frames, Len(q.frames))
  /\ \A d \in q.detections : Accepted(d)

DetectorInv ==
  /\ request = [r \in Requests |-> request[r]]
  /\ \A r \in Requests : request[r].status = "none" \/ Asked(request[r])

LEMMA InitDetector == DetectorInit => DetectorInv
BY DEF DetectorInit, DetectorInv

\* What the model finds in a frame becomes detections the contract accepts.
LEMMA DetectionsAccepted ==
  ASSUME NEW found, \A raw \in found : raw.box \in Corners
  PROVE  \A d \in Detections(found) : Accepted(d)
<1> SUFFICES ASSUME NEW d \in Detections(found) PROVE Accepted(d)
  OBVIOUS
<1>1. PICK raw \in found : /\ LegalBox(raw.box) # None
                           /\ d = [category |-> ToCategory(raw.label), score |-> raw.score,
                                   box |-> LegalBox(raw.box)]
  BY Zenon DEF Detections
<1>2. d.box = LegalBox(raw.box)
  BY <1>1
<1> QED
  BY <1>1, <1>2, LegalBoxFits

LEMMA RequestMoves ==
  ASSUME DetectorInv, NEW r \in Requests, NEW q, Asked(q), request' = [request EXCEPT ![r] = q]
  PROVE  DetectorInv'
BY DEF DetectorInv

LEMMA RequestFails ==
  ASSUME DetectorInv, NEW r \in Requests, request[r].status = "running", Failed(r)
  PROVE  DetectorInv'
<1> DEFINE q == [request[r] EXCEPT !.status = "failed", !.detections = {}]
<1>1. Asked(request[r])
  BY DEF DetectorInv
<1>2. Asked(q)
  <2>1. PICK status, todo, frames, read, detections :
          request[r] = [status |-> status, todo |-> todo, frames |-> frames,
                        read |-> read, detections |-> detections]
    BY <1>1 DEF Asked
  <2>2. q = [[status |-> status, todo |-> todo, frames |-> frames, read |-> read,
              detections |-> detections] EXCEPT !.status = "failed", !.detections = {}]
    BY <2>1, Zenon
  <2> HIDE DEF q
  <2>3. q = [status |-> "failed", todo |-> todo, frames |-> frames, read |-> read,
             detections |-> {}]
    BY <2>2
  <2>4. frames \in FrameLists
    BY <1>1, <2>1 DEF Asked
  <2> QED
    BY <2>3, <2>4 DEF Asked
<1>3. request' = [request EXCEPT ![r] = q]
  BY DEF Failed, DetectorInv
<1> HIDE DEF q
<1> QED
  BY <1>2, <1>3, RequestMoves
\* One frame more: the next to score, what is left after it, and what has been read.
LEMMA FrameByFrame ==
  ASSUME NEW frames \in Seq(Contents), NEW n \in 0 .. Len(frames) - 1,
         NEW todo, todo = SubSeq(frames, n + 1, Len(frames))
  PROVE  /\ Head(todo) = frames[n + 1]
         /\ Tail(todo) = SubSeq(frames, n + 2, Len(frames))
         /\ Tail(todo) # <<>> => n + 1 \in 0 .. Len(frames) - 1
         /\ Tail(todo) = <<>> => n + 1 = Len(frames)
         /\ Intact(frames, n) \cup {<<frames[n + 1], TRUE>>} = Intact(frames, n + 1)
<1>1. Len(frames) \in Nat /\ n \in Nat /\ n + 1 \in 1 .. Len(frames) /\ (n + 1) + 1 = n + 2
  BY LenProperties
<1>2. /\ Head(todo) = frames[n + 1]
      /\ Tail(todo) = SubSeq(frames, (n + 1) + 1, Len(frames))
  BY <1>1, HeadTailOfSubSeq
<1>3. Tail(todo) = <<>> <=> n + 2 > Len(frames)
  <2>1. n + 2 \in 1 .. Len(frames) + 1
    BY <1>1
  <2>2. Len(SubSeq(frames, n + 2, Len(frames)))
          = IF n + 2 <= Len(frames) THEN Len(frames) - (n + 2) + 1 ELSE 0
    BY <1>1, <2>1, SubSeqProperties
  <2>3. SubSeq(frames, n + 2, Len(frames)) \in Seq(Contents)
    BY <1>1, <2>1, SubSeqProperties
  <2>4. SubSeq(frames, n + 2, Len(frames)) = <<>>
          <=> Len(SubSeq(frames, n + 2, Len(frames))) = 0
    BY <2>3, EmptySeq
  <2>5. Tail(todo) = SubSeq(frames, n + 2, Len(frames))
    BY <1>1, <1>2
  <2> QED
    BY <1>1, <2>2, <2>4, <2>5
<1>4. Intact(frames, n) \cup {<<frames[n + 1], TRUE>>} = Intact(frames, n + 1)
  <2>1. \A i : i \in 1 .. n + 1 <=> i \in 1 .. n \/ i = n + 1
    BY <1>1
  <2> QED
    BY <2>1, Zenon DEF Intact
<1>5. /\ Tail(todo) # <<>> => n + 1 \in 0 .. Len(frames) - 1
      /\ Tail(todo) = <<>> => n + 1 = Len(frames)
  BY <1>1, <1>3
<1> QED
  BY <1>1, <1>2, <1>4, <1>5

LEMMA FrameIsScored ==
  ASSUME DetectorInv, NEW r \in Requests, NEW finds, ScoreFrame(r, finds),
         \A found \in finds : \A raw \in found : raw.box \in Corners
  PROVE  DetectorInv'
<1>1. request[r].status = "running" /\ Asked(request[r])
  BY DEF ScoreFrame, DetectorInv
<1>2. CASE Failed(r)
  BY <1>1, <1>2, RequestFails
<1>3. CASE ~Failed(r)
  <2>1. PICK status, todo, frames, read, detections :
          request[r] = [status |-> status, todo |-> todo, frames |-> frames,
                        read |-> read, detections |-> detections]
    BY <1>1 DEF Asked
  <2>2. /\ frames \in FrameLists /\ frames \in Seq(Contents)
        /\ \A d \in detections : Accepted(d)
    BY <1>1, <2>1, FramesAssumption DEF Asked
  <2>3. PICK n \in 0 .. Len(frames) - 1 : /\ todo = SubSeq(frames, n + 1, Len(frames))
                                         /\ read = Intact(frames, n)
    BY <1>1, <2>1 DEF Asked
  <2> DEFINE c == Head(request[r].todo)
             rest == Tail(request[r].todo)
             after(all) == IF rest # <<>> THEN "running"
                           ELSE IF all = {} THEN "no_findings" ELSE "completed"
  <2>4. /\ Loads(c)
        /\ \E found \in finds : request' = [request EXCEPT ![r] =
             [request[r] EXCEPT !.todo = rest,
                                !.detections = request[r].detections \cup Detections(found),
                                !.read = @ \cup {<<c, Whole(c) /\ ~encrypted>>},
                                !.status = after(request[r].detections \cup Detections(found))]]
    BY <1>3, Zenon DEF ScoreFrame
  <2>5. (Whole(c) /\ ~encrypted) = TRUE
    BY <2>4 DEF Loads, Whole
  <2>6. PICK found \in finds : request' = [request EXCEPT ![r] =
          [request[r] EXCEPT !.todo = rest,
                             !.detections = request[r].detections \cup Detections(found),
                             !.read = @ \cup {<<c, TRUE>>},
                             !.status = after(request[r].detections \cup Detections(found))]]
    BY <2>4, <2>5, Zenon
  <2> DEFINE all == detections \cup Detections(found)
             scored == {<<c, TRUE>>}
             q == [status |-> after(all), todo |-> rest, frames |-> frames,
                   read |-> read \cup scored, detections |-> all]
  <2>7. request[r].detections = detections /\ request[r].todo = todo
    BY <2>1
  <2>8. \A d \in all : Accepted(d)
    BY <2>2, DetectionsAccepted
  <2>9. Asked(q)
    <3>1. /\ after(all) \in {"running", "completed", "no_findings"}
          /\ after(all) = "running" <=> rest # <<>>
      OBVIOUS
    <3> HIDE DEF after, all
    <3>2. /\ rest = SubSeq(frames, n + 2, Len(frames))
          /\ rest # <<>> => n + 1 \in 0 .. Len(frames) - 1
          /\ rest = <<>> => n + 1 = Len(frames)
          /\ read \cup {<<c, TRUE>>} = Intact(frames, n + 1)
      BY <2>2, <2>3, <2>7, FrameByFrame
    <3> HIDE DEF c, rest
    <3>3. (n + 1) + 1 = n + 2
      BY <2>3
    <3> QED
      BY <2>2, <2>8, <3>1, <3>2, <3>3 DEF Asked
  <2>10. request' = [request EXCEPT ![r] = q]
    <3> HIDE DEF c, rest, after
    <3>1. request' = [request EXCEPT ![r] =
            [request[r] EXCEPT !.todo = rest, !.detections = all,
                               !.read = @ \cup scored, !.status = after(all)]]
      BY <2>6, <2>7, Zenon
    <3> DEFINE statusNow == after(all)
               readNow == read \cup scored
               q0 == [status |-> status, todo |-> todo, frames |-> frames, read |-> read,
                      detections |-> detections]
               q1 == [status |-> status, todo |-> rest, frames |-> frames, read |-> read,
                      detections |-> detections]
               q2 == [status |-> status, todo |-> rest, frames |-> frames, read |-> read,
                      detections |-> all]
               q3 == [status |-> status, todo |-> rest, frames |-> frames, read |-> readNow,
                      detections |-> all]
               q4 == [status |-> statusNow, todo |-> rest, frames |-> frames, read |-> readNow,
                      detections |-> all]
    <3> HIDE DEF all, scored, statusNow, readNow
    <3>2. q1 = [q0 EXCEPT !.todo = rest]
      OBVIOUS
    <3>3. q2 = [q1 EXCEPT !.detections = all]
      OBVIOUS
    <3>4. q3 = [q2 EXCEPT !.read = readNow]
      OBVIOUS
    <3>5. q4 = [q3 EXCEPT !.status = statusNow]
      OBVIOUS
    <3>6. q0.read \cup scored = readNow
      BY DEF readNow
    <3>7. q = q4
      BY DEF readNow, statusNow
    <3> HIDE DEF q0, q1, q2, q3, q4, q
    <3>8. q4 = [q0 EXCEPT !.todo = rest, !.detections = all, !.read = @ \cup scored,
                          !.status = statusNow]
      BY <3>2, <3>3, <3>4, <3>5, <3>6, Zenon
    <3>9. q0 = request[r]
      BY <2>1 DEF q0
    <3> QED
      BY <3>1, <3>7, <3>8, <3>9, Zenon DEF statusNow
  <2> HIDE DEF q
  <2> QED
    BY <2>9, <2>10, RequestMoves
<1> QED
  BY <1>2, <1>3

LEMMA DetectorMoves ==
  ASSUME StoreInv, DetectorInv, mode \in Modes,
         \/ \E r \in Requests : Serve(r)
         \/ UNCHANGED detector
  PROVE  DetectorInv'
<1>1. ASSUME NEW r \in Requests, NEW frames \in acquired, Detect(r, frames) PROVE DetectorInv'
  <2> DEFINE q == [status |-> "running", todo |-> frames, frames |-> frames,
                   read |-> {}, detections |-> {}]
  <2>1. frames \in FrameLists /\ frames \in Seq(Contents) /\ frames # <<>>
    BY FramesAssumption DEF StoreInv, StoreTypeOK
  <2>2. Len(frames) \in Nat /\ Len(frames) > 0
    BY <2>1, LenProperties, EmptySeq
  <2>3. frames = SubSeq(frames, 0 + 1, Len(frames)) /\ 0 \in 0 .. Len(frames) - 1
    BY <2>1, <2>2, SubSeqFull
  <2>4. Intact(frames, 0) = {}
    <3>1. 1 .. 0 = {}
      OBVIOUS
    <3> QED
      BY <3>1, Zenon DEF Intact
  <2>5. Asked(q)
    BY <2>1, <2>3, <2>4 DEF Asked
  <2>6. request' = [request EXCEPT ![r] = q]
    BY <1>1 DEF Detect
  <2> HIDE DEF q
  <2> QED
    BY <2>5, <2>6, RequestMoves
<1>2. ASSUME NEW r \in Requests, ScoreFrame(r, mode.finds) PROVE DetectorInv'
  BY <1>2, FrameIsScored, ModesAssumption
<1>3. ASSUME NEW r \in Requests, PredictorRaises(r) PROVE DetectorInv'
  BY <1>3, RequestFails DEF PredictorRaises
<1>4. CASE UNCHANGED detector
  BY <1>4 DEF detector, DetectorInv
<1> QED
  BY <1>1, <1>2, <1>3, <1>4 DEF Serve

\* What every request keeps is what its result promises.
LEMMA ResultsHold == StoreInv /\ DetectorInv => ResultsRestOnOriginals /\ ResultsAreLegal
<1> SUFFICES ASSUME DetectorInv PROVE ResultsRestOnOriginals /\ ResultsAreLegal
  OBVIOUS
<1>1. ASSUME NEW r \in Requests, Completed(r)
      PROVE  /\ request[r].read = {<<c, TRUE>> : c \in Range(request[r].frames)}
             /\ \A d \in request[r].detections : Accepted(d)
  <2> DEFINE frames == request[r].frames
  <2>1. Asked(request[r])
    BY <1>1 DEF DetectorInv, Completed
  <2>2. frames \in Seq(Contents)
    BY <2>1, FramesAssumption DEF Asked
  <2>3. DOMAIN frames = 1 .. Len(frames)
    BY <2>2, LenProperties
  <2>4. Range(frames) = {frames[i] : i \in 1 .. Len(frames)}
    BY <2>3 DEF Range
  <2>5. request[r].read = Intact(frames, Len(frames))
    BY <1>1, <2>1 DEF Asked, Completed
  <2>6. Intact(frames, Len(frames)) = {<<c, TRUE>> : c \in Range(frames)}
    BY <2>4, Zenon DEF Intact
  <2> QED
    BY <2>1, <2>5, <2>6 DEF Asked
<1> QED
  BY <1>1 DEF ResultsRestOnOriginals, ResultsAreLegal

-----------------------------------------------------------------------------
(* The three together.                                                     *)

ServingInv == mode \in Modes /\ StoreInv /\ DetectorInv /\ CacheInv

LEMMA NextServing == ServingInv /\ [Next]_vars => ServingInv'
<1> SUFFICES ASSUME ServingInv, [Next]_vars PROVE ServingInv'
  OBVIOUS
<1>0. /\ mode \in Modes /\ StoreInv /\ DetectorInv /\ CacheInv
      /\ mode.lanes \subseteq Lanes /\ mode.workers \subseteq Workers
  BY ModesAssumption DEF ServingInv
<1>1. mode' = mode
  BY DEF Next, vars, bounds, Lane, PowerFails, Serve, Evaluate, Admin, Caching, Clock
<1>2. StoreInv'
  BY <1>0, StoreMoves
     DEF Next, vars, Lane, PowerFails, Serve, Evaluate, Admin, Caching, Clock
<1>3. DetectorInv'
  BY <1>0, DetectorMoves
     DEF Next, vars, Lane, PowerFails, Evaluate, Admin, Caching, Clock
<1>4. CacheInv'
  BY <1>0, CacheMoves
     DEF Next, vars, Lane, PowerFails, Serve, Evaluate, Admin, Caching, Clock
<1> QED
  BY <1>0, <1>1, <1>2, <1>3, <1>4 DEF ServingInv

\* Ingests, detections and threshold updates keep ServingInv, whatever is cut short.
THEOREM ServingInvariance == Spec => []ServingInv
<1>1. Init => ServingInv
  BY InitStore, InitDetector, InitCache DEF Init, ServingInv
<1>2. ServingInv /\ [Next]_vars => ServingInv'
  BY NextServing
<1> QED
  BY <1>1, <1>2, PTL DEF Spec

\* However many lanes store the same content at once, a blob that nobody is writing
\* is whole, unless a write was cut short (put).
THEOREM BlobsSettleWhole == Spec => []SettledIsWhole
<1>1. ServingInv => SettledIsWhole
  BY StoreIsSettled DEF ServingInv
<1> QED
  BY <1>1, ServingInvariance, PTL

\* A result that is not FAILED rests on every frame of the scan, each as acquired.
THEOREM NoResultOnOtherPixels == Spec => []ResultsRestOnOriginals
<1>1. ServingInv => ResultsRestOnOriginals
  BY ResultsHold DEF ServingInv
<1> QED
  BY <1>1, ServingInvariance, PTL

\* The contract accepts every box _legal_box makes of what the model emits.
THEOREM BoxesAreAccepted == Spec => []ResultsAreLegal
<1>1. ServingInv => ResultsAreLegal
  BY ResultsHold DEF ServingInv
<1> QED
  BY <1>1, ServingInvariance, PTL

\* A row that was replaced is served for the cache's life and one query's at most.
THEOREM ThresholdsAgeOut == Spec => []StaleForTtlAtMost
<1>1. ServingInv => StaleForTtlAtMost
  BY CacheIsYoung DEF ServingInv
<1> QED
  BY <1>1, ServingInvariance, PTL
=============================================================================
