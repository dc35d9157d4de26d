--------------------------- MODULE PipelineProofs ---------------------------
(***************************************************************************)
(* What AcquisitionPipeline keeps for any contents, retry budget and       *)
(* number of faults and restarts: no content is ingested twice in a        *)
(* session, every scan taken off the scanner is in one of the books, and   *)
(* what is booked as posted has been through the detector.                 *)
(*                                                                         *)
(* The three rest on each other's bookkeeping: a scan_id is new to the     *)
(* books while it is posted (Books), and an answer that comes back is the  *)
(* answer about the scan in hand, because every older request has lost its *)
(* client (Wire).                                                          *)
(***************************************************************************)
EXTENDS AcquisitionPipeline, FiniteSetTheorems, TLAPS

Places == {"top", "read", "ingest", "post", "waiting", "down"}

Mints == [content : Contents, session : Nat]

Counts == [ingested : Nat, posted : Nat, failed : Nat, retries : Nat]

\* The state space.
TypeOK == /\ pc \in Places
          /\ current \in Contents \cup {None}
          /\ seen \subseteq Contents /\ IsFiniteSet(seen)
          /\ stats \in Counts
          /\ session \in Nat
          /\ minted \in Seq(Mints)
          /\ requests \subseteq [live : BOOLEAN, scan : Nat]

\* What this session has minted it has seen, and the content about to be
\* ingested has been seen and not minted.
MintedOnce ==
  /\ \A i \in DOMAIN minted : /\ minted[i].session <= session
                              /\ minted[i].session = session => minted[i].content \in seen
  /\ pc = "ingest" =>
       /\ current \in seen
       /\ \A i \in DOMAIN minted : minted[i] # [content |-> current, session |-> session]
  /\ OneScanPerContent

\* The books balance, and the scan_id that is being posted is in none of them.
Books ==
  /\ IsFiniteSet(conflicts) /\ conflicts \subseteq 1 .. Scan
  /\ pc \in {"post", "waiting"} => Scan \notin conflicts /\ Scan > 0
  /\ Accounted

\* Only the client's last request is waited for, and its answer is about the
\* scan in hand.
Wire ==
  /\ \A r \in requests : r.live => pc = "waiting" /\ answer = "none" /\ r.scan = Scan
  /\ pc = "waiting" /\ answer = "ok" => Scan \in detected
  /\ PostedIsDetected

IInv == TypeOK /\ MintedOnce /\ Books /\ Wire

-----------------------------------------------------------------------------

LEMMA InitInv == Init => IInv
<1> SUFFICES ASSUME Init PROVE IInv
  OBVIOUS
<1>1. TypeOK
  BY FS_EmptySet DEF Init, TypeOK, Places, Counts, NoStats
<1>2. MintedOnce
  BY DEF Init, MintedOnce, OneScanPerContent
<1>3. Books
  BY FS_EmptySet DEF Init, Books, Accounted, NoStats
<1>4. Wire
  BY DEF Init, Wire, PostedIsDetected
<1> QED
  BY <1>1, <1>2, <1>3, <1>4 DEF IInv

\* Counters are numbers, and so are the sizes of the books.
LEMMA CountFacts ==
  ASSUME TypeOK, IsFiniteSet(conflicts)
  PROVE  /\ stats.ingested \in Nat /\ stats.posted \in Nat
         /\ stats.failed \in Nat /\ stats.retries \in Nat
         /\ [stats EXCEPT !.failed = @ + 1] \in Counts
         /\ [stats EXCEPT !.posted = @ + 1] \in Counts
         /\ [stats EXCEPT !.ingested = @ + 1] \in Counts
         /\ [stats EXCEPT !.retries = @ + 1] \in Counts
         /\ Cardinality(seen) \in Nat /\ Cardinality(conflicts) \in Nat
         /\ Scan \in Nat
<1>1. stats \in Counts
  BY DEF TypeOK
<1>2. /\ stats.ingested \in Nat /\ stats.posted \in Nat
      /\ stats.failed \in Nat /\ stats.retries \in Nat
  BY <1>1 DEF Counts
<1>3. /\ [stats EXCEPT !.failed = @ + 1] \in Counts
      /\ [stats EXCEPT !.posted = @ + 1] \in Counts
      /\ [stats EXCEPT !.ingested = @ + 1] \in Counts
      /\ [stats EXCEPT !.retries = @ + 1] \in Counts
  BY <1>1, <1>2 DEF Counts
<1>4. Cardinality(seen) \in Nat /\ Cardinality(conflicts) \in Nat
  BY FS_CardinalityType DEF TypeOK
<1>5. Scan \in Nat
  BY DEF TypeOK, Scan
<1> QED
  BY <1>2, <1>3, <1>4, <1>5

\* A scan in hand is settled: booked as posted, as existing or as failed.
Settled ==
  \/ /\ stats' = [stats EXCEPT !.posted = @ + 1]
     /\ conflicts' = conflicts
     /\ posted' = posted \cup {Scan} /\ Scan \in detected
  \/ /\ stats' = stats
     /\ conflicts' = conflicts \cup {Scan}
     /\ posted' = posted /\ pc = "waiting"
  \/ /\ stats' = [stats EXCEPT !.failed = @ + 1]
     /\ conflicts' = conflicts /\ posted' = posted

\* A settled scan leaves the books balanced.
LEMMA SettledStep ==
  ASSUME IInv, pc \in {"ingest", "post", "waiting"}, Settled, NextCycle,
         UNCHANGED <<seen, session, minted, detected>>,
         requests' \subseteq [live : BOOLEAN, scan : Nat], \A r \in requests' : ~r.live
  PROVE  IInv'
<1>1. /\ IsFiniteSet(conflicts) /\ stats.posted \in Nat /\ stats.failed \in Nat
      /\ Cardinality(conflicts) \in Nat /\ Scan \in Nat /\ Scan' = Scan
  BY CountFacts DEF IInv, Books, Scan
<1>2. TypeOK'
  BY CountFacts DEF IInv, Books, TypeOK, Settled, NextCycle, Places
<1>3. MintedOnce'
  BY DEF IInv, MintedOnce, OneScanPerContent, NextCycle
<1>4. IsFiniteSet(conflicts') /\ conflicts' \subseteq 1 .. Scan'
  BY <1>1, FS_AddElement DEF IInv, Books, Settled
<1>5. stats'.posted + stats'.failed + Cardinality(conflicts')
        = stats.posted + stats.failed + Cardinality(conflicts) + 1
  <2>1. stats \in Counts
    BY DEF IInv, TypeOK
  <2>2. CASE stats' = [stats EXCEPT !.posted = @ + 1] /\ conflicts' = conflicts
    <3>1. stats'.posted = stats.posted + 1 /\ stats'.failed = stats.failed
      BY <2>1, <2>2 DEF Counts
    <3> QED
      BY <1>1, <2>2, <3>1
  <2>3. CASE stats' = [stats EXCEPT !.failed = @ + 1] /\ conflicts' = conflicts
    <3>1. stats'.posted = stats.posted /\ stats'.failed = stats.failed + 1
      BY <2>1, <2>3 DEF Counts
    <3> QED
      BY <1>1, <2>3, <3>1
  <2>4. CASE stats' = stats /\ conflicts' = conflicts \cup {Scan} /\ pc = "waiting"
    <3>1. Scan \notin conflicts
      BY <2>4 DEF IInv, Books
    <3>2. Cardinality(conflicts') = Cardinality(conflicts) + 1
      BY <1>1, <2>4, <3>1, FS_AddElement
    <3> QED
      BY <1>1, <2>4, <3>2
  <2> QED
    BY <2>2, <2>3, <2>4 DEF Settled
<1>6. Accounted'
  BY <1>5 DEF IInv, Books, Accounted, NextCycle
<1>7. Books'
  BY <1>4, <1>6 DEF Books, NextCycle
<1>8. Wire'
  BY <1>1 DEF IInv, Wire, PostedIsDetected, NextCycle, Settled
<1> QED
  BY <1>2, <1>3, <1>7, <1>8 DEF IInv

\* A step that stays with the scan in hand, or ends the process over it.
LEMMA StayStep ==
  ASSUME IInv,
         UNCHANGED <<seen, current, session, minted, posted, conflicts>>,
         stats' \in Counts, stats'.posted = stats.posted, stats'.failed = stats.failed,
         detected \subseteq detected',
         requests' \subseteq [live : BOOLEAN, scan : Nat],
         \A r \in requests' : r.live => /\ pc' = "waiting" /\ answer' = "none"
                                        /\ r.scan = Scan,
         pc' = "waiting" /\ answer' = "ok" => Scan \in detected',
         \/ pc' = pc \/ pc' = "down"
         \/ pc \in {"top", "read"} /\ pc' \in {"top", "read"}
         \/ pc \in {"post", "waiting"} /\ pc' \in {"post", "waiting"}
  PROVE  IInv'
<1>1. Scan' = Scan
  BY DEF Scan
<1>2. TypeOK'
  BY DEF IInv, TypeOK, Places
<1>3. MintedOnce'
  BY DEF IInv, MintedOnce, OneScanPerContent
<1>4. Books'
  BY <1>1 DEF IInv, Books, Accounted
<1>5. Wire'
  BY <1>1 DEF IInv, Wire, PostedIsDetected
<1> QED
  BY <1>2, <1>3, <1>4, <1>5 DEF IInv

\* Taking a scan off the scanner.
LEMMA ReadStep ==
  ASSUME IInv, NEW c \in Contents, Read(c)
  PROVE  IInv'
<1>1. CASE c \in seen
  BY <1>1, StayStep DEF Read, IInv, TypeOK, Wire, api
<1>2. CASE c \notin seen
  <2>1. /\ pc = "read" /\ pc' = "ingest" /\ current' = c /\ seen' = seen \cup {c}
        /\ UNCHANGED <<session, minted, requests, answer, detected, stats, posted, conflicts>>
    BY <1>2 DEF Read, api
  <2>2. IsFiniteSet(seen') /\ Cardinality(seen') = Cardinality(seen) + 1
    BY <1>2, <2>1, FS_AddElement DEF IInv, TypeOK
  <2>3. TypeOK'
    BY <2>1, <2>2 DEF IInv, TypeOK, Places
  <2>4. MintedOnce'
    BY <1>2, <2>1 DEF IInv, MintedOnce, OneScanPerContent
  <2>5. Books'
    BY <2>1, <2>2 DEF IInv, Books, Accounted, Scan
  <2>6. Wire'
    BY <2>1 DEF IInv, Wire, PostedIsDetected, Scan
  <2> QED
    BY <2>3, <2>4, <2>5, <2>6 DEF IInv
<1> QED
  BY <1>1, <1>2

\* Minting a scan_id.
LEMMA IngestStep ==
  ASSUME IInv, Ingest
  PROVE  IInv'
<1> DEFINE m == [content |-> current, session |-> session]
<1>1. /\ pc = "ingest" /\ pc' = "post" /\ minted' = Append(minted, m)
      /\ stats' = [stats EXCEPT !.ingested = @ + 1]
      /\ UNCHANGED <<current, seen, session, requests, answer, detected, posted, conflicts>>
  BY DEF Ingest, pipeline, api
<1>2. m \in Mints /\ current \in seen /\ m.content = current /\ m.session = session
  BY <1>1 DEF IInv, TypeOK, MintedOnce, Mints
<1>3. \A i \in DOMAIN minted : minted[i] # m
  BY <1>1 DEF IInv, MintedOnce
<1> HIDE DEF m
<1>4. /\ Len(minted) \in Nat /\ Len(minted') = Len(minted) + 1
      /\ minted' \in Seq(Mints)
      /\ DOMAIN minted = 1 .. Len(minted) /\ DOMAIN minted' = 1 .. (Len(minted) + 1)
      /\ \A i \in 1 .. Len(minted) : minted'[i] = minted[i]
      /\ minted'[Len(minted) + 1] = m
  BY <1>1, <1>2 DEF IInv, TypeOK
<1>5. TypeOK'
  BY <1>1, <1>4, CountFacts DEF IInv, Books, TypeOK, Places
<1>6. MintedOnce'
  <2>1. \A i \in DOMAIN minted' : /\ minted'[i].session <= session'
                                  /\ minted'[i].session = session' => minted'[i].content \in seen'
    BY <1>1, <1>2, <1>4 DEF IInv, TypeOK, MintedOnce
  <2>2. OneScanPerContent'
    BY <1>3, <1>4 DEF IInv, MintedOnce, OneScanPerContent
  <2> QED
    BY <1>1, <2>1, <2>2 DEF MintedOnce
<1>7. Books'
  <2>1. stats'.posted = stats.posted /\ stats'.failed = stats.failed
    BY <1>1 DEF IInv, TypeOK, Counts
  <2>2. Accounted'
    BY <1>1, <2>1 DEF IInv, Books, Accounted
  <2> QED
    BY <1>1, <1>4, <2>2 DEF IInv, Books, Scan
<1>8. Wire'
  BY <1>1 DEF IInv, Wire, PostedIsDetected
<1> QED
  BY <1>5, <1>6, <1>7, <1>8 DEF IInv

\* What Again does to a scan whose attempt failed.
LEMMA AgainStep ==
  ASSUME IInv, pc = "waiting", Again,
         UNCHANGED <<seen, session, minted, detected, posted, conflicts>>,
         requests' \subseteq [live : BOOLEAN, scan : Nat], \A r \in requests' : ~r.live
  PROVE  IInv'
<1>1. CASE stats' = [stats EXCEPT !.failed = @ + 1] /\ NextCycle
  BY <1>1, SettledStep DEF Settled
<1>2. CASE /\ stats' = [stats EXCEPT !.retries = @ + 1]
           /\ pc' = "post" /\ UNCHANGED current
  <2>1. stats' \in Counts /\ stats'.posted = stats.posted /\ stats'.failed = stats.failed
    BY <1>2, CountFacts DEF IInv, Books, TypeOK, Counts
  <2> QED
    BY <1>2, <2>1, StayStep
<1> QED
  BY <1>1, <1>2 DEF Again

\* What is left on the wire when the client has hung up.
LEMMA HungUp ==
  ASSUME IInv, HangUp \/ requests' = Orphans
  PROVE  /\ requests' \subseteq [live : BOOLEAN, scan : Nat]
         /\ \A r \in requests' : ~r.live
BY DEF IInv, TypeOK, HangUp, Orphans

\* The posting of a scan.
LEMMA PostStep ==
  ASSUME IInv, Send \/ TransportError \/ Receive
  PROVE  IInv'
<1>1. CASE Send
  <2>1. /\ pc = "post" /\ pc' = "waiting" /\ answer' = "none"
        /\ requests' = requests \cup {[live |-> TRUE, scan |-> Scan]}
        /\ UNCHANGED <<seen, current, session, minted, posted, conflicts, stats, detected>>
    BY <1>1 DEF Send, pipeline, books
  <2>2. Scan \in Nat
    BY CountFacts DEF IInv, Books
  <2> DEFINE mine == [live |-> TRUE, scan |-> Scan]
  <2>3. mine \in [live : BOOLEAN, scan : Nat] /\ mine.scan = Scan
    BY <2>2
  <2>4. \A r \in requests : ~r.live
    BY <2>1 DEF IInv, Wire
  <2> HIDE DEF mine
  <2>5. /\ requests' \subseteq [live : BOOLEAN, scan : Nat]
        /\ \A r \in requests' : r.live => r.scan = Scan
    BY <2>1, <2>3, <2>4 DEF IInv, TypeOK, mine
  <2> QED
    BY <2>1, <2>5, StayStep DEF IInv, TypeOK
<1>2. CASE TransportError
  BY <1>2, AgainStep, HungUp DEF TransportError
<1>3. CASE Receive
  <2>1. /\ pc = "waiting" /\ answer # "none"
        /\ UNCHANGED <<seen, session, minted, requests, answer, detected>>
    BY <1>3 DEF Receive, api
  <2>2. requests' \subseteq [live : BOOLEAN, scan : Nat] /\ \A r \in requests' : ~r.live
    BY <2>1 DEF IInv, TypeOK, Wire
  <2>3. CASE answer = "error" /\ Again /\ UNCHANGED <<posted, conflicts>>
    BY <2>1, <2>2, <2>3, AgainStep
  <2>4. CASE NextCycle /\ Settled
    BY <2>1, <2>2, <2>4, SettledStep
  <2> QED
    BY <1>3, <2>1, <2>3, <2>4 DEF Receive, Settled, IInv, Wire
<1> QED
  BY <1>1, <1>2, <1>3

\* The API is through with a request.
LEMMA ServeStep ==
  ASSUME IInv, NEW r \in requests, Detect(r) \/ DetectConflict(r) \/ DetectFails(r)
  PROVE  IInv'
<1>1. PICK code \in {"ok", "conflict", "error"} :
        Reply(r, code) /\ (code = "ok" => detected' = detected \cup {r.scan})
                       /\ (code # "ok" => detected' = detected)
  BY DEF Detect, DetectConflict, DetectFails
<1>2. /\ requests' = requests \ {r}
      /\ answer' = IF r.live THEN code ELSE answer
      /\ UNCHANGED <<pc, seen, current, session, minted, posted, conflicts, stats>>
  BY <1>1 DEF Reply, pipeline, books
<1>3. \A q \in requests' : q.live => pc = "waiting" /\ answer' = "none" /\ q.scan = Scan
  BY <1>2 DEF IInv, TypeOK, Wire
<1>4. pc' = "waiting" /\ answer' = "ok" => Scan \in detected'
  BY <1>1, <1>2 DEF IInv, Wire
<1> QED
  BY <1>1, <1>2, <1>3, <1>4, StayStep DEF IInv, TypeOK

\* A new session has empty books and an empty memory.
LEMMA RestartStep ==
  ASSUME IInv, Restart
  PROVE  IInv'
<1>1. /\ pc = "down" /\ pc' = "top" /\ session' = session + 1
      /\ current' = None /\ seen' = {} /\ stats' = NoStats
      /\ posted' = {} /\ conflicts' = {}
      /\ UNCHANGED <<minted, requests, answer, detected>>
  BY DEF Restart, api
<1>2. TypeOK'
  BY <1>1, FS_EmptySet DEF IInv, TypeOK, Places, Counts, NoStats
<1>3. MintedOnce'
  <2>1. \A i \in DOMAIN minted : minted[i].session \in Nat /\ minted[i].session <= session
    <3>1. \A i \in DOMAIN minted : minted[i] \in Mints
      BY DEF IInv, TypeOK
    <3> QED
      BY <3>1 DEF IInv, MintedOnce, Mints
  <2> QED
    BY <1>1, <2>1 DEF IInv, TypeOK, MintedOnce, OneScanPerContent
<1>4. Books'
  BY <1>1, FS_EmptySet DEF Books, Accounted, NoStats
<1>5. Wire'
  BY <1>1 DEF IInv, Wire, PostedIsDetected
<1> QED
  BY <1>2, <1>3, <1>4, <1>5 DEF IInv

\* The steps of the loop and of the process that post nothing.
LEMMA LoopStep ==
  ASSUME IInv, Top \/ Unavailable \/ IngestRaises \/ Refuse \/ Stop \/ Crash
  PROVE  IInv'
<1>1. CASE Refuse
  BY <1>1, SettledStep DEF Refuse, Settled, IInv, TypeOK, Wire, api
<1>2. CASE Crash
  BY <1>2, HungUp, StayStep DEF Crash, pipeline, books, IInv, TypeOK
<1>3. CASE Top \/ Unavailable \/ IngestRaises \/ Stop
  BY <1>3, StayStep DEF Top, Unavailable, IngestRaises, Stop, pipeline, books, api, IInv, TypeOK, Wire
<1> QED
  BY <1>1, <1>2, <1>3

LEMMA NextInv == IInv /\ [Next]_vars => IInv'
<1> SUFFICES ASSUME IInv, [Next]_vars PROVE IInv'
  OBVIOUS
<1>1. CASE UNCHANGED vars
  BY <1>1, StayStep DEF vars, pipeline, books, api, IInv, TypeOK, Wire
<1>2. CASE Next
  BY <1>2, ReadStep, IngestStep, PostStep, ServeStep, RestartStep, LoopStep
     DEF Next, Loop, Serve, Handle
<1> QED
  BY <1>1, <1>2

\* Sessions, books and wire stay in step, whatever fails and restarts.
THEOREM PipelineInvariance == Spec => []IInv
BY InitInv, NextInv, PTL DEF Spec

\* No content gets a second scan_id in one session, for any contents and any
\* number of deliveries, failures and restarts.
THEOREM NoDoubleIngest == Spec => []OneScanPerContent
<1>1. IInv => OneScanPerContent
  BY DEF IInv, MintedOnce
<1> QED
  BY <1>1, PipelineInvariance, PTL

\* Every scan taken off the scanner is in exactly one of the books.
THEOREM EveryScanIsAccounted == Spec => []Accounted
<1>1. IInv => Accounted
  BY DEF IInv, Books
<1> QED
  BY <1>1, PipelineInvariance, PTL

\* A scan is booked as posted only when the detector has run on it, however
\* many of its requests are still at work in the API.
THEOREM NothingPostedUndetected == Spec => []PostedIsDetected
<1>1. IInv => PostedIsDetected
  BY DEF IInv, Wire
<1> QED
  BY <1>1, PipelineInvariance, PTL
=============================================================================
