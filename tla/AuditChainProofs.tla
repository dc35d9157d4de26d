-------------------------- MODULE AuditChainProofs --------------------------
(***************************************************************************)
(* Theorems of AuditChain for any calls, workers and pool, proved with     *)
(* TLAPS.  IInv says that the advisory lock makes what a call has read and *)
(* inserted the end of the table until it commits; from it follow that the *)
(* chain verifies at every moment and that the table is an append-only log.*)
(* PoolInv counts the connections: those free, the requests' and those     *)
(* record() has open are the worker's pool.  HoldersInside orders the      *)
(* locks: calls never wait for one another in a circle.                    *)
(***************************************************************************)
EXTENDS AuditChain, FiniteSetTheorems, TLAPS

\* The newest row that a tail is compared with is the one that is read: in a
\* non-empty table with a newest row, Newest returns a newest row.
LEMMA NewestIsLast ==
  ASSUME IInv
  PROVE  /\ Newest(table) \in table \cup {GENESIS}
         /\ \A f \in table : f.seq <= Newest(table).seq
<1>1. CASE table = {}
  BY <1>1 DEF Newest
<1>2. CASE table # {}
  <2>1. PICK e \in table : \A f \in table : f.seq <= e.seq
    BY <1>2 DEF IInv, TailExists
  <2>2. Newest(table) = CHOOSE x \in table : \A f \in table : f.seq <= x.seq
    BY <1>2 DEF Newest
  <2> QED BY <2>1, <2>2
<1> QED BY <1>1, <1>2

\* The genesis link is a row as far as types go.
LEMMA GenesisIsRow == GENESIS \in Rows
BY DEF GENESIS, Rows

\* The initial state satisfies the inductive invariant.
LEMMA InitIInv == Init => IInv
<1> SUFFICES ASSUME Init PROVE IInv
  OBVIOUS
<1> USE DEF Init
<1>1. TypeOK
  BY GenesisIsRow, PoolAssumption DEF TypeOK, Steps
<1>2. LocksAgree
  BY NoneAssumption DEF LocksAgree, Inside, Chaining
<1>3. RowsAreDistinct /\ TailExists /\ Linked /\ DraftsAreNext /\ AcknowledgedIsStored
  BY DEF RowsAreDistinct, TailExists, Linked, DraftsAreNext, AcknowledgedIsStored
<1> QED BY <1>1, <1>2, <1>3 DEF IInv

\* A step that leaves the rows, the drafts and the sequence alone, sends nobody
\* into the middle of a transaction, keeps an ended call ended and acknowledges
\* nobody new, keeps everything the invariant says about rows.
LEMMA RowsKept ==
  ASSUME IInv, table' = table, draft' = draft, nextval' = nextval,
         \A d \in Calls : pc'[d] \in {"read", "inserted"} => pc'[d] = pc[d],
         \A d \in Calls : pc[d] \in Ended => pc'[d] \in Ended,
         \A d \in Calls : pc'[d] \in {"recorded", "accepted"}
                            => pc[d] \in {"recorded", "accepted"}
  PROVE  /\ RowsAreDistinct' /\ TailExists' /\ Linked'
         /\ DraftsAreNext' /\ AcknowledgedIsStored'
<1>1. RowsAreDistinct'
  BY DEF IInv, RowsAreDistinct
<1>2. TailExists' /\ Linked'
  BY DEF IInv, TailExists, Linked, HangsOn
<1>3. DraftsAreNext'
  BY DEF IInv, DraftsAreNext, HangsOn
<1>4. AcknowledgedIsStored'
  BY DEF IInv, AcknowledgedIsStored
<1> QED BY <1>1, <1>2, <1>3, <1>4

\* A request's connection, the worker's lock, its second connection and the
\* advisory lock are taken and given back without touching the rows.
LEMMA CallStep ==
  ASSUME IInv, NEW c \in Calls, NEW w \in Workers, Call(c, w)
  PROVE  IInv'
<1> USE DEF Call, Goto
<1>1. TypeOK'
  BY DEF IInv, TypeOK, Steps
<1>2. LocksAgree'
  BY DEF IInv, TypeOK, LocksAgree, Inside, Chaining
<1>3. RowsAreDistinct' /\ TailExists' /\ Linked' /\ DraftsAreNext' /\ AcknowledgedIsStored'
  BY RowsKept DEF IInv, TypeOK, Ended
<1> QED BY <1>1, <1>2, <1>3 DEF IInv

\* Entering the worker's lock keeps the invariant: it was free.
LEMMA LockStep ==
  ASSUME IInv, NEW c \in Calls, Lock(c)
  PROVE  IInv'
<1> USE DEF Lock, Goto
<1>1. at[c] \in Workers
  BY DEF IInv, LocksAgree
<1>2. TypeOK'
  BY <1>1 DEF IInv, TypeOK, Steps
<1>3. LocksAgree'
  BY <1>1, NoneAssumption DEF IInv, TypeOK, LocksAgree, Inside, Chaining
<1>4. RowsAreDistinct' /\ TailExists' /\ Linked' /\ DraftsAreNext' /\ AcknowledgedIsStored'
  BY RowsKept DEF IInv, TypeOK, Ended
<1> QED BY <1>2, <1>3, <1>4 DEF IInv

\* Taking the second connection keeps the invariant.
LEMMA CheckOutStep ==
  ASSUME IInv, NEW c \in Calls, CheckOut(c)
  PROVE  IInv'
<1> USE DEF CheckOut, Goto
<1>1. at[c] \in Workers
  BY DEF IInv, LocksAgree
<1>2. TypeOK'
  BY <1>1 DEF IInv, TypeOK, Steps
<1>3. LocksAgree'
  BY DEF IInv, TypeOK, LocksAgree, Inside, Chaining
<1>4. RowsAreDistinct' /\ TailExists' /\ Linked' /\ DraftsAreNext' /\ AcknowledgedIsStored'
  BY RowsKept DEF IInv, TypeOK, Ended
<1> QED BY <1>2, <1>3, <1>4 DEF IInv

\* Giving up on the pool keeps the invariant: the lock goes back untouched.
LEMMA PoolTimeoutStep ==
  ASSUME IInv, NEW c \in Calls, PoolTimeout(c)
  PROVE  IInv'
<1> USE DEF PoolTimeout, Goto
<1>1. at[c] \in Workers /\ holder[at[c]] = c
  BY DEF IInv, LocksAgree, Inside
<1>2. TypeOK'
  BY <1>1 DEF IInv, TypeOK, Steps
<1>3. LocksAgree'
  BY <1>1 DEF IInv, TypeOK, LocksAgree, Inside, Chaining
<1>4. RowsAreDistinct' /\ TailExists' /\ Linked' /\ DraftsAreNext' /\ AcknowledgedIsStored'
  BY RowsKept DEF IInv, TypeOK, Ended
<1> QED BY <1>2, <1>3, <1>4 DEF IInv

\* Taking the advisory lock keeps the invariant: nobody else is in the chain's
\* critical section.
LEMMA AdvisoryLockStep ==
  ASSUME IInv, NEW c \in Calls, AdvisoryLock(c)
  PROVE  IInv'
<1> USE DEF AdvisoryLock, AdvisoryFree, Goto
<1>1. TypeOK'
  BY DEF IInv, TypeOK, Steps
<1>2. LocksAgree'
  BY NoneAssumption DEF IInv, TypeOK, LocksAgree, Inside, Chaining
<1>3. RowsAreDistinct' /\ TailExists' /\ Linked' /\ DraftsAreNext' /\ AcknowledgedIsStored'
  BY RowsKept DEF IInv, TypeOK, Ended
<1> QED BY <1>1, <1>2, <1>3 DEF IInv

\* The tail that is read is a newest row.
LEMMA ReadTailStep ==
  ASSUME IInv, NEW c \in Calls, ReadTail(c)
  PROVE  IInv'
<1> USE DEF ReadTail, LinkOf, Goto
<1>1. Newest(table) \in Rows
  BY NewestIsLast, GenesisIsRow DEF IInv, TypeOK
<1>2. TypeOK'
  BY <1>1 DEF IInv, TypeOK, Steps
<1>3. LocksAgree'
  BY DEF IInv, TypeOK, LocksAgree, Inside, Chaining
<1>4. RowsAreDistinct' /\ TailExists' /\ Linked' /\ AcknowledgedIsStored'
  BY DEF IInv, TypeOK, RowsAreDistinct, TailExists, Linked, HangsOn,
         AcknowledgedIsStored, Ended
<1>5. DraftsAreNext'
  <2> SUFFICES ASSUME NEW d \in Calls
               PROVE  /\ pc'[d] = "read" => /\ draft'[d] \in table' \cup {GENESIS}
                                            /\ \A f \in table' : f.seq <= draft'[d].seq
                      /\ pc'[d] = "inserted" =>
                           /\ draft'[d].id = d /\ draft'[d].seq \in 1 .. nextval' - 1
                           /\ \A f \in table' : f.seq < draft'[d].seq
                           /\ \E p \in table' \cup {GENESIS} : HangsOn(draft'[d], p, table')
    BY DEF DraftsAreNext, HangsOn
  <2>1. CASE d = c
    BY <2>1, NewestIsLast DEF IInv, TypeOK
  <2>2. CASE d # c
    BY <2>2 DEF IInv, TypeOK, DraftsAreNext
  <2> QED BY <2>1, <2>2
<1> QED BY <1>2, <1>3, <1>4, <1>5 DEF IInv

\* A row computed from a tail is a row, numbered and linked as computed.
LEMMA ComputedRow ==
  ASSUME NEW c \in Calls, NEW t \in Rows, NEW n \in Nat
  PROVE  /\ compute_row(c, t, n) \in Rows
         /\ compute_row(c, t, n).id = c /\ compute_row(c, t, n).seq = n
         /\ compute_row(c, t, n).prev = t.id
         /\ compute_row(c, t, n).mac = Append(t.mac, c)
<1>1. t.mac \in Seq(Calls) /\ t.id \in Calls \cup {None}
  BY DEF Rows
<1>2. Append(t.mac, c) \in Seq(Calls)
  BY <1>1
<1> QED BY <1>1, <1>2 DEF compute_row, Rows

\* Only one call is in the chain's critical section.
LEMMA OneInChain ==
  ASSUME IInv, NEW c \in Calls, NEW d \in Calls,
         pc[c] \in Chaining, pc[d] \in Chaining
  PROVE  c = d
BY DEF IInv, LocksAgree

\* The inserted row is newer than every row of the table and hangs on the newest.
LEMMA InsertStep ==
  ASSUME IInv, NEW c \in Calls, Insert(c)
  PROVE  IInv'
<1> USE DEF Insert, Goto
<1> DEFINE t == draft[c]
           r == compute_row(c, draft[c], nextval)
<1>1. /\ t \in Rows /\ nextval \in Nat /\ nextval >= 1
      /\ t \in table \cup {GENESIS}
      /\ \A f \in table : f.seq <= t.seq
  BY DEF IInv, TypeOK, DraftsAreNext
<1>2. r \in Rows /\ r.id = c /\ r.seq = nextval /\ r.prev = t.id /\ r.mac = Append(t.mac, c)
  <2>1. \A x \in Rows : \A n \in Nat :
          /\ compute_row(c, x, n) \in Rows
          /\ compute_row(c, x, n).id = c /\ compute_row(c, x, n).seq = n
          /\ compute_row(c, x, n).prev = x.id
          /\ compute_row(c, x, n).mac = Append(x.mac, c)
    BY ComputedRow, Zenon
  <2> HIDE DEF Insert
  <2> QED BY <2>1, <1>1, Zenon
<1> HIDE DEF r
<1>3. draft' = [draft EXCEPT ![c] = r] /\ nextval' = nextval + 1 /\ table' = table
  BY DEF r
<1>4. TypeOK'
  BY <1>1, <1>2, <1>3 DEF IInv, TypeOK, Steps
<1>5. LocksAgree'
  BY DEF IInv, TypeOK, LocksAgree, Inside, Chaining
<1>6. RowsAreDistinct'
  <2>1. \A e \in table : e.seq \in 1 .. nextval' - 1
    BY <1>1, <1>3 DEF IInv, RowsAreDistinct, TypeOK
  <2>2. \A e \in table : e.id \in Calls /\ pc'[e.id] \in Ended
    BY DEF IInv, TypeOK, RowsAreDistinct, Ended
  <2> QED BY <2>1, <2>2, <1>3 DEF IInv, RowsAreDistinct
<1>7. TailExists' /\ Linked' /\ AcknowledgedIsStored'
  BY DEF IInv, TypeOK, TailExists, Linked, HangsOn, AcknowledgedIsStored
<1>8. DraftsAreNext'
  <2> SUFFICES ASSUME NEW d \in Calls
               PROVE  /\ pc'[d] = "read" => /\ draft'[d] \in table' \cup {GENESIS}
                                            /\ \A f \in table' : f.seq <= draft'[d].seq
                      /\ pc'[d] = "inserted" =>
                           /\ draft'[d].id = d /\ draft'[d].seq \in 1 .. nextval' - 1
                           /\ \A f \in table' : f.seq < draft'[d].seq
                           /\ \E p \in table' \cup {GENESIS} : HangsOn(draft'[d], p, table')
    BY DEF DraftsAreNext, HangsOn
  <2>1. CASE d = c
    <3>1. pc'[d] = "inserted" /\ draft'[d] = r
      BY <2>1, <1>3 DEF IInv, TypeOK
    <3>2. \A f \in table : f.seq < r.seq
      BY <1>2, <1>1 DEF IInv, RowsAreDistinct, TypeOK, Rows
    <3>3. t.seq < r.seq
      BY <1>1, <1>2, <3>2 DEF GENESIS
    <3>4. HangsOn(r, t, table)
      BY <1>1, <1>2, <3>2, <3>3 DEF HangsOn
    <3> QED BY <3>1, <3>2, <3>4, <1>1, <1>2, <1>3, <2>1
  <2>2. CASE d # c
    <3>1. pc'[d] = pc[d] /\ draft'[d] = draft[d]
      BY <2>2, <1>3 DEF IInv, TypeOK
    <3>2. pc[d] \notin {"read", "inserted"}
      BY <2>2, OneInChain DEF Chaining
    <3> QED BY <3>1, <3>2
  <2> QED BY <2>1, <2>2
<1> QED BY <1>4, <1>5, <1>6, <1>7, <1>8 DEF IInv

\* The end of a transaction gives back what it held and nothing else.
LEMMA ReleaseKeepsLocks ==
  ASSUME IInv, NEW c \in Calls, pc[c] \in {"connected"} \cup Chaining, Release(c),
         NEW next \in {"recorded", "raised"},
         pc' = [pc EXCEPT ![c] = next], at' = at
  PROVE  /\ pc' \in [Calls -> Steps] /\ at' \in [Calls -> Workers \cup {None}]
         /\ holder' \in [Workers -> Calls \cup {None}]
         /\ free' \in [Workers -> Nat]
         /\ advisory' \in Calls \cup {None}
         /\ LocksAgree'
<1>1. at[c] \in Workers /\ holder[at[c]] = c
  BY DEF IInv, LocksAgree, Inside, Chaining
<1>2. pc' \in [Calls -> Steps] /\ advisory' \in Calls \cup {None}
  BY DEF IInv, TypeOK, Steps, Release
<1>3. holder' \in [Workers -> Calls \cup {None}] /\ free' \in [Workers -> Nat]
  BY <1>1 DEF IInv, TypeOK, Release
<1>4. at' \in [Calls -> Workers \cup {None}]
  BY DEF IInv, TypeOK
<1>5. LocksAgree'
  <2> SUFFICES ASSUME NEW d \in Calls
               PROVE  /\ pc'[d] # "idle" => at'[d] \in Workers
                      /\ pc'[d] \in Inside => holder'[at'[d]] = d
                      /\ pc'[d] \in Chaining <=> advisory' = d
    BY DEF LocksAgree
  <2>1. CASE d = c
    BY <2>1, <1>1, NoneAssumption DEF IInv, TypeOK, LocksAgree, Inside, Chaining, Release
  <2>2. CASE d # c
    <3>1. pc'[d] = pc[d]
      BY <2>2 DEF IInv, TypeOK
    <3>2. pc[d] \in Inside => holder'[at[d]] = d
      BY <2>2, <1>1 DEF IInv, TypeOK, LocksAgree, Inside, Release
    <3>3. pc[d] \in Chaining <=> advisory' = d
      BY <2>2, NoneAssumption DEF IInv, TypeOK, LocksAgree, Chaining, Release
    <3> QED BY <3>1, <3>2, <3>3 DEF IInv, LocksAgree
  <2> QED BY <2>1, <2>2
<1> QED BY <1>2, <1>3, <1>4, <1>5

\* A failed transaction leaves the rows as they were.
LEMMA AbortStep ==
  ASSUME IInv, NEW c \in Calls, Abort(c)
  PROVE  IInv'
<1>1. pc[c] \in {"connected"} \cup Chaining /\ pc' = [pc EXCEPT ![c] = "raised"]
      /\ at' = at /\ Release(c)
  BY DEF Abort, Chaining
<1>2. TypeOK' /\ LocksAgree'
  BY <1>1, ReleaseKeepsLocks DEF IInv, TypeOK, Abort
<1>3. RowsAreDistinct' /\ TailExists' /\ Linked' /\ DraftsAreNext' /\ AcknowledgedIsStored'
  BY RowsKept DEF Abort, IInv, TypeOK, Ended
<1> QED BY <1>2, <1>3 DEF IInv

\* The committed row becomes the newest row and hangs on the one before it.
LEMMA CommitStep ==
  ASSUME IInv, NEW c \in Calls, Commit(c)
  PROVE  IInv'
<1>1. PICK next \in {"recorded", "raised"} : pc[c] = "inserted" /\ pc' = [pc EXCEPT ![c] = next]
  BY DEF Commit, Goto
<1> DEFINE r == draft[c]
<1>2. /\ table' = table \cup {r} /\ draft' = draft /\ nextval' = nextval
      /\ at' = at /\ crashes' = crashes /\ Release(c)
  BY DEF Commit
<1>3. /\ r.id = c /\ r.seq \in 1 .. nextval - 1
      /\ \A f \in table : f.seq < r.seq
      /\ \E p \in table \cup {GENESIS} : HangsOn(r, p, table)
  BY <1>1 DEF IInv, DraftsAreNext
<1>4. r \in Rows /\ nextval \in Nat /\ \A f \in table : f \in Rows /\ f.seq \in Nat
  BY DEF IInv, TypeOK, Rows
<1>5. TypeOK' /\ LocksAgree'
  BY <1>1, <1>2, <1>4, ReleaseKeepsLocks DEF IInv, TypeOK, Chaining
<1>6. \A d \in Calls : /\ pc[d] \in Ended => pc'[d] = pc[d]
                       /\ pc'[c] \in Ended
                       /\ d # c => pc'[d] = pc[d]
  BY <1>1 DEF IInv, TypeOK, Ended
<1>7. \A e \in table : e.id # c
  BY <1>1 DEF IInv, RowsAreDistinct, Ended
<1> HIDE DEF r
<1>8. RowsAreDistinct'
  <2>1. \A e, f \in table' : e.seq = f.seq \/ e.id = f.id => e = f
    BY <1>2, <1>3, <1>4, <1>7 DEF IInv, RowsAreDistinct
  <2>2. \A e \in table' : e.seq \in 1 .. nextval' - 1 /\ e.id \in Calls /\ pc'[e.id] \in Ended
    BY <1>2, <1>3, <1>6 DEF IInv, RowsAreDistinct
  <2> QED BY <2>1, <2>2 DEF RowsAreDistinct
<1>9. TailExists'
  BY <1>2, <1>3, <1>4 DEF TailExists
<1>10. Linked'
  <2> SUFFICES ASSUME NEW e \in table'
               PROVE  \E p \in table' \cup {GENESIS} : HangsOn(e, p, table')
    BY DEF Linked, HangsOn
  <2>1. CASE e = r
    <3>1. PICK p \in table \cup {GENESIS} : HangsOn(r, p, table)
      BY <1>3
    <3>2. HangsOn(r, p, table')
      BY <3>1, <1>2, <1>4 DEF HangsOn, Rows
    <3> QED BY <2>1, <3>2, <1>2
  <2>2. CASE e \in table
    <3>1. PICK p \in table \cup {GENESIS} : HangsOn(e, p, table)
      BY <2>2 DEF IInv, Linked
    <3>2. ~ (r.seq < e.seq)
      BY <2>2, <1>3, <1>4
    <3>3. HangsOn(e, p, table')
      BY <3>1, <3>2, <1>2 DEF HangsOn
    <3> QED BY <3>3, <1>2
  <2> QED BY <2>1, <2>2, <1>2
<1>11. DraftsAreNext'
  <2>1. \A d \in Calls : pc'[d] \notin {"read", "inserted"}
    BY <1>1, <1>6, OneInChain DEF Chaining, Ended
  <2> QED BY <2>1 DEF DraftsAreNext
<1>12. AcknowledgedIsStored'
  BY <1>2, <1>3, <1>6 DEF IInv, AcknowledgedIsStored
<1> QED BY <1>5, <1>8, <1>9, <1>10, <1>11, <1>12 DEF IInv

\* The end of a request keeps the invariant.
LEMMA EndRequestStep ==
  ASSUME IInv, NEW c \in Calls, EndRequest(c)
  PROVE  IInv'
<1> USE DEF EndRequest, Goto
<1>1. at[c] \in Workers
  BY DEF IInv, LocksAgree
<1>2. TypeOK'
  BY <1>1 DEF IInv, TypeOK, Steps
<1>3. LocksAgree'
  BY DEF IInv, TypeOK, LocksAgree, Inside, Chaining
<1>4. RowsAreDistinct' /\ TailExists' /\ Linked' /\ DraftsAreNext' /\ AcknowledgedIsStored'
  BY RowsKept DEF IInv, TypeOK, Ended
<1> QED BY <1>2, <1>3, <1>4 DEF IInv

\* The death of a worker ends its calls, frees its locks and stores nothing.
LEMMA CrashStep ==
  ASSUME IInv, NEW w \in Workers, Crash(w)
  PROVE  IInv'
<1> USE DEF Crash
<1>1. \A d \in Calls : pc'[d] = IF d \in Busy(w) THEN "refused" ELSE pc[d]
  OBVIOUS
<1>2. TypeOK'
  <2>1. pc' \in [Calls -> Steps]
    BY DEF IInv, TypeOK, Steps
  <2>2. free' \in [Workers -> Nat] /\ holder' \in [Workers -> Calls \cup {None}]
    BY PoolAssumption DEF IInv, TypeOK
  <2> QED BY <2>1, <2>2 DEF IInv, TypeOK
<1>3. LocksAgree'
  <2> SUFFICES ASSUME NEW d \in Calls
               PROVE  /\ pc'[d] # "idle" => at'[d] \in Workers
                      /\ pc'[d] \in Inside => holder'[at'[d]] = d
                      /\ pc'[d] \in Chaining <=> advisory' = d
    BY DEF LocksAgree
  <2>1. CASE d \in Busy(w)
    BY <2>1, <1>1, NoneAssumption DEF IInv, TypeOK, LocksAgree, Inside, Chaining, Busy
  <2>2. CASE d \notin Busy(w)
    <3>1. pc'[d] = pc[d] /\ (pc[d] \in Inside => at[d] # w)
      BY <2>2, <1>1 DEF Busy, Inside
    <3>2. pc[d] \in Inside => holder'[at[d]] = d
      BY <3>1 DEF IInv, TypeOK, LocksAgree, Inside
    <3>3. pc[d] \in Chaining <=> advisory' = d
      BY <2>2, NoneAssumption DEF IInv, TypeOK, LocksAgree
    <3> QED BY <3>1, <3>2, <3>3 DEF IInv, LocksAgree
  <2> QED BY <2>1, <2>2
<1>4. RowsAreDistinct' /\ TailExists' /\ Linked' /\ DraftsAreNext' /\ AcknowledgedIsStored'
  BY <1>1, RowsKept DEF Ended
<1> QED BY <1>2, <1>3, <1>4 DEF IInv

\* The invariant is inductive.
LEMMA NextIInv == IInv /\ [Next]_vars => IInv'
<1> SUFFICES ASSUME IInv, [Next]_vars PROVE IInv'
  OBVIOUS
<1>1. CASE UNCHANGED vars
  BY <1>1 DEF vars, IInv, TypeOK, LocksAgree, RowsAreDistinct, TailExists, Linked,
              HangsOn, DraftsAreNext, AcknowledgedIsStored
<1>2. ASSUME NEW c \in Calls, NEW w \in Workers, Call(c, w) PROVE IInv'
  BY <1>2, CallStep
<1>3. ASSUME NEW c \in Calls, Step(c) PROVE IInv'
  BY <1>3, LockStep, CheckOutStep, PoolTimeoutStep, AdvisoryLockStep, ReadTailStep,
     InsertStep, CommitStep, EndRequestStep DEF Step
<1>4. ASSUME NEW c \in Calls, Abort(c) PROVE IInv'
  BY <1>4, AbortStep
<1>5. ASSUME NEW w \in Workers, Crash(w) PROVE IInv'
  BY <1>5, CrashStep
<1> QED BY <1>1, <1>2, <1>3, <1>4, <1>5 DEF Next

\* Every reachable state satisfies the inductive invariant: locks and holders
\* agree, rows are distinct, linked, and stored before they are acknowledged.
THEOREM ChainInvariance == Spec => []IInv
<1>1. Init => IInv
  BY InitIInv
<1>2. IInv /\ [Next]_vars => IInv'
  BY NextIInv
<1> QED BY <1>1, <1>2, PTL DEF Spec

\* Every variable keeps its type (sink.py, record).
THEOREM ChainTypeCorrect == Spec => []TypeOK
<1>1. IInv => TypeOK
  BY DEF IInv
<1> QED BY <1>1, ChainInvariance, PTL

\* An event whose record() returned is in the table, whatever crashed since.
THEOREM NoAcknowledgedEventIsLost == Spec => []AcknowledgedIsStored
<1>1. IInv => AcknowledgedIsStored
  BY DEF IInv
<1> QED BY <1>1, ChainInvariance, PTL

\* Rows up to some row verify: the row before e among them is the row e hangs on.
LEMMA LinkedVerifies ==
  ASSUME IInv, NEW S \in SUBSET table,
         \A e \in S : \A f \in table : f.seq < e.seq => f \in S
  PROVE  verify_chain(S)
<1> SUFFICES ASSUME NEW e \in S
             PROVE  /\ e.mac = Append(Before(e, S).mac, e.id)
                    /\ Before(e, S).id # None => e.prev = Before(e, S).id
  BY DEF verify_chain
<1>1. PICK p \in table \cup {GENESIS} : HangsOn(e, p, table)
  BY DEF IInv, Linked
<1> DEFINE B == {f \in S : f.seq < e.seq}
<1>2. \A f \in table : f.seq \in Nat /\ f.seq >= 1
  BY DEF IInv, TypeOK, RowsAreDistinct, Rows
<1>3. Before(e, S) = p
  <2>1. CASE B = {}
    <3>1. p = GENESIS
      BY <2>1, <1>1 DEF HangsOn
    <3> QED BY <2>1, <3>1 DEF Before, Newest
  <2>2. CASE B # {}
    <3>1. p \in B /\ \A f \in B : f.seq <= p.seq
      BY <2>2, <1>1, <1>2 DEF HangsOn, GENESIS
    <3>2. Before(e, S) = CHOOSE x \in B : \A f \in B : f.seq <= x.seq
      BY <2>2 DEF Before, Newest
    <3>3. Before(e, S) \in B /\ \A f \in B : f.seq <= Before(e, S).seq
      BY <3>1, <3>2
    <3>4. Before(e, S).seq = p.seq
      BY <3>1, <3>3, <1>2
    <3> QED BY <3>1, <3>3, <3>4 DEF IInv, RowsAreDistinct
  <2> QED BY <2>1, <2>2
<1> QED BY <1>1, <1>3 DEF HangsOn

\* verify_chain never reports a broken link in a table that only record() wrote,
\* at any moment and under any limit, for any number of workers.
THEOREM ChainAlwaysVerifies == Spec => []ChainVerifies
<1>1. IInv => ChainVerifies
  <2> SUFFICES ASSUME IInv PROVE ChainVerifies
    OBVIOUS
  <2>1. verify_chain(table)
    BY LinkedVerifies
  <2>2. ASSUME NEW e \in table PROVE verify_chain(UpTo(e))
    <3>1. \A f \in table : f.seq \in Nat
      BY DEF IInv, TypeOK, Rows
    <3>2. UpTo(e) \in SUBSET table
      BY DEF UpTo
    <3>3. \A x \in UpTo(e) : \A f \in table : f.seq < x.seq => f \in UpTo(e)
      BY <3>1 DEF UpTo
    <3> QED BY <3>2, <3>3, LinkedVerifies
  <2> QED BY <2>1, <2>2 DEF ChainVerifies
<1> QED BY <1>1, ChainInvariance, PTL

\* Every step of the workers appends one event to the log or leaves it alone.
LEMMA LogStep ==
  IInv /\ [Next]_vars => [Log!LogNext]_(Log!log)
<1> SUFFICES ASSUME IInv, [Next]_vars PROVE [Log!LogNext]_(Log!log)
  OBVIOUS
<1>1. ASSUME table' = table PROVE UNCHANGED Log!log
  BY <1>1 DEF Log!log
<1>2. ASSUME NEW c \in Calls, Commit(c) PROVE Log!AppendEvent(c)
  <2> DEFINE r == draft[c]
             E == {e.id : e \in table}
             O == {<<ef[1].id, ef[2].id>> : ef \in {x \in table \X table : x[1].seq < x[2].seq}}
             E1 == {e.id : e \in table'}
             O1 == {<<ef[1].id, ef[2].id>> : ef \in {x \in table' \X table' : x[1].seq < x[2].seq}}
  <2>1. /\ table' = table \cup {r} /\ r.id = c /\ r.seq \in Nat
        /\ \A f \in table : f.seq < r.seq /\ f.seq \in Nat
    BY <1>2 DEF Commit, Goto, IInv, TypeOK, Rows, DraftsAreNext
  <2>2. \A e \in table : e.id # c
    BY <1>2 DEF Commit, Goto, IInv, RowsAreDistinct, Ended
  <2> HIDE DEF r
  <2>3. c \notin E /\ E1 = E \cup {c}
    BY <2>1, <2>2
  <2>4. O1 = O \cup (E \X {c})
    <3>1. ASSUME NEW x \in table', NEW y \in table', x.seq < y.seq
          PROVE  <<x.id, y.id>> \in O \cup (E \X {c})
      <4>1. x \in table
        BY <3>1, <2>1
      <4>2. CASE y \in table
        <5>1. <<x, y>> \in {z \in table \X table : z[1].seq < z[2].seq}
          BY <4>1, <4>2, <3>1
        <5> QED BY <5>1
      <4>3. CASE y = r
        BY <4>1, <4>3, <2>1
      <4> QED BY <4>2, <4>3, <2>1
    <3>2. O1 \subseteq O \cup (E \X {c})
      BY <3>1
    <3>3. O \subseteq O1
      BY <2>1
    <3>4. E \X {c} \subseteq O1
      <4>1. ASSUME NEW x \in table PROVE <<x.id, c>> \in O1
        <5>1. <<x, r>> \in {z \in table' \X table' : z[1].seq < z[2].seq}
          BY <2>1
        <5> QED BY <5>1, <2>1
      <4> QED BY <4>1
    <3> QED BY <3>2, <3>3, <3>4
  <2> QED BY <2>3, <2>4 DEF Log!AppendEvent
<1>3. ASSUME NEW c \in Calls, Step(c) PROVE Commit(c) \/ table' = table
  BY <1>3 DEF Step, Lock, CheckOut, PoolTimeout, AdvisoryLock, ReadTail, Insert, EndRequest
<1>4. ASSUME NEW c \in Calls, Abort(c) \/ \E w \in Workers : Call(c, w) PROVE table' = table
  BY <1>4 DEF Abort, Call
<1>5. ASSUME NEW w \in Workers, Crash(w) PROVE table' = table
  BY <1>5 DEF Crash
<1> QED BY <1>1, <1>2, <1>3, <1>4, <1>5 DEF Next, vars, Log!LogNext

\* The chained table, ordered by seq, implements the append-only log.
THEOREM ChainRefinement == Spec => ImplementsLog
<1>1. Init => Log!LogInit
  BY DEF Init, Log!LogInit
<1>2. IInv /\ [Next]_vars => [Log!LogNext]_(Log!log)
  BY LogStep
<1> QED BY <1>1, <1>2, ChainInvariance, PTL DEF Spec, ImplementsLog, Log!LogSpec
-----------------------------------------------------------------------------
(* The connections of a worker: each is free, its request's, or the one of *)
(* a transaction that record() has open.                                   *)

\* The calls of worker w that hold the second connection.
Open(w) == {c \in Busy(w) : pc[c] \in {"connected"} \cup Chaining}

\* PoolInv: the count is kept for sets that stay finite, however many calls
\* may still come.
PoolInv == /\ \A c \in Calls : pc[c] = "idle" => at[c] = None
           /\ \A w \in Workers : /\ IsFiniteSet(Busy(w))
                                 /\ free[w] + Cardinality(Busy(w)) + Cardinality(Open(w))
                                      = PoolSize

\* A worker's own sets and its pool decide what the invariant says of it.
PoolOf(w) == <<free[w], Busy(w), Open(w)>>

LEMMA OpenIsFinite ==
  ASSUME PoolInv, NEW w \in Workers
  PROVE  /\ IsFiniteSet(Busy(w)) /\ Cardinality(Busy(w)) \in Nat
         /\ IsFiniteSet(Open(w)) /\ Cardinality(Open(w)) \in Nat
<1>1. IsFiniteSet(Busy(w)) /\ Open(w) \in SUBSET Busy(w)
  BY DEF PoolInv, Open
<1>2. IsFiniteSet(Open(w))
  BY <1>1, FS_Subset
<1> QED BY <1>1, <1>2, FS_CardinalityType

\* Where a call of worker w moves between two places of record() or out of it,
\* and the worker's free connections move with it, the sum is kept.
LEMMA PoolMove ==
  ASSUME IInv, PoolInv, NEW w \in Workers, NEW c,
         \/ PoolOf(w)' = PoolOf(w)
         \/ /\ c \notin Busy(w) /\ Busy(w)' = Busy(w) \cup {c}
            /\ Open(w)' = Open(w) /\ free'[w] = free[w] - 1
         \/ /\ c \in Busy(w) /\ Busy(w)' = Busy(w) \ {c}
            /\ Open(w)' = Open(w) /\ free'[w] = free[w] + 1
         \/ /\ c \notin Open(w) /\ Open(w)' = Open(w) \cup {c}
            /\ Busy(w)' = Busy(w) /\ free'[w] = free[w] - 1
         \/ /\ c \in Open(w) /\ Open(w)' = Open(w) \ {c}
            /\ Busy(w)' = Busy(w) /\ free'[w] = free[w] + 1
  PROVE  /\ IsFiniteSet(Busy(w)')
         /\ free'[w] + Cardinality(Busy(w)') + Cardinality(Open(w)') = PoolSize
<1> DEFINE B == Busy(w)
           O == Open(w)
<1>1. /\ IsFiniteSet(B) /\ Cardinality(B) \in Nat
      /\ IsFiniteSet(O) /\ Cardinality(O) \in Nat
      /\ free[w] \in Nat /\ PoolSize \in Nat
      /\ free[w] + Cardinality(B) + Cardinality(O) = PoolSize
  BY OpenIsFinite, PoolAssumption DEF PoolInv, IInv, TypeOK
<1>2. /\ IsFiniteSet(B \cup {c}) /\ IsFiniteSet(B \ {c})
      /\ c \notin B => Cardinality(B \cup {c}) = Cardinality(B) + 1
      /\ c \in B => Cardinality(B \ {c}) = Cardinality(B) - 1
  BY <1>1, FS_AddElement, FS_RemoveElement
<1>3. /\ c \notin O => Cardinality(O \cup {c}) = Cardinality(O) + 1
      /\ c \in O => Cardinality(O \ {c}) = Cardinality(O) - 1
  BY <1>1, FS_AddElement, FS_RemoveElement
<1> HIDE DEF B, O
<1>4. CASE PoolOf(w)' = PoolOf(w)
  BY <1>1, <1>4 DEF PoolOf, B, O
<1>5. CASE /\ c \notin B /\ Busy(w)' = B \cup {c} /\ Open(w)' = O /\ free'[w] = free[w] - 1
  BY <1>1, <1>2, <1>5
<1>6. CASE /\ c \in B /\ Busy(w)' = B \ {c} /\ Open(w)' = O /\ free'[w] = free[w] + 1
  BY <1>1, <1>2, <1>6
<1>7. CASE /\ c \notin O /\ Open(w)' = O \cup {c} /\ Busy(w)' = B /\ free'[w] = free[w] - 1
  BY <1>1, <1>3, <1>7
<1>8. CASE /\ c \in O /\ Open(w)' = O \ {c} /\ Busy(w)' = B /\ free'[w] = free[w] + 1
  BY <1>1, <1>3, <1>8
<1> QED BY <1>4, <1>5, <1>6, <1>7, <1>8 DEF B, O

\* A step of call c on worker w leaves the other workers' pools alone.
LEMMA OtherPools ==
  ASSUME NEW c \in Calls, NEW w,
         \A d \in Calls \ {c} : pc'[d] = pc[d] /\ at'[d] = at[d],
         at[c] \in {None, w}, at'[c] = w,
         NEW v \in Workers \ {w}, free'[v] = free[v]
  PROVE  PoolOf(v)' = PoolOf(v)
<1>1. Busy(v)' = Busy(v)
  BY NoneAssumption DEF Busy
<1>2. Open(v)' = Open(v)
  BY <1>1, NoneAssumption DEF Open, Busy
<1> QED BY <1>1, <1>2 DEF PoolOf

\* Every step of a call keeps its worker's account.
LEMMA CallPool ==
  ASSUME IInv, PoolInv, NEW c \in Calls,
         Step(c) \/ Abort(c) \/ \E w \in Workers : Call(c, w)
  PROVE  PoolInv'
<1>1. ASSUME NEW w \in Workers,
             \A d \in Calls \ {c} : pc'[d] = pc[d] /\ at'[d] = at[d],
             at[c] \in {None, w}, at'[c] = w, pc'[c] # "idle",
             \A v \in Workers \ {w} : free'[v] = free[v],
             \/ PoolOf(w)' = PoolOf(w)
             \/ /\ c \notin Busy(w) /\ Busy(w)' = Busy(w) \cup {c}
                /\ Open(w)' = Open(w) /\ free'[w] = free[w] - 1
             \/ /\ c \in Busy(w) /\ Busy(w)' = Busy(w) \ {c}
                /\ Open(w)' = Open(w) /\ free'[w] = free[w] + 1
             \/ /\ c \notin Open(w) /\ Open(w)' = Open(w) \cup {c}
                /\ Busy(w)' = Busy(w) /\ free'[w] = free[w] - 1
             \/ /\ c \in Open(w) /\ Open(w)' = Open(w) \ {c}
                /\ Busy(w)' = Busy(w) /\ free'[w] = free[w] + 1
      PROVE  PoolInv'
  <2>1. \A d \in Calls : pc'[d] = "idle" => at'[d] = None
    BY <1>1 DEF PoolInv
  <2>2. ASSUME NEW v \in Workers
        PROVE  /\ IsFiniteSet(Busy(v)')
               /\ free'[v] + Cardinality(Busy(v)') + Cardinality(Open(v)') = PoolSize
    <3>1. CASE v = w
      BY <1>1, <3>1, PoolMove
    <3>2. CASE v # w
      <4>1. PoolOf(v)' = PoolOf(v)
        BY <1>1, <3>2, OtherPools
      <4> QED BY <4>1, PoolMove
    <3> QED BY <3>1, <3>2
  <2> QED BY <2>1, <2>2 DEF PoolInv
<1>2. ASSUME NEW w \in Workers, Call(c, w) PROVE PoolInv'
  <2>1. /\ pc[c] = "idle" /\ at[c] = None /\ pc'[c] = "waiting" /\ at'[c] = w
        /\ \A d \in Calls \ {c} : pc'[d] = pc[d] /\ at'[d] = at[d]
        /\ free'[w] = free[w] - 1 /\ \A v \in Workers \ {w} : free'[v] = free[v]
    BY <1>2 DEF Call, Goto, PoolInv, IInv, TypeOK
  <2>2. c \notin Busy(w) /\ Busy(w)' = Busy(w) \cup {c}
    BY <2>1, NoneAssumption DEF Busy
  <2>3. Open(w)' = Open(w)
    BY <2>1, NoneAssumption DEF Open, Busy, Chaining
  <2> QED BY <2>1, <2>2, <2>3, <1>1
<1> DEFINE w == at[c]
<1>3. ASSUME Step(c) \/ Abort(c)
      PROVE  /\ pc[c] # "idle" /\ w \in Workers /\ at' = at
             /\ pc'[c] # "idle" /\ \A d \in Calls \ {c} : pc'[d] = pc[d]
  BY <1>3 DEF Step, Abort, Lock, CheckOut, PoolTimeout, AdvisoryLock, ReadTail, Insert, Commit,
              EndRequest, Goto, IInv, TypeOK, LocksAgree
<1>4. CASE Lock(c) \/ PoolTimeout(c) \/ AdvisoryLock(c) \/ ReadTail(c) \/ Insert(c)
  <2>1. free' = free
    BY <1>4 DEF Lock, PoolTimeout, AdvisoryLock, ReadTail, Insert
  <2>2. /\ pc[c] \notin {"accepted", "refused"} /\ pc'[c] \notin {"accepted", "refused"}
        /\ pc[c] \in {"connected"} \cup Chaining <=> pc'[c] \in {"connected"} \cup Chaining
    BY <1>4 DEF Lock, PoolTimeout, AdvisoryLock, ReadTail, Insert, Goto, IInv, TypeOK, Chaining
  <2>3. Busy(w)' = Busy(w) /\ Open(w)' = Open(w)
    BY <1>3, <1>4, <2>2 DEF Step, Busy, Open
  <2>4. PoolOf(w)' = PoolOf(w)
    BY <1>3, <1>4, <2>1, <2>3 DEF PoolOf, Step
  <2> QED BY <1>1, <1>3, <1>4, <2>1, <2>4 DEF Step
<1>5. CASE CheckOut(c)
  <2>1. free'[w] = free[w] - 1 /\ \A v \in Workers \ {w} : free'[v] = free[v]
    BY <1>3, <1>5 DEF CheckOut, IInv, TypeOK, Step
  <2>2. pc[c] = "locked" /\ pc'[c] = "connected"
    BY <1>5 DEF CheckOut, Goto, IInv, TypeOK
  <2>3. Busy(w)' = Busy(w) /\ c \notin Open(w) /\ Open(w)' = Open(w) \cup {c}
    BY <1>3, <1>5, <2>2 DEF Step, Busy, Open, Chaining
  <2> QED BY <1>1, <1>3, <1>5, <2>1, <2>2, <2>3 DEF Step
<1>6. CASE Commit(c) \/ Abort(c)
  <2>1. free'[w] = free[w] + 1 /\ \A v \in Workers \ {w} : free'[v] = free[v]
    BY <1>3, <1>6 DEF Commit, Abort, Release, IInv, TypeOK, Step
  <2>2. /\ pc[c] \in {"connected"} \cup Chaining
        /\ pc'[c] \in {"recorded", "raised"}
    BY <1>6 DEF Commit, Abort, Goto, IInv, TypeOK, Chaining
  <2>3. Busy(w)' = Busy(w) /\ c \in Open(w) /\ Open(w)' = Open(w) \ {c}
    BY <1>3, <1>6, <2>2 DEF Step, Busy, Open, Chaining
  <2> QED BY <1>1, <1>3, <1>6, <2>1, <2>3 DEF Step
<1>7. CASE EndRequest(c)
  <2>1. free'[w] = free[w] + 1 /\ \A v \in Workers \ {w} : free'[v] = free[v]
    BY <1>3, <1>7 DEF EndRequest, IInv, TypeOK, Step
  <2>2. pc[c] \in {"recorded", "raised"} /\ pc'[c] \in {"accepted", "refused"}
    BY <1>7 DEF EndRequest, Goto, IInv, TypeOK
  <2>3. c \in Busy(w) /\ Busy(w)' = Busy(w) \ {c} /\ Open(w)' = Open(w)
    BY <1>3, <1>7, <2>2 DEF Step, Busy, Open, Chaining
  <2> QED BY <1>1, <1>3, <1>7, <2>1, <2>3 DEF Step
<1> QED BY <1>2, <1>4, <1>5, <1>6, <1>7 DEF Step

\* A restarted worker has its whole pool and no call in flight.
LEMMA CrashPool ==
  ASSUME IInv, PoolInv, NEW w \in Workers, Crash(w)
  PROVE  PoolInv'
<1>1. /\ at' = at /\ free' = [free EXCEPT ![w] = PoolSize]
      /\ \A d \in Calls : pc'[d] = IF d \in Busy(w) THEN "refused" ELSE pc[d]
  BY DEF Crash
<1>2. \A d \in Calls : pc'[d] = "idle" => at'[d] = None
  BY <1>1 DEF PoolInv
<1>3. Busy(w)' = {} /\ Open(w)' = {} /\ free'[w] = PoolSize
  BY <1>1 DEF Busy, Open, IInv, TypeOK
<1>4. IsFiniteSet({}) /\ Cardinality({}) = 0
  BY FS_EmptySet
<1>5. ASSUME NEW v \in Workers \ {w} PROVE PoolOf(v)' = PoolOf(v)
  <2>1. \A d \in Calls : at[d] = v => pc'[d] = pc[d]
    BY <1>1 DEF Busy
  <2>2. Busy(v)' = Busy(v)
    BY <1>1, <2>1 DEF Busy
  <2>3. Open(v)' = Open(v)
    BY <1>1, <2>1, <2>2 DEF Open, Busy
  <2> QED BY <1>1, <2>2, <2>3 DEF PoolOf, IInv, TypeOK
<1>6. ASSUME NEW v \in Workers
      PROVE  /\ IsFiniteSet(Busy(v)')
             /\ free'[v] + Cardinality(Busy(v)') + Cardinality(Open(v)') = PoolSize
  <2>1. CASE v = w
    BY <2>1, <1>3, <1>4, PoolAssumption
  <2>2. CASE v # w
    BY <2>2, <1>5, PoolMove
  <2> QED BY <2>1, <2>2
<1> QED BY <1>2, <1>6 DEF PoolInv

\* Whatever the number of calls, workers and connections, and on every way out
\* of record(), no connection is lost and none is given back twice.
THEOREM NoConnectionLeaks == Spec => []PoolAccounted
<1>1. Init => PoolInv
  <2> SUFFICES ASSUME Init PROVE PoolInv
    OBVIOUS
  <2>1. \A w \in Workers : Busy(w) = {} /\ Open(w) = {} /\ free[w] = PoolSize
    BY NoneAssumption DEF Init, Busy, Open
  <2> QED BY <2>1, FS_EmptySet, PoolAssumption DEF Init, PoolInv
<1>2. IInv /\ PoolInv /\ [Next]_vars => PoolInv'
  <2> SUFFICES ASSUME IInv, PoolInv, [Next]_vars PROVE PoolInv'
    OBVIOUS
  <2>1. CASE UNCHANGED vars
    BY <2>1 DEF vars, PoolInv, Busy, Open
  <2>2. ASSUME NEW c \in Calls, Step(c) \/ Abort(c) \/ \E w \in Workers : Call(c, w)
        PROVE  PoolInv'
    BY <2>2, CallPool
  <2> QED BY <2>1, <2>2, CrashPool DEF Next
<1>3. PoolInv => PoolAccounted
  BY DEF PoolInv, PoolAccounted, Open
<1> QED BY <1>1, <1>2, <1>3, ChainInvariance, PTL DEF Spec-----------------------------------------------------------------------------
(* The worker's lock, then the pool, then the advisory lock: who waits for *)
(* whom.                                                                   *)

\* A worker's lock is held by one of the worker's own calls that is still on
\* its way through record().
HoldersInside ==
  \A w \in Workers : holder[w] # None =>
    holder[w] \in Calls /\ at[holder[w]] = w /\ pc[holder[w]] \in Inside

\* Call c cannot step before call d has given back a lock.
WaitsFor(c, d) == \/ pc[c] = "waiting" /\ holder[at[c]] = d
                  \/ pc[c] = "connected" /\ advisory = d

\* The locks call c has still to take.
Depth(c) == IF pc[c] = "waiting" THEN 2 ELSE IF pc[c] = "connected" THEN 1 ELSE 0

\* Neither a failure nor a crash leaves a worker's lock with a call that is gone.
LEMMA HoldersInvariance == Spec => []HoldersInside
<1>1. Init => HoldersInside
  BY DEF Init, HoldersInside
<1>2. IInv /\ HoldersInside /\ [Next]_vars => HoldersInside'
  <2> SUFFICES ASSUME IInv, HoldersInside, [Next]_vars, NEW w \in Workers, holder'[w] # None
               PROVE  holder'[w] \in Calls /\ at'[holder'[w]] = w /\ pc'[holder'[w]] \in Inside
    BY DEF HoldersInside
  <2> DEFINE h == holder[w]
  <2>1. h # None => h \in Calls /\ at[h] = w /\ pc[h] \in Inside
    BY DEF HoldersInside
  <2>2. CASE UNCHANGED vars
    BY <2>1, <2>2 DEF vars
  <2>3. ASSUME NEW c \in Calls, NEW v \in Workers, Call(c, v)
        PROVE  holder'[w] \in Calls /\ at'[holder'[w]] = w /\ pc'[holder'[w]] \in Inside
    BY <2>1, <2>3 DEF Call, Goto, IInv, TypeOK, Inside
  <2>4. ASSUME NEW c \in Calls, Lock(c)
        PROVE  holder'[w] \in Calls /\ at'[holder'[w]] = w /\ pc'[holder'[w]] \in Inside
    BY <2>1, <2>4 DEF Lock, Goto, IInv, TypeOK, Inside
  <2>5. ASSUME NEW c \in Calls, CheckOut(c) \/ AdvisoryLock(c) \/ ReadTail(c) \/ Insert(c)
        PROVE  holder'[w] \in Calls /\ at'[holder'[w]] = w /\ pc'[holder'[w]] \in Inside
    BY <2>1, <2>5 DEF CheckOut, AdvisoryLock, ReadTail, Insert, Goto, IInv, TypeOK, Inside
  <2>6. ASSUME NEW c \in Calls, EndRequest(c)
        PROVE  holder'[w] \in Calls /\ at'[holder'[w]] = w /\ pc'[holder'[w]] \in Inside
    BY <2>1, <2>6 DEF EndRequest, Goto, IInv, TypeOK, Inside
  <2>7. ASSUME NEW c \in Calls, PoolTimeout(c) \/ Commit(c) \/ Abort(c)
        PROVE  holder'[w] \in Calls /\ at'[holder'[w]] = w /\ pc'[holder'[w]] \in Inside
    <3>1. /\ pc[c] \in Inside /\ holder' = [holder EXCEPT ![at[c]] = None] /\ at' = at
          /\ \A d \in Calls \ {c} : pc'[d] = pc[d]
      BY <2>7 DEF PoolTimeout, Commit, Abort, Release, Goto, IInv, TypeOK, Inside
    <3>2. at[c] # w /\ holder'[w] = h
      BY <3>1 DEF IInv, TypeOK
    <3>3. h # c
      BY <2>1, <3>2
    <3> QED BY <2>1, <3>1, <3>2, <3>3
  <2>8. ASSUME NEW v \in Workers, Crash(v)
        PROVE  holder'[w] \in Calls /\ at'[holder'[w]] = w /\ pc'[holder'[w]] \in Inside
    <3>1. v # w /\ holder'[w] = h
      BY <2>8 DEF Crash, IInv, TypeOK
    <3>2. h \notin Busy(v)
      BY <2>1, <3>1 DEF Busy
    <3> QED BY <2>1, <2>8, <3>1, <3>2 DEF Crash
  <2> QED BY <2>2, <2>3, <2>4, <2>5, <2>6, <2>7, <2>8 DEF Next, Step
<1> QED BY <1>1, <1>2, ChainInvariance, PTL DEF Spec

\* Whatever a call waits for is held by a call closer to the end of record().
LEMMA WaitsGoDown ==
  ASSUME IInv, HoldersInside, NEW c \in Calls, NEW d \in Calls, WaitsFor(c, d)
  PROVE  Depth(d) < Depth(c) /\ pc[d] \in Inside
<1>1. CASE pc[c] = "waiting" /\ holder[at[c]] = d
  <2>1. at[c] \in Workers /\ d # None
    BY <1>1, NoneAssumption DEF IInv, LocksAgree
  <2>2. pc[d] \in Inside
    BY <1>1, <2>1 DEF HoldersInside
  <2> QED BY <1>1, <2>2 DEF Depth, Inside
<1>2. CASE pc[c] = "connected" /\ advisory = d
  <2>1. pc[d] \in Chaining
    BY <1>2 DEF IInv, LocksAgree
  <2> QED BY <1>2, <2>1 DEF Depth, Chaining, Inside
<1> QED BY <1>1, <1>2 DEF WaitsFor

\* No circle of calls waits for one another's locks, however many workers there
\* are: every call a call waits for is closer to the end of record() than it is.
THEOREM NoCircleOfCalls ==
  Spec => [](\A c, d \in Calls : WaitsFor(c, d) => Depth(d) < Depth(c))
<1>1. IInv /\ HoldersInside => \A c, d \in Calls : WaitsFor(c, d) => Depth(d) < Depth(c)
  BY WaitsGoDown
<1> QED BY <1>1, HoldersInvariance, ChainInvariance, PTL

\* Where call c has begun and not ended; where it waits for no other.
UnderWay(c) == pc[c] \notin {"idle", "accepted", "refused"}
Free(c) == \A d \in Calls : ~WaitsFor(c, d)

\* While a call of record() is under way, one is that waits for nobody's lock;
\* that one finds a connection or is told in time that there is none.
THEOREM SomeCallIsFree ==
  Spec => []((\E c \in Calls : UnderWay(c)) => \E c \in Calls : UnderWay(c) /\ Free(c))
<1>1. IInv /\ HoldersInside =>
        ((\E c \in Calls : UnderWay(c)) => \E c \in Calls : UnderWay(c) /\ Free(c))
  <2> SUFFICES ASSUME IInv, HoldersInside, NEW c \in Calls, UnderWay(c)
               PROVE  \E d \in Calls : UnderWay(d) /\ Free(d)
    OBVIOUS
  <2>1. \A d, e \in Calls : WaitsFor(d, e) => Depth(e) < Depth(d) /\ UnderWay(e)
    BY WaitsGoDown DEF Inside, UnderWay
  <2>2. \A d \in Calls : Depth(d) \in 0 .. 2
    BY DEF Depth
  <2>3. CASE Free(c)
    BY <2>3
  <2>4. CASE ~Free(c)
    <3>1. PICK d \in Calls : WaitsFor(c, d)
      BY <2>4 DEF Free
    <3>2. UnderWay(d) /\ Depth(d) <= 1
      BY <3>1, <2>1, <2>2
    <3>3. \A e \in Calls : WaitsFor(d, e) => UnderWay(e) /\ Depth(e) <= 0
      BY <3>2, <2>1, <2>2
    <3>4. \A e \in Calls : Depth(e) <= 0 => Free(e)
      BY <2>1, <2>2 DEF Free
    <3> QED BY <3>2, <3>3, <3>4 DEF Free
  <2> QED BY <2>3, <2>4
<1> QED BY <1>1, HoldersInvariance, ChainInvariance, PTL
=============================================================================
