----------------------------- MODULE AuditChain -----------------------------
(***************************************************************************)
(* The HMAC-chained audit log of app/audit/sink.py: calls of record() in   *)
(* several uvicorn workers, each worker with an asyncio lock and a pool of *)
(* connections, all appending to one table audit_events; and verify_chain. *)
(*                                                                         *)
(* A call comes from a request whose own session already holds one         *)
(* connection of its worker's pool; record() takes the worker's lock, then *)
(* a second connection, then the advisory lock of the database, reads the  *)
(* tail, inserts its row and commits.                                      *)
(*                                                                         *)
(* An HMAC is the sequence of event ids hashed into it: equal exactly when *)
(* every link before it is equal.  The other fields of an event are hashed *)
(* with its id and stand for nothing else here.                            *)
(***************************************************************************)
EXTENDS Naturals, Sequences, FiniteSets

CONSTANTS Calls,        \* the calls of record(); an event's id is its call's
          Workers,      \* the uvicorn processes
          None,         \* nobody, no event
          PoolSize,     \* connections a worker may have open, overflow included
          MaxCrashes    \* bound: worker crashes

ASSUME NoneAssumption == None \notin Calls \cup Workers
ASSUME PoolAssumption == PoolSize \in Nat \ {0}

VARIABLES pc,           \* where each call stands
          at,           \* the worker serving it
          holder,       \* per worker: the call inside PostgreSQLAuditSink._lock
          free,         \* per worker: connections not checked out
          advisory,     \* the call holding pg_advisory_xact_lock
          draft,        \* per call: the tail it read, then the row it inserted
          nextval,      \* audit_event_seq
          table,        \* the committed rows of audit_events
          crashes       \* worker crashes so far

vars == <<pc, at, holder, free, advisory, draft, nextval, table, crashes>>
-----------------------------------------------------------------------------
\* Steps of record(), between two awaits, and what the call came to.
Steps == {"idle", "waiting", "locked", "connected", "granted", "read",
          "inserted", "recorded", "raised", "accepted", "refused"}

\* A row; as a tail read from the table, seq 0 stands for "no row".
Rows == [seq : Nat, id : Calls \cup {None}, prev : Calls \cup {None},
         mac : Seq(Calls)]

GENESIS == [seq |-> 0, id |-> None, prev |-> None, mac |-> <<>>]

\* ORDER BY seq DESC LIMIT 1 over rows S.
Newest(S) == IF S = {} THEN GENESIS
           ELSE CHOOSE e \in S : \A f \in S : f.seq <= e.seq

\* The row that precedes e in seq order, as verify_chain walks the rows.
Before(e, S) == Newest({f \in S : f.seq < e.seq})

\* record(): the row of call c linked to the tail it read.
compute_row(c, tail, seq) ==
  [seq |-> seq, id |-> c, prev |-> tail.id, mac |-> Append(tail.mac, c)]

\* verify_chain over the first rows S: every stored HMAC is recomputed from the
\* row before it, and every prev_event_id but the first row's is compared.
verify_chain(S) ==
  \A e \in S : LET p == Before(e, S)
               IN  /\ e.mac = Append(p.mac, e.id)
                   /\ p.id # None => e.prev = p.id

\* The rows verify_chain fetches under a limit: every row up to e.
UpTo(e) == {f \in table : f.seq <= e.seq}
-----------------------------------------------------------------------------
Init == /\ pc = [c \in Calls |-> "idle"]
        /\ at = [c \in Calls |-> None]
        /\ holder = [w \in Workers |-> None]
        /\ free = [w \in Workers |-> PoolSize]
        /\ advisory = None
        /\ draft = [c \in Calls |-> GENESIS]
        /\ nextval = 1
        /\ table = {}
        /\ crashes = 0

Goto(c, from, to) == pc[c] = from /\ pc' = [pc EXCEPT ![c] = to]

\* A request reaches record(): its session has run a statement and holds a
\* connection of the worker that serves it.
Call(c, w) == /\ Goto(c, "idle", "waiting")
              /\ free[w] > 0
              /\ at' = [at EXCEPT ![c] = w]
              /\ free' = [free EXCEPT ![w] = @ - 1]
              /\ UNCHANGED <<holder, advisory, draft, nextval, table, crashes>>

\* async with self._lock
Lock(c) == /\ Goto(c, "waiting", "locked")
           /\ holder[at[c]] = None
           /\ holder' = [holder EXCEPT ![at[c]] = c]
           /\ UNCHANGED <<at, free, advisory, draft, nextval, table, crashes>>

\* The new session's first statement checks a connection out of the pool.
CheckOut(c) == /\ Goto(c, "locked", "connected")
               /\ free[at[c]] > 0
               /\ free' = [free EXCEPT ![at[c]] = @ - 1]
               /\ UNCHANGED <<at, holder, advisory, draft, nextval, table, crashes>>

\* The pool has no connection to give for pool_timeout: TimeoutError.
PoolTimeout(c) == /\ Goto(c, "locked", "raised")
                  /\ free[at[c]] = 0
                  /\ holder' = [holder EXCEPT ![at[c]] = None]
                  /\ UNCHANGED <<at, free, advisory, draft, nextval, table, crashes>>

\* Mutant: the advisory lock only keeps out the calls of the same worker.
AdvisoryFreeInWorker(c) == advisory # None => at[advisory] # at[c]

\* Nobody holds the advisory lock.
AdvisoryFree(c) == advisory = None

\* SELECT pg_advisory_xact_lock(:k)
AdvisoryLock(c) == /\ Goto(c, "connected", "granted")
                   /\ AdvisoryFree(c)
                   /\ advisory' = c
                   /\ UNCHANGED <<at, holder, free, draft, nextval, table, crashes>>

\* Mutant: the tail is the worker's own last event, as an earlier version cached it.
LinkOfWorker(c) == Newest({e \in table : at[e.id] = at[c]})

\* The link a new row is hung on: the database's tail, read in this transaction.
LinkOf(c) == Newest(table)

ReadTail(c) == /\ Goto(c, "granted", "read")
               /\ draft' = [draft EXCEPT ![c] = LinkOf(c)]
               /\ UNCHANGED <<at, holder, free, advisory, nextval, table, crashes>>

\* The INSERT that session.commit() flushes; nextval is never taken back.
Insert(c) == /\ Goto(c, "read", "inserted")
             /\ draft' = [draft EXCEPT ![c] = compute_row(c, @, nextval)]
             /\ nextval' = nextval + 1
             /\ UNCHANGED <<at, holder, free, advisory, table, crashes>>

\* Mutant: the connection of a failed transaction is not returned to the pool.
ReleaseLeaks(c) == /\ advisory' = IF advisory = c THEN None ELSE advisory
                   /\ free' = free
                   /\ holder' = [holder EXCEPT ![at[c]] = None]

\* Mutant: the worker's lock is not released.
ReleaseStuck(c) == /\ advisory' = IF advisory = c THEN None ELSE advisory
                   /\ free' = [free EXCEPT ![at[c]] = @ + 1]
                   /\ UNCHANGED holder

\* The end of the transaction and of both "async with": the advisory lock, the
\* connection and the worker's lock are given back.
Release(c) == /\ advisory' = IF advisory = c THEN None ELSE advisory
              /\ free' = [free EXCEPT ![at[c]] = @ + 1]
              /\ holder' = [holder EXCEPT ![at[c]] = None]

\* Mutant: the transaction is closed without session.commit().
CommitForgotten(c) == /\ Goto(c, "inserted", "recorded")
                      /\ Release(c)
                      /\ UNCHANGED <<at, draft, nextval, table, crashes>>

\* The commit reaches the database; the call learns of it, or loses the
\* connection before the answer and raises.
Commit(c) == /\ \/ Goto(c, "inserted", "recorded")
                \/ Goto(c, "inserted", "raised")
             /\ table' = table \cup {draft[c]}
             /\ Release(c)
             /\ UNCHANGED <<at, draft, nextval, crashes>>

\* A statement fails (a foreign key, a lost connection): the rows are undone.
Abort(c) == /\ pc[c] \in {"connected", "granted", "read", "inserted"}
            /\ pc' = [pc EXCEPT ![c] = "raised"]
            /\ Release(c)
            /\ UNCHANGED <<at, draft, nextval, table, crashes>>

\* The request that called record() ends and its session's connection goes back.
EndRequest(c) == /\ \/ Goto(c, "recorded", "accepted")
                    \/ Goto(c, "raised", "refused")
                 /\ free' = [free EXCEPT ![at[c]] = @ + 1]
                 /\ UNCHANGED <<at, holder, advisory, draft, nextval, table, crashes>>

\* The calls in flight on worker w.
Busy(w) == {c \in Calls : at[c] = w /\ pc[c] \notin {"accepted", "refused"}}

\* A worker dies and is restarted: its transactions are rolled back, its locks
\* and its pool start over.
Crash(w) == /\ crashes < MaxCrashes
            /\ crashes' = crashes + 1
            /\ pc' = [c \in Calls |-> IF c \in Busy(w) THEN "refused" ELSE pc[c]]
            /\ holder' = [holder EXCEPT ![w] = None]
            /\ free' = [free EXCEPT ![w] = PoolSize]
            /\ advisory' = IF advisory \in Busy(w) THEN None ELSE advisory
            /\ UNCHANGED <<at, draft, nextval, table>>

Step(c) == \/ Lock(c) \/ CheckOut(c) \/ PoolTimeout(c) \/ AdvisoryLock(c)
           \/ ReadTail(c) \/ Insert(c) \/ Commit(c) \/ EndRequest(c)

Next == \/ \E c \in Calls : Step(c) \/ Abort(c) \/ \E w \in Workers : Call(c, w)
        \/ \E w \in Workers : Crash(w)

Spec == Init /\ [][Next]_vars

\* An event loop runs every ready call, the database grants a free lock, and
\* the pool's timeout fires: no call stands still while it can step.
Fairness == \A c \in Calls : WF_vars(Step(c))

FairSpec == Spec /\ Fairness
-----------------------------------------------------------------------------
TypeOK == /\ pc \in [Calls -> Steps]
          /\ at \in [Calls -> Workers \cup {None}]
          /\ holder \in [Workers -> Calls \cup {None}]
          /\ free \in [Workers -> Nat]
          /\ advisory \in Calls \cup {None}
          /\ draft \in [Calls -> Rows]
          /\ nextval \in Nat \ {0}
          /\ table \subseteq Rows
          /\ crashes \in Nat

\* The calls between the worker's lock and its release; those whose transaction
\* holds the advisory lock; those the database has nothing open for any more.
Inside == {"locked", "connected", "granted", "read", "inserted"}
Chaining == {"granted", "read", "inserted"}
Ended == {"recorded", "raised", "accepted", "refused"}

\* The locks and the calls that hold them name each other.
LocksAgree ==
  /\ \A c \in Calls : pc[c] # "idle" => at[c] \in Workers
  /\ \A c \in Calls : pc[c] \in Inside => holder[at[c]] = c
  /\ \A c \in Calls : pc[c] \in Chaining <=> advisory = c

\* No two rows share a sequence number or a call, and none is from the future.
RowsAreDistinct ==
  /\ \A e, f \in table : e.seq = f.seq \/ e.id = f.id => e = f
  /\ \A e \in table : /\ e.seq \in 1 .. nextval - 1
                      /\ e.id \in Calls /\ pc[e.id] \in Ended

\* e is hung on row p, which no other row of S separates from it.
HangsOn(e, p, S) == /\ p.seq < e.seq
                    /\ \A f \in S : f.seq < e.seq => f.seq <= p.seq
                    /\ e.prev = p.id /\ e.mac = Append(p.mac, e.id)

\* Every row is hung on the row before it, the first row on the genesis link.
Linked == \A e \in table : \E p \in table \cup {GENESIS} : HangsOn(e, p, table)

\* What a call in its critical section has read and inserted is still the end of
\* the table when it commits.
DraftsAreNext ==
  \A c \in Calls :
    /\ pc[c] = "read" => /\ draft[c] \in table \cup {GENESIS}
                         /\ \A f \in table : f.seq <= draft[c].seq
    /\ pc[c] = "inserted" =>
         /\ draft[c].id = c /\ draft[c].seq \in 1 .. nextval - 1
         /\ \A f \in table : f.seq < draft[c].seq
         /\ \E p \in table \cup {GENESIS} : HangsOn(draft[c], p, table)

\* A newest row exists, so that the tail a call reads is one of the rows.
TailExists == table # {} => \E e \in table : \A f \in table : f.seq <= e.seq

\* AcknowledgedIsStored: a caller that record() returned to finds its event in
\* the table, whatever crashed meanwhile (record, sink.py:114-193).
AcknowledgedIsStored ==
  \A c \in Calls : pc[c] \in {"recorded", "accepted"} => \E e \in table : e.id = c

\* IInv: the inductive invariant.
IInv == /\ TypeOK
        /\ LocksAgree
        /\ RowsAreDistinct
        /\ TailExists
        /\ Linked
        /\ DraftsAreNext
        /\ AcknowledgedIsStored

\* ChainVerifies: verify_chain, run in any transaction and under any limit, at
\* any moment between the steps of concurrent writers, finds no broken link in a
\* table nobody has tampered with (verify_chain, sink.py:199-250).
ChainVerifies == /\ verify_chain(table)
                 /\ \A e \in table : verify_chain(UpTo(e))

\* PoolAccounted: on every path out of record(), the error paths and a worker's
\* restart included, each connection is either free or held by a call that will
\* give it back: one by its request, a second one inside the transaction.
PoolAccounted ==
  \A w \in Workers :
    free[w] + Cardinality(Busy(w))
            + Cardinality({c \in Busy(w) : pc[c] \in {"connected"} \cup Chaining})
      = PoolSize

\* ImplementsLog: the table, ordered by seq, is the append-only log of AuditLog:
\* a committed event is never changed or removed, and none is slipped in before
\* an event that is already there.
Log == INSTANCE AuditLog WITH
         entries <- {e.id : e \in table},
         before  <- {<<ef[1].id, ef[2].id>> :
                       ef \in {x \in table \X table : x[1].seq < x[2].seq}}

ImplementsLog == Log!LogSpec

\* EveryCallEnds: no request waits for ever for the worker's lock, the pool or
\* the advisory lock; if nothing else does, the pool's timeout sets it free.
EveryCallEnds ==
  \A c \in Calls : pc[c] = "waiting" ~> pc[c] \in {"accepted", "refused"}
-----------------------------------------------------------------------------
(* Statements of the sources that the code does not keep.                  *)

\* SubChainPerWorker: "each process maintains its own sub-chain" (sink.py:24).
SubChainPerWorker ==
  \A e, f \in table : e.prev = f.id => at[e.id] = at[f.id]

\* AHolderGetsAConnection: "the window is one INSERT wide ... contention is
\* negligible" (sink.py:128-130): the call inside the worker's lock never finds
\* every connection of the pool held by requests that wait for that same lock.
AHolderGetsAConnection ==
  \A c \in Calls :
    pc[c] = "locked" /\ free[at[c]] = 0
      => \E d \in Busy(at[c]) : pc[d] \notin {"waiting", "locked"}
=============================================================================
