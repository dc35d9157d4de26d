--------------------------- MODULE ThresholdCache ---------------------------
(***************************************************************************)
(* The thresholds of one category: the rows admins replace                 *)
(* (app/api/v1/admin.py, update_threshold) and the cache every API worker  *)
(* keeps of the active one for _CACHE_TTL_S (app/state/thresholds.py).     *)
(* Time is in ticks; a clock reads the time since the machine was booted.  *)
(***************************************************************************)
EXTENDS Integers

CONSTANTS Workers,
          Updates,      \* PUT requests, each with the row it inserts
          Seed,         \* the row schema.sql inserts
          Default,      \* _DEFAULTS: no row
          Row,          \* per row: [alert, clear]
          TTL,          \* _CACHE_TTL_S
          LoadTime,     \* bound: ticks a query takes
          Starts,       \* readings of the clock when the workers start
          MaxTime       \* bound: the last reading

ASSUME TimesAssumption == TTL \in Nat /\ LoadTime \in Nat /\ Starts \subseteq Nat
ASSUME RowsAssumption == Default \notin Updates \cup {Seed}

VARIABLES now,
          active,       \* the active row, as committed
          until,        \* per row that was active: when it ceased to be
          holder,       \* the update that holds the row lock, or Default
          update,       \* per update: its state, its worker, the active row it began with
          cache,        \* per worker: the cached row, or Default
          loadedAt,     \* _loaded_at
          loading       \* per worker: the query under way, or none

rows == <<active, until, holder, update>>
caches == <<cache, loadedAt, loading>>
thresholds == <<now, rows, caches>>

NotLoading == [row |-> Default, since |-> -1]

ThresholdInit ==
  /\ now \in Starts /\ active = Seed /\ until = [r \in Updates \cup {Seed} |-> -1]
  /\ holder = Default
  /\ update = [u \in Updates |-> [state |-> "new", worker |-> Default, saw |-> Seed]]
  /\ cache = [w \in Workers |-> Default] /\ loadedAt = [w \in Workers |-> 0]
  /\ loading = [w \in Workers |-> NotLoading]

Tick == /\ now < MaxTime
        /\ \A w \in Workers : loading[w] # NotLoading => now - loading[w].since < LoadTime
        /\ now' = now + 1
        /\ UNCHANGED <<rows, caches>>

\* update_threshold reaches its UPDATE, which may have to wait for the row.
PutBegins(u, w) == /\ update[u].state = "new"
                   /\ update' = [update EXCEPT ![u] = [state |-> "updating", worker |-> w,
                                                       saw |-> active]]
                   /\ UNCHANGED <<now, active, until, holder, caches>>

\* Mutant: the time of the invalidation is taken for that of a load.
InvalidateStamps(w) == loadedAt' = [loadedAt EXCEPT ![w] = now]

\* invalidate
Invalidate(w) == loadedAt' = [loadedAt EXCEPT ![w] = 0]

\* The old row is deactivated, the new one flushed, this worker's cache invalidated.
\* A row deactivated since the UPDATE began is not found, and the insert then runs
\* into uq_threshold_configs_category_active: 409.
PutWrites(u) ==
  /\ update[u].state = "updating" /\ holder = Default
  /\ IF update[u].saw = active
       THEN /\ holder' = u
            /\ update' = [update EXCEPT ![u].state = "flushed"]
            /\ Invalidate(update[u].worker)
       ELSE /\ update' = [update EXCEPT ![u].state = "refused"]
            /\ UNCHANGED <<holder, loadedAt>>
  /\ UNCHANGED <<now, active, until, cache, loading>>

\* get_db ends the transaction, after the response.
PutCommits(u) == /\ update[u].state = "flushed"
                 /\ active' = u /\ until' = [until EXCEPT ![active] = now]
                 /\ holder' = Default /\ update' = [update EXCEPT ![u].state = "done"]
                 /\ UNCHANGED <<now, caches>>

Expired(w) == now - loadedAt[w] > TTL

\* get or get_all finds the cache expired: the lock is held for the query ...
LoadBegins(w) == /\ loading[w] = NotLoading /\ Expired(w)
                 /\ loading' = [loading EXCEPT ![w] = [row |-> active, since |-> now]]
                 /\ UNCHANGED <<now, rows, cache, loadedAt>>

\* ... and what it has read is stamped when it is back.
LoadEnds(w) == /\ loading[w] # NotLoading
               /\ cache' = [cache EXCEPT ![w] = loading[w].row]
               /\ loadedAt' = [loadedAt EXCEPT ![w] = now]
               /\ loading' = [loading EXCEPT ![w] = NotLoading]
               /\ UNCHANGED <<now, rows>>

LoadFails(w) == /\ loading[w] # NotLoading
                /\ loading' = [loading EXCEPT ![w] = NotLoading]
                /\ UNCHANGED <<now, rows, cache, loadedAt>>

\* A worker is started anew; a transaction it has open is rolled back.
Restart(w) ==
  LET open == {u \in Updates : update[u].worker = w
                               /\ update[u].state \in {"updating", "flushed"}}
  IN  /\ cache' = [cache EXCEPT ![w] = Default] /\ loadedAt' = [loadedAt EXCEPT ![w] = 0]
      /\ loading' = [loading EXCEPT ![w] = NotLoading]
      /\ holder' = IF holder \in open THEN Default ELSE holder
      /\ update' = [u \in Updates |-> IF u \in open THEN [update[u] EXCEPT !.state = "lost"]
                                                    ELSE update[u]]
      /\ UNCHANGED <<now, active, until>>

\* What get returns without a load.
Serves(w) == loading[w] = NotLoading /\ ~Expired(w)

\* CategoryThreshold.decide
Decide(row, score) == IF score >= Row[row].alert THEN "alert"
                      ELSE IF score >= Row[row].clear THEN "monitor" ELSE "auto_clear"
-----------------------------------------------------------------------------
\* StaleForTtlAtMost: whatever worker an update went through, however invalidations,
\* loads and commits overlap, a row that has been replaced is not served for longer
\* than the cache's life and one query's (get, _load, invalidate).  It takes a machine
\* that has been up for longer than that life: before, an empty cache counts as fresh.
StaleForTtlAtMost ==
  \A w \in Workers : now > TTL /\ Serves(w) =>
    \/ cache[w] = active
    \/ cache[w] # Default /\ until[cache[w]] >= now - (TTL + LoadTime)

\* "The admin API invalidates the cache on update" (thresholds.py:4): an update that has
\* been committed is in force on the worker that took it.
UpdatedIsInForce ==
  \A u \in Updates : update[u].state = "done" /\ active = u /\ Serves(update[u].worker)
    => cache[update[u].worker] = u

\* "Thresholds are loaded from threshold_configs at startup" (thresholds.py:3).
DatabaseIsInForce == \A w \in Workers : Serves(w) => cache[w] # Default
=============================================================================
