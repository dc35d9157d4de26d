------------------------------ MODULE AuditLog ------------------------------
(***************************************************************************)
(* What the audit sink promises to its callers, without workers, locks or  *)
(* transactions: one append-only log.  An entry is added after every entry *)
(* there is, and neither the entries nor their order ever change again.    *)
(* AuditChain implements this specification.                               *)
(***************************************************************************)
CONSTANT Calls          \* the calls of record(), each appending one event

VARIABLES entries,      \* the calls whose event is in the log
          before        \* the log's order: <<earlier, later>>

log == <<entries, before>>

LogInit == entries = {} /\ before = {}

\* The event of call c is appended to the log.
AppendEvent(c) == /\ c \notin entries
                  /\ entries' = entries \cup {c}
                  /\ before' = before \cup (entries \X {c})

LogNext == \E c \in Calls : AppendEvent(c)

LogSpec == LogInit /\ [][LogNext]_log
=============================================================================
