------------------------------ MODULE ApiStartup -----------------------------
(* How an API process comes up (src/app/settings.py, src/app/main.py): the      *)
(* settings are validated, the seams that are enabled are wired one after the   *)
(* other, and anything wrong on the way aborts the start. A seam that is not    *)
(* enabled stays a stub: 501, a null store, or a log line.                      *)
EXTENDS VlmBackend, Naturals

CONSTANT Configurations  \* the settings the process may be started with

VARIABLES
  settings,  \* what the process was started with
  phase,     \* the next thing to do at startup, then up, down (aborted) or stopped
  seams,     \* the seams that are live
  answered   \* the language model answered a probe at startup

startup == <<settings, phase, seams, answered>>

Seams == {"store", "audit", "detector", "verdict", "screener", "feedback"}

\* db: the connection string is unset, malformed, names a server that is down, or a live one.
\* secrets: the token secret and the audit key, read from the process environment
\* or from the .env file alone, or one of them too short or missing.
Settings ==
  [prod : BOOLEAN, bypass : BOOLEAN,
   db : {"unset", "malformed", "down", "live"},
   secrets : {"environment", "dotenv", "weak_token", "no_audit_key"},
   detector : {"off", "weights", "no_weights"},
   vlm : BOOLEAN, kind : Kinds \cup {"misspelt"}, verify : BOOLEAN, describe : BOOLEAN,
   stored : BOOLEAN, datalayer : BOOLEAN]

ASSUME ConfigurationsAssumption == Configurations \subseteq Settings

Phases == <<"validate", "db", "detector", "vlm", "screener", "datalayer", "up">>
After(p) == CHOOSE q \in {Phases[i] : i \in DOMAIN Phases} :
              \E i \in 1..Len(Phases) - 1 : Phases[i] = p /\ Phases[i + 1] = q

StartupInit ==
  /\ settings \in Configurations
  /\ phase = "validate" /\ seams = {} /\ answered = FALSE

Go(live) == phase' = After(phase) /\ seams' = seams \cup live
AbortStart == phase' = "down" /\ UNCHANGED <<seams, answered>>

SecretsRequired == settings.prod \/ settings.db # "unset"

\* What the settings' validator accepts: no bypass and no missing database in
\* production, and secrets of full length wherever rows or tokens are real.
Valid ==
  /\ settings.prod => ~settings.bypass /\ settings.db # "unset"
  /\ SecretsRequired => settings.secrets \in {"environment", "dotenv"}

Validate ==
  /\ phase = "validate"
  /\ IF Valid THEN Go({}) /\ UNCHANGED answered ELSE AbortStart
  /\ UNCHANGED settings

\* The engine is made from the string; nothing connects. The audit sink wants its key.
WireDb ==
  /\ phase = "db"
  /\ IF settings.db = "unset" THEN Go({}) /\ UNCHANGED answered
     ELSE IF settings.db = "malformed" \/ settings.secrets = "no_audit_key" THEN AbortStart
     ELSE Go({"store", "audit"}) /\ UNCHANGED answered
  /\ UNCHANGED settings

\* The weights are hashed and loaded here, so they must be there.
WireDetector ==
  /\ phase = "detector"
  /\ IF settings.detector = "no_weights" THEN AbortStart
     ELSE /\ Go(IF settings.detector = "weights" THEN {"detector"} ELSE {})
          /\ UNCHANGED answered
  /\ UNCHANGED settings

\* A model in the process is loaded at its first use; without descriptions no model is asked.
Probed == settings.verify /\ settings.describe /\ settings.kind \in Servers

\* Mutant: a backend that cannot be built or reached leaves the seam a stub.
WireVlmSilently ==
  /\ phase = "vlm"
  /\ \/ Go(IF settings.vlm /\ settings.kind \in Kinds THEN {"verdict"} ELSE {})
        /\ answered' = (settings.vlm /\ Probed)
     \/ settings.vlm /\ Probed /\ Go({}) /\ UNCHANGED answered
  /\ UNCHANGED settings
\* A backend of an unknown name, or one that does not answer the probe, aborts the start.
WireVlm ==
  /\ phase = "vlm"
  /\ IF ~settings.vlm THEN Go({}) /\ UNCHANGED answered
     ELSE IF settings.kind = "misspelt" THEN AbortStart
     ELSE \/ Go({"verdict"}) /\ answered' = Probed
          \/ Probed /\ AbortStart
  /\ UNCHANGED settings

\* The screener builds a backend of its own, of the same settings, and never probes it.
WireScreener ==
  /\ phase = "screener"
  /\ Go(IF settings.vlm THEN {"screener"} ELSE {})
  /\ UNCHANGED <<settings, answered>>

WireDatalayer ==
  /\ phase = "datalayer"
  /\ Go(IF settings.datalayer THEN {"feedback"} ELSE {})
  /\ UNCHANGED <<settings, answered>>

\* Shutdown: the camera stream is stopped and the engine disposed.
Stop ==
  /\ phase = "up" /\ phase' = "stopped" /\ seams' = seams \ {"store", "audit"}
  /\ UNCHANGED <<settings, answered>>

StartupNext ==
  \/ Validate
  \/ WireDb
  \/ WireDetector
  \/ WireVlm
  \/ WireScreener
  \/ WireDatalayer

Up == phase = "up"

------------------------------------------------------------------------------
\* A process that came up has every enabled seam live and every other one a
\* stub; a production process keeps rows and an audit trail, with authentication
\* on and secrets of full length. Whatever goes wrong on the way, no process
\* comes up with a seam silently missing: each wiring step of main.py has its
\* own conditions, and the validator another set, over the same settings.
StartupFailsClosed ==
  Up =>
    /\ "store" \in seams <=> settings.db # "unset"
    /\ "audit" \in seams <=> "store" \in seams
    /\ "detector" \in seams <=> settings.detector # "off"
    /\ "verdict" \in seams <=> settings.vlm
    /\ "screener" \in seams <=> settings.vlm
    /\ "feedback" \in seams <=> settings.datalayer
    /\ settings.prod => "audit" \in seams /\ ~settings.bypass
    /\ SecretsRequired => settings.secrets \in {"environment", "dotenv"}
    /\ "verdict" \in seams /\ Probed => answered

\* What enable_db's docstring says: it is called when the database is confirmed
\* ready (src/app/deps.py:179).
LiveStoreIsReady == "store" \in seams => settings.db = "live"

\* What the validator's docstring says: secrets fail at boot and not at the first
\* login (src/app/settings.py:283). Tokens are signed with the secret of the
\* process environment (src/app/auth/backend.py:39), which .env does not set.
BootedMeansTokensWork == Up /\ SecretsRequired => settings.secrets = "environment"
=============================================================================
