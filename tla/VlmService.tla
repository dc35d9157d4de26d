------------------------------ MODULE VlmService -----------------------------
(* The language-model side of an API process: it comes up, then it writes a     *)
(* verdict or screens an upload (src/app/api/v1/verdict.py, screen.py), and is  *)
(* stopped.                                                                     *)
EXTENDS VerdictWriter, CargoScreening, ApiStartup

CONSTANT Uploads  \* the uploads put to /v1/screen, each a sequence of file kinds

ASSUME UploadsAssumption == Uploads \subseteq Seq(FileKinds)

vars == <<writer, screening, startup>>

Init == WriterInit /\ ScreenInit /\ StartupInit

Fresh == Up /\ stage = "idle" /\ code = 0 /\ upload = <<>>

\* The generator's stub answers 501.
AskVerdict ==
  /\ Fresh
  /\ IF "verdict" \in seams
     THEN (\E ds \in Findings : Generate(ds)) /\ UNCHANGED screening
     ELSE code' = 501 /\ UNCHANGED <<writer, upload, raws, tried, results>>
  /\ UNCHANGED startup

AskScreen ==
  /\ Fresh
  /\ \E files \in Uploads : Upload(files, "screener" \in seams)
  /\ UNCHANGED <<writer, startup>>

\* The server stops when no request is in flight.
Shutdown ==
  /\ stage \in {"idle", "done", "failed"} /\ (upload = <<>> \/ code # 0)
  /\ Stop
  /\ UNCHANGED <<writer, screening>>

Next ==
  \/ StartupNext /\ UNCHANGED <<writer, screening>>
  \/ AskVerdict
  \/ AskScreen
  \/ /\ WriterNext(settings.kind, settings.stored, settings.describe)
     /\ UNCHANGED <<screening, startup>>
  \/ /\ ScreenNext
     /\ UNCHANGED <<writer, startup>>
  \/ Shutdown

Spec == Init /\ [][Next]_vars

------------------------------------------------------------------------------
\* The verdict follows the findings (VerdictWriter), with the configured backend.
VerdictIsFaithful == VerdictFollowsFindings(settings.kind)
=============================================================================
