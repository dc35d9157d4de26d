---------------------------- MODULE VerdictWriter ----------------------------
(* The verdict generator (src/vlm/generator.py, src/vlm/prompts.py): it puts a  *)
(* scan's detections to the language model one by one, guards what comes back,  *)
(* asks once more when that may help, writes the detector's facts when it does  *)
(* not, and assembles the verdict. The risk band never comes from the model.    *)
EXTENDS LanguageGuard, VlmBackend, Naturals, FiniteSets

CONSTANTS
  Findings,      \* the detection lists put to the generator
  Texts,         \* the texts the model may fill a slot with
  MaxRationales  \* how many rationales the contract's 4000 characters of summary hold

ASSUME TextsAssumption == Texts \subseteq GuardTexts

VARIABLES
  stage,     \* idle, image, ask, facts, done, failed
  findings,  \* the detections of the request
  image,     \* what the model is shown of the current detection
  attempt,   \* calls already made for the current detection
  broken,    \* the kinds of violations the current detection's texts showed
  sent,      \* the last request made to the backend
  written,   \* the rationales so far: id, who wrote it, its two slots
  risk       \* the band of the finished verdict

writer == <<stage, findings, image, attempt, broken, sent, written, risk>>

Severe == {"narcotics", "firearm", "explosive", "bladed_weapon"}
ThreatCategories ==
  Severe \cup {"currency", "organic_anomaly", "metallic_anomaly", "contraband_other", "unknown"}
Scores == {"below_medium", "medium", "high"}
Detection == [id : Nat, category : ThreatCategories, score : Scores]

ASSUME FindingsAssumption == Findings \subseteq Seq(Detection)

MaxRetries == 1

\* Mutant: only the first detection decides.
BandOfFirst(ds) ==
  IF ds = <<>> THEN "clear"
  ELSE IF ds[1].category \in Severe /\ ds[1].score = "high" THEN "high"
  ELSE IF ds[1].score # "below_medium" THEN "medium" ELSE "low"
\* The deterministic risk band of a list of detections.
RiskBand(ds) ==
  IF ds = <<>> THEN "clear"
  ELSE IF \E i \in DOMAIN ds : ds[i].category \in Severe /\ ds[i].score = "high" THEN "high"
  ELSE IF \E i \in DOMAIN ds : ds[i].score # "below_medium" THEN "medium" ELSE "low"

\* The template slots a reply without a TAVSIF or SABAB line falls back to.
FallbackSlot == Clean("fit")

\* What is read out of a reply; a slot that is absent or empty falls back.
ExtractSlots(reply) ==
  [tavsif |-> IF reply.tavsif = Nothing THEN FallbackSlot ELSE reply.tavsif,
   sabab |-> IF reply.sabab = Nothing THEN FallbackSlot ELSE reply.sabab,
   fallback |-> Nothing \in {reply.tavsif, reply.sabab}]

\* The description built from the detector's facts. The reason given for a
\* detection of unknown category names a "predmet", a word the guard takes for Russian.
FactSlots(d) ==
  [tavsif |-> Clean("fit"),
   sabab |-> [len |-> "fit",
              marks |-> IF d.category = "unknown" THEN {"russian_detected"} ELSE {}],
   fallback |-> TRUE]

Current == findings[Len(written) + 1]

\* The rationale of a detection: its category, its slots and a note that says whose text it is.
Rationale(d, by, slots) ==
  [id |-> d.id, category |-> d.category, by |-> by, tavsif |-> slots.tavsif, sabab |-> slots.sabab]

WriterInit ==
  /\ stage = "idle" /\ findings = <<>> /\ image = "none" /\ attempt = 0
  /\ broken = {} /\ sent = <<>> /\ written = <<>> /\ risk = "none"

\* After a rationale comes the next detection's image, or the verdict.
Write(rationale) ==
  /\ written' = Append(written, rationale)
  /\ stage' = IF Len(written) + 1 < Len(findings) THEN "image" ELSE "assemble"
  /\ attempt' = 0 /\ broken' = {}
  /\ UNCHANGED <<findings, image, risk>>

\* A request arrives; one without findings is answered from a template at once.
Generate(ds) ==
  /\ findings' = ds /\ written' = <<>> /\ broken' = {} /\ attempt' = 0
  /\ sent' = <<>> /\ image' = "none"
  /\ stage' = IF ds = <<>> THEN "done" ELSE "image"
  /\ risk' = IF ds = <<>> THEN "clear" ELSE "none"

\* The crop, else the whole frame, else no image: neither read ever raises.
\* Without a description there is nothing to ask.
LoadImage(stored, describe) ==
  /\ stage = "image"
  /\ image' \in (IF stored THEN {"crop"} ELSE {}) \cup {"frame", "none"}
  /\ stage' = IF describe THEN "ask" ELSE "facts"
  /\ UNCHANGED <<findings, attempt, broken, sent, written, risk>>

\* Mutant: a reply is put again when any of its violations may be retried.
AskAgainFor(kinds) == kinds \cap Retryable # {}
\* Asking again helps when every violation may be retried.
WorthAsking(kinds) == kinds \subseteq Retryable

\* Mutant: only the description is guarded.
GuardFirst(slots) == KindsOf(slots.tavsif)
\* The violations of both slots.
Guard(slots) == KindsOf(slots.tavsif) \cup KindsOf(slots.sabab)

\* The backend is called; it fails, or its reply passes, is retried once, or is given up.
Ask(kind) ==
  /\ stage = "ask"
  /\ sent' \in Requests(kind, <<Message("system", "none"), UserMessage(image)>>)

AskFails(kind) ==
  /\ Ask(kind)
  /\ stage' = "facts"
  /\ UNCHANGED <<findings, image, attempt, broken, written, risk>>

AskAnswered(kind) ==
  /\ Ask(kind)
  /\ Understood(kind, sent')
  /\ \E reply \in [tavsif : Texts, sabab : Texts] :
       LET slots == ExtractSlots(reply)
           kinds == Guard(slots)
       IN  IF kinds = {} /\ ~slots.fallback
           THEN Write(Rationale(Current, "model", slots))
           ELSE /\ broken' = broken \cup kinds
                /\ IF kinds # {} /\ WorthAsking(kinds) /\ attempt < MaxRetries
                   THEN attempt' = attempt + 1 /\ UNCHANGED stage
                   ELSE stage' = "facts" /\ UNCHANGED attempt
                /\ UNCHANGED <<findings, image, written, risk>>

\* The description comes from the detector's facts.
WriteFacts ==
  /\ stage = "facts"
  /\ Write(Rationale(Current, "facts", FactSlots(Current)))
  /\ UNCHANGED sent

\* The verdict holds every rationale in its summary; one longer than the
\* contract allows fails its validation and the request with it.
Assemble ==
  /\ stage = "assemble"
  /\ IF Len(written) <= MaxRationales
     THEN stage' = "done" /\ risk' = RiskBand(findings)
     ELSE stage' = "failed" /\ UNCHANGED risk
  /\ UNCHANGED <<findings, image, attempt, broken, sent, written>>

WriterNext(kind, stored, describe) ==
  \/ LoadImage(stored, describe)
  \/ AskFails(kind)
  \/ AskAnswered(kind)
  \/ WriteFacts
  \/ Assemble

------------------------------------------------------------------------------
\* Prose of the model reaches the operator only when both of its slots passed
\* the guard, and a detection whose texts broke a rule that is not worth a retry
\* (clearance, homoglyphs, length) is never put to the model again: the retry
\* loop of _fill_slots, over every order of good, bad and missing replies.
GuardedProse ==
  /\ \A i \in DOMAIN written :
       written[i].by = "model" => Passed(written[i].tavsif) /\ Passed(written[i].sabab)
  /\ stage = "ask" => broken \subseteq Retryable

\* A finished verdict speaks of each detection once, in the detector's order
\* and categories, is CLEAR only when there was none and HIGH whenever a severe
\* category scored high, whatever the model, the guard and the image reads did;
\* what a server was last asked carried the image in the form that server reads.
VerdictFollowsFindings(kind) ==
  /\ stage = "done" =>
       /\ Len(written) = Len(findings)
       /\ \A i \in DOMAIN written : /\ written[i].id = findings[i].id
                                    /\ written[i].category = findings[i].category
       /\ risk = "clear" <=> findings = <<>>
       /\ (\E i \in DOMAIN findings : /\ findings[i].category \in Severe
                                      /\ findings[i].score = "high") => risk = "high"
  /\ kind \in Servers => Understood(kind, sent)

\* What the fallback's docstring says of its text: "This is the
\* trusted fallback: clean Latin-script Uzbek ... and always passes the language guard"
\* (src/vlm/prompts.py:299).
FactsPassGuard ==
  \A i \in DOMAIN written :
    written[i].by = "facts" => Passed(written[i].tavsif) /\ Passed(written[i].sabab)

\* A request with findings is answered with a verdict.
BusyScanIsAnswered == stage # "failed"
=============================================================================
