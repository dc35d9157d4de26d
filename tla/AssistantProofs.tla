--------------------------- MODULE AssistantProofs ---------------------------
(***************************************************************************)
(* What the language model may say and what the detector is taught.        *)
(*                                                                         *)
(* VlmService, for any texts, replies, findings, uploads, number of passes *)
(* and settings.  Each part has its own inductive invariant:               *)
(*                                                                         *)
(*   StartupInv  the live seams are exactly those the steps made so far    *)
(*               had to wire, and each of these steps let the settings by; *)
(*   WriterInv   the rationales written are those of the first detections, *)
(*               the model's passed the guard, and nothing that may not be *)
(*               put again is ever waiting to be put again;                *)
(*   ScreenInv   every result escalates as it should, and there are        *)
(*               results only of an upload of images.                      *)
(*                                                                         *)
(* ActiveLearning, for any workers, feedbacks and number of faults:        *)
(*                                                                         *)
(*   LoopInv     the labels that were written and are on no line any       *)
(*               longer are as few as the lines the power cuts took, the   *)
(*               lines that break off as few as the writes cut short, what *)
(*               a check counted is still there, and every acknowledged    *)
(*               feedback has the receipt of its labels.                   *)
(***************************************************************************)
EXTENDS VlmService, ActiveLearning, FiniteSetTheorems, FunctionTheorems,
        SequenceTheorems, TLAPS

Phase == {"validate", "db", "detector", "vlm", "screener", "datalayer", "up", "down", "stopped"}

\* What each step wires under the settings.
Stores == IF settings.db = "unset" THEN {} ELSE {"store", "audit"}
Detector == IF settings.detector = "weights" THEN {"detector"} ELSE {}
Verdict == IF settings.vlm THEN {"verdict"} ELSE {}
Screener == IF settings.vlm THEN {"screener"} ELSE {}
Feedback == IF settings.datalayer THEN {"feedback"} ELSE {}

\* The seams that are live at each step are those the steps before it wired.
SeamsFollow ==
  /\ phase \in {"validate", "db"} => seams = {}
  /\ phase = "detector" => seams = Stores
  /\ phase = "vlm" => seams = Stores \cup Detector
  /\ phase = "screener" => seams = Stores \cup Detector \cup Verdict
  /\ phase = "datalayer" => seams = Stores \cup Detector \cup Verdict \cup Screener
  /\ phase = "up" => seams = Stores \cup Detector \cup Verdict \cup Screener \cup Feedback

\* What each step checked still holds after it.
ChecksMade ==
  /\ phase \notin {"validate", "down", "stopped"} => Valid
  /\ phase \in {"vlm", "screener", "datalayer", "up"} => settings.detector # "no_weights"
  /\ phase \in {"screener", "datalayer", "up"} /\ settings.vlm /\ Probed => answered

StartupInv ==
  /\ settings \in Settings /\ phase \in Phase /\ answered \in BOOLEAN
  /\ SeamsFollow
  /\ ChecksMade

Rationales == [id : Nat, category : ThreatCategories, by : {"model", "facts"},
               tavsif : GuardTexts, sabab : GuardTexts]
ViolationKinds == {"empty", "too_short", "too_long"} \cup Scans

\* The rationales so far are those of the first detections, in their order.
WrittenInOrder ==
  /\ Len(written) <= Len(findings)
  /\ \A i \in DOMAIN written : /\ written[i].id = findings[i].id
                               /\ written[i].category = findings[i].category
  /\ stage \in {"image", "ask", "facts"} => Len(written) < Len(findings)
  /\ stage \in {"assemble", "done"} => Len(written) = Len(findings)
  /\ stage = "done" => risk = RiskBand(findings)

\* Only an image about to be loaded and a request about to be made matter here.
OnlyRetryable ==
  /\ stage = "image" => broken = {}
  /\ stage = "ask" => broken \subseteq Retryable

ProseIsGuarded ==
  \A i \in DOMAIN written :
    written[i].by = "model" => Passed(written[i].tavsif) /\ Passed(written[i].sabab)

SentIsUnderstood == settings.kind \in Servers => Understood(settings.kind, sent)

WriterInv ==
  /\ stage \in {"idle", "image", "ask", "facts", "assemble", "done", "failed"}
  /\ findings \in Seq(Detection) /\ written \in Seq(Rationales)
  /\ image \in {"crop", "frame", "none"}
  /\ WrittenInOrder
  /\ OnlyRetryable
  /\ ProseIsGuarded
  /\ SentIsUnderstood

ShownTexts == [len : Lengths, marks : SUBSET Scans]
Tallies == [n : Nat, of : [Flags -> [{"YOQ", "BOR"} -> Nat]]]
Results == [ok : BOOLEAN, flags : [Flags -> Ranks], risk : {"clear", "medium", "high"},
            shown : SUBSET ShownTexts, said : Tallies]

\* A result is no milder than the replies allow.
Escalates(r) ==
  /\ r.risk = "clear" => \A f \in Flags : Majority(r, f, "YOQ")
  /\ (\E f \in Flags : Majority(r, f, "BOR")) => r.risk = "high"
  /\ \A t \in r.shown : t.len = "fit" => t.marks = {}

ScreenInv ==
  /\ upload \in Seq(FileKinds) /\ raws \in Seq(Replies)
  /\ results \in Seq(Results) /\ code \in {0, 200, 400, 501}
  /\ \A i \in DOMAIN results : Escalates(results[i])
  /\ code \in {0, 200} => \A i \in DOMAIN upload : upload[i] = "image"
  /\ code = 0 => Len(results) <= Len(upload)
  /\ code = 200 => Len(results) = Len(upload)
  /\ code \notin {0, 200} => results = <<>>

VlmInv == StartupInv /\ WriterInv /\ ScreenInv

------------------------------------------------------------------------------
(* The startup. *)

LEMMA NextPhase ==
  /\ After("validate") = "db" /\ After("db") = "detector" /\ After("detector") = "vlm"
  /\ After("vlm") = "screener" /\ After("screener") = "datalayer" /\ After("datalayer") = "up"
<1> DEFINE Follows(p, q) == \E i \in 1 .. Len(Phases) - 1 : Phases[i] = p /\ Phases[i + 1] = q
           Names == {Phases[i] : i \in DOMAIN Phases}
<1>1. Len(Phases) = 7 /\ DOMAIN Phases = 1 .. 7
  BY DEF Phases
<1>2. /\ Phases[1] = "validate" /\ Phases[2] = "db" /\ Phases[3] = "detector"
      /\ Phases[4] = "vlm" /\ Phases[5] = "screener" /\ Phases[6] = "datalayer"
      /\ Phases[7] = "up"
  BY DEF Phases
<1>3. Names = {"validate", "db", "detector", "vlm", "screener", "datalayer", "up"}
  <2>1. \A q : q \in Names <=> \E i \in 1 .. 7 : q = Phases[i]
    BY <1>1
  <2>2. \A i \in 1 .. 7 : i = 1 \/ i = 2 \/ i = 3 \/ i = 4 \/ i = 5 \/ i = 6 \/ i = 7
    OBVIOUS
  <2> QED BY <2>1, <2>2, <1>2
<1>4. \A p, q : Follows(p, q) <=>
        \/ p = "validate" /\ q = "db"
        \/ p = "db" /\ q = "detector"
        \/ p = "detector" /\ q = "vlm"
        \/ p = "vlm" /\ q = "screener"
        \/ p = "screener" /\ q = "datalayer"
        \/ p = "datalayer" /\ q = "up"
  <2>1. \A i \in 1 .. Len(Phases) - 1 : i = 1 \/ i = 2 \/ i = 3 \/ i = 4 \/ i = 5 \/ i = 6
    BY <1>1
  <2> QED BY <2>1, <1>1, <1>2
<1>5. \A p : After(p) = CHOOSE q \in Names : Follows(p, q)
  BY DEF After
<1> HIDE DEF Names, Follows
<1> QED BY <1>3, <1>4, <1>5
LEMMA StartupKept ==
  ASSUME StartupInv, StartupNext \/ Stop
  PROVE  StartupInv'
<1> USE NextPhase DEF StartupInv, Phase
<1>1. CASE Validate
  <2>1. settings' = settings /\ phase = "validate"
    BY <1>1 DEF Validate
  <2>2. CASE Valid
    <3>1. phase' = "db" /\ seams' = {} /\ answered' = answered
      BY <1>1, <2>1, <2>2, Zenon DEF Validate, Go, SeamsFollow
    <3> QED BY <2>1, <2>2, <3>1 DEF SeamsFollow, ChecksMade, Valid, SecretsRequired, Probed
  <2>3. CASE ~Valid
    BY <1>1, <2>1, <2>3 DEF Validate, AbortStart, SeamsFollow, ChecksMade
  <2> QED BY <2>2, <2>3
<1>2. CASE WireDb
  <2>1. settings' = settings /\ phase = "db" /\ seams = {} /\ Valid
    BY <1>2 DEF WireDb, SeamsFollow, ChecksMade
  <2>2. Valid'
    BY <2>1 DEF Valid, SecretsRequired
  <2>3. CASE AbortStart
    BY <2>1, <2>3 DEF AbortStart, SeamsFollow, ChecksMade
  <2>4. CASE Go(Stores) /\ answered' = answered
    <3>1. phase' = "detector" /\ seams' = Stores /\ Stores' = Stores
      BY <2>1, <2>4, Zenon DEF Go, Stores
    <3> QED BY <2>1, <2>2, <2>4, <3>1 DEF SeamsFollow, ChecksMade
  <2> QED BY <1>2, <2>3, <2>4 DEF WireDb, Stores
<1>3. CASE WireDetector
  <2>1. settings' = settings /\ phase = "detector" /\ seams = Stores /\ Valid
    BY <1>3 DEF WireDetector, SeamsFollow, ChecksMade
  <2>2. Valid' /\ Stores' = Stores /\ Detector' = Detector
    BY <2>1 DEF Valid, SecretsRequired, Stores, Detector
  <2>3. CASE AbortStart
    BY <2>1, <2>3 DEF AbortStart, SeamsFollow, ChecksMade
  <2>4. CASE Go(Detector) /\ answered' = answered /\ settings.detector # "no_weights"
    <3>1. phase' = "vlm" /\ seams' = Stores \cup Detector
      BY <2>1, <2>4, Zenon DEF Go
    <3> QED BY <2>1, <2>2, <2>4, <3>1 DEF SeamsFollow, ChecksMade
  <2> QED BY <1>3, <2>3, <2>4 DEF WireDetector, Detector
<1>4. CASE WireVlm
  <2>1. /\ settings' = settings /\ phase = "vlm" /\ seams = Stores \cup Detector /\ Valid
        /\ settings.detector # "no_weights" /\ settings.vlm \in BOOLEAN
    BY <1>4 DEF WireVlm, SeamsFollow, ChecksMade, Settings
  <2>2. /\ Valid' /\ Stores' = Stores /\ Detector' = Detector /\ Verdict' = Verdict
        /\ Probed' <=> Probed
    BY <2>1 DEF Valid, SecretsRequired, Stores, Detector, Verdict, Probed
  <2>3. CASE AbortStart
    BY <2>1, <2>3 DEF AbortStart, SeamsFollow, ChecksMade
  <2>4. CASE Go(Verdict) /\ answered' \in BOOLEAN /\ (settings.vlm /\ Probed => answered')
    <3>1. phase' = "screener" /\ seams' = Stores \cup Detector \cup Verdict
      BY <2>1, <2>4, Zenon DEF Go
    <3> QED BY <2>1, <2>2, <2>4, <3>1 DEF SeamsFollow, ChecksMade
  <2>5. Probed \in BOOLEAN
    BY DEF Probed, Settings
  <2>6. \/ AbortStart
        \/ Go(Verdict) /\ answered' \in BOOLEAN /\ (settings.vlm /\ Probed => answered')
    <3>1. CASE ~settings.vlm
      <4>1. Verdict = {} /\ Go({}) /\ answered' = answered
        BY <1>4, <3>1 DEF WireVlm, Verdict
      <4> QED BY <3>1, <4>1
    <3>2. CASE settings.vlm
      <4>1. Verdict = {"verdict"}
        BY <3>2 DEF Verdict
      <4>2. AbortStart \/ (Go({"verdict"}) /\ answered' = Probed)
        BY <1>4, <3>2, Zenon DEF WireVlm
      <4> QED BY <2>5, <4>1, <4>2
    <3> QED BY <3>1, <3>2
  <2> QED BY <2>3, <2>4, <2>6
<1>5. CASE WireScreener
  <2>1. /\ settings' = settings /\ answered' = answered /\ phase = "screener" /\ Valid
        /\ seams = Stores \cup Detector \cup Verdict
        /\ settings.detector # "no_weights" /\ (settings.vlm /\ Probed => answered)
    BY <1>5 DEF WireScreener, SeamsFollow, ChecksMade
  <2>2. /\ Valid' /\ Stores' = Stores /\ Detector' = Detector /\ Verdict' = Verdict
        /\ Screener' = Screener /\ (Probed' <=> Probed)
    BY <2>1 DEF Valid, SecretsRequired, Stores, Detector, Verdict, Screener, Probed
  <2>3. phase' = "datalayer" /\ seams' = Stores \cup Detector \cup Verdict \cup Screener
    BY <1>5, <2>1, Zenon DEF WireScreener, Go, Screener
  <2> QED BY <2>1, <2>2, <2>3 DEF SeamsFollow, ChecksMade
<1>6. CASE WireDatalayer
  <2>1. /\ settings' = settings /\ answered' = answered /\ phase = "datalayer" /\ Valid
        /\ seams = Stores \cup Detector \cup Verdict \cup Screener
        /\ settings.detector # "no_weights" /\ (settings.vlm /\ Probed => answered)
    BY <1>6 DEF WireDatalayer, SeamsFollow, ChecksMade
  <2>2. /\ Valid' /\ Stores' = Stores /\ Detector' = Detector /\ Verdict' = Verdict
        /\ Screener' = Screener /\ Feedback' = Feedback /\ (Probed' <=> Probed)
    BY <2>1 DEF Valid, SecretsRequired, Stores, Detector, Verdict, Screener, Feedback, Probed
  <2>3. phase' = "up" /\ seams' = Stores \cup Detector \cup Verdict \cup Screener \cup Feedback
    BY <1>6, <2>1, Zenon DEF WireDatalayer, Go, Feedback
  <2> QED BY <2>1, <2>2, <2>3 DEF SeamsFollow, ChecksMade
<1>7. CASE Stop
  BY <1>7 DEF Stop, SeamsFollow, ChecksMade
<1> QED BY <1>1, <1>2, <1>3, <1>4, <1>5, <1>6, <1>7 DEF StartupNext

LEMMA StartupStands == ASSUME StartupInv, UNCHANGED startup PROVE StartupInv'
<1>1. /\ settings' = settings /\ phase' = phase /\ seams' = seams /\ answered' = answered
  BY DEF startup
<1> QED
  BY <1>1 DEF StartupInv, SeamsFollow, ChecksMade, Valid, SecretsRequired, Probed, Stores,
              Detector, Verdict, Screener, Feedback

LEMMA StartupHolds == ASSUME StartupInv PROVE StartupFailsClosed
<1>1. SUFFICES ASSUME Up PROVE StartupFailsClosed
  BY DEF StartupFailsClosed
<1>2. /\ seams = Stores \cup Detector \cup Verdict \cup Screener \cup Feedback
      /\ Valid /\ settings.detector # "no_weights" /\ (settings.vlm /\ Probed => answered)
  BY <1>1 DEF StartupInv, SeamsFollow, ChecksMade, Up
<1>3. /\ "store" \in seams <=> settings.db # "unset"
      /\ "audit" \in seams <=> settings.db # "unset"
      /\ "detector" \in seams <=> settings.detector = "weights"
      /\ "verdict" \in seams <=> settings.vlm
      /\ "screener" \in seams <=> settings.vlm
      /\ "feedback" \in seams <=> settings.datalayer
  BY <1>2 DEF Stores, Detector, Verdict, Screener, Feedback
<1>4. settings.detector \in {"off", "weights", "no_weights"}
  BY DEF StartupInv, Settings
<1> QED BY <1>2, <1>3, <1>4 DEF StartupFailsClosed, Valid

------------------------------------------------------------------------------
(* The verdict. *)

\* Whatever the messages carry, a server is asked in the form it reads.
LEMMA RequestsUnderstood ==
  ASSUME NEW kind \in Servers, NEW picture \in {"crop", "frame", "none"},
         NEW request \in Requests(kind, <<Message("system", "none"), UserMessage(picture)>>)
  PROVE  Understood(kind, request)
<1> DEFINE messages == <<Message("system", "none"), UserMessage(picture)>>
<1>1. /\ DOMAIN messages = 1 .. 2
      /\ messages[1] = [role |-> "system", image |-> "none"]
      /\ messages[2] = [role |-> "user", image |-> IF picture = "none" THEN "none" ELSE "url"]
  BY DEF Message, UserMessage
<1>2. \A i \in DOMAIN messages : messages[i].image \in {"none", "url"}
  <2>1. \A i \in 1 .. 2 : i = 1 \/ i = 2
    OBVIOUS
  <2> QED BY <1>1, <2>1
<1>3. CASE kind = "ollama"
  <2> DEFINE turned == ToOllama(messages)
  <2>1. /\ turned = [i \in 1 .. 2 |->
                       [messages[i] EXCEPT !.image = IF @ = "url" THEN "bare" ELSE @]]
    BY <1>1, Zenon DEF ToOllama
  <2>2. turned[1].image = "none"
    BY <1>1, <2>1
  <2>3. turned[2].image \in {"none", "bare"}
    BY <1>1, <2>1
  <2>4. turned = <<turned[1], turned[2]>>
    BY <2>1
  <2>5. request = Append(turned, Prefill)
    BY <1>3 DEF Requests, OllamaRequest
  <2> HIDE DEF turned
  <2>6. turned \in Seq({turned[1], turned[2], Prefill}) /\ Len(turned) = 2
    <3> DEFINE a == turned[1]
               b == turned[2]
    <3>1. turned = <<a, b>>
      BY <2>4
    <3> HIDE DEF a, b
    <3> QED BY <3>1
  <2>7. /\ DOMAIN request = 1 .. 3 /\ request[1] = turned[1] /\ request[2] = turned[2]
        /\ request[3] = Prefill
    <3> DEFINE S == {turned[1], turned[2], Prefill}
    <3>1. turned \in Seq(S) /\ Prefill \in S
      BY <2>6
    <3> HIDE DEF S
    <3>2. /\ request \in Seq(S) /\ Len(request) = 3 /\ request[3] = Prefill
          /\ \A i \in 1 .. 2 : request[i] = turned[i]
      <4>1. /\ Append(turned, Prefill) \in Seq(S)
            /\ Len(Append(turned, Prefill)) = Len(turned) + 1
            /\ \A i \in 1 .. Len(turned) : Append(turned, Prefill)[i] = turned[i]
            /\ Append(turned, Prefill)[Len(turned) + 1] = Prefill
        BY <3>1, AppendProperties
      <4>2. Len(turned) + 1 = 3
        BY <2>6
      <4> QED BY <2>6, <2>5, <4>1, <4>2
    <3> QED BY <3>2, LenProperties
  <2>8. Prefill.image = "none"
    BY DEF Prefill, Message
  <2>9. \A i \in 1 .. 3 : i = 1 \/ i = 2 \/ i = 3
    OBVIOUS
  <2> QED BY <1>3, <2>2, <2>3, <2>7, <2>8, <2>9 DEF Understood
<1>4. CASE kind \in {"vllm", "llamacpp"}
  <2>1. request = messages
    BY <1>4 DEF Requests, VllmRequest, LlamaCppRequest
  <2> HIDE DEF messages
  <2> QED BY <1>2, <1>4, <2>1 DEF Understood
<1> QED BY <1>3, <1>4 DEF Servers

LEMMA GuardTypes ==
  /\ \A t \in GuardTexts : t.len \in Lengths /\ t.marks \subseteq Scans
  /\ \A t \in GuardTexts : KindsOf(t) \subseteq ViolationKinds
  /\ Clean("fit") \in GuardTexts /\ Nothing \in GuardTexts /\ Passed(Clean("fit"))
<1>1. \A t \in GuardTexts : t.len \in Lengths /\ t.marks \subseteq Scans
  BY DEF GuardTexts
<1>2. Clean("fit") \in GuardTexts /\ Nothing \in GuardTexts
  BY DEF GuardTexts, Clean, Nothing, Lengths
<1>3. Passed(Clean("fit"))
  BY DEF Passed, KindsOf, Clean
<1> QED BY <1>1, <1>2, <1>3 DEF KindsOf, ViolationKinds

LEMMA SlotsAreTexts ==
  ASSUME NEW reply \in [tavsif : Texts, sabab : Texts]
  PROVE  /\ ExtractSlots(reply).tavsif \in GuardTexts
         /\ ExtractSlots(reply).sabab \in GuardTexts
BY TextsAssumption, GuardTypes DEF ExtractSlots, FallbackSlot

LEMMA FactsAreTexts ==
  ASSUME NEW d \in Detection
  PROVE  FactSlots(d).tavsif \in GuardTexts /\ FactSlots(d).sabab \in GuardTexts
BY GuardTypes DEF FactSlots, GuardTexts, Lengths, Scans, Clean

\* A rationale of the next detection keeps the order and brings the next one, or the verdict.
LEMMA WriteKeeps ==
  ASSUME WriterInv, stage \in {"ask", "facts"},
         NEW rationale \in Rationales, Write(rationale),
         rationale.id = Current.id, rationale.category = Current.category,
         rationale.by = "model" => Passed(rationale.tavsif) /\ Passed(rationale.sabab),
         settings' = settings, SentIsUnderstood'
  PROVE  WriterInv'
<1>1. /\ findings' = findings /\ findings \in Seq(Detection)
      /\ written \in Seq(Rationales) /\ Len(written) < Len(findings)
      /\ Len(written) \in Nat /\ Len(findings) \in Nat
  BY DEF Write, WriterInv, WrittenInOrder
<1>2. /\ written' = Append(written, rationale) /\ written' \in Seq(Rationales)
      /\ Len(written') = Len(written) + 1
      /\ DOMAIN written' = 1 .. Len(written) + 1
      /\ \A i \in 1 .. Len(written) : written'[i] = written[i]
      /\ written'[Len(written) + 1] = rationale
  BY <1>1, AppendProperties DEF Write
<1>3. \A i \in DOMAIN written' : i \in DOMAIN written \/ i = Len(written) + 1
  BY <1>1, <1>2
<1>4. \A i \in DOMAIN written' : /\ written'[i].id = findings'[i].id
                                 /\ written'[i].category = findings'[i].category
  BY <1>1, <1>2, <1>3 DEF WriterInv, WrittenInOrder, Current
<1>5. ProseIsGuarded'
  BY <1>1, <1>2, <1>3 DEF WriterInv, ProseIsGuarded
<1>6. stage' = IF Len(written) + 1 < Len(findings) THEN "image" ELSE "assemble"
  BY DEF Write
<1>7. WrittenInOrder'
  BY <1>1, <1>2, <1>4, <1>6 DEF WrittenInOrder
<1>8. OnlyRetryable' /\ image' = image
  BY <1>6 DEF Write, OnlyRetryable
<1> QED BY <1>1, <1>2, <1>5, <1>6, <1>7, <1>8 DEF WriterInv

LEMMA AskIsUnderstood ==
  ASSUME WriterInv, Ask(settings.kind), settings' = settings
  PROVE  SentIsUnderstood'
BY RequestsUnderstood DEF WriterInv, Ask, SentIsUnderstood

LEMMA WriterKept ==
  ASSUME VlmInv, WriterNext(settings.kind, settings.stored, settings.describe),
         UNCHANGED startup
  PROVE  WriterInv'
<1>1. settings' = settings /\ WriterInv
  BY DEF startup, VlmInv
<1>2. CASE LoadImage(settings.stored, settings.describe)
  <2>1. /\ stage = "image" /\ stage' \in {"ask", "facts"} /\ image' \in {"crop", "frame", "none"}
        /\ findings' = findings /\ broken' = broken /\ sent' = sent
        /\ written' = written /\ risk' = risk
    BY <1>2 DEF LoadImage
  <2> QED
    BY <1>1, <2>1 DEF WriterInv, WrittenInOrder, OnlyRetryable, ProseIsGuarded, SentIsUnderstood
<1>3. CASE AskFails(settings.kind)
  <2>1. /\ stage = "ask" /\ stage' = "facts" /\ image' = image /\ findings' = findings
        /\ broken' = broken /\ written' = written /\ risk' = risk
    BY <1>3 DEF AskFails, Ask
  <2>2. SentIsUnderstood'
    BY <1>1, <1>3, AskIsUnderstood DEF AskFails
  <2> QED
    BY <1>1, <2>1, <2>2 DEF WriterInv, WrittenInOrder, OnlyRetryable, ProseIsGuarded
<1>4. CASE AskAnswered(settings.kind)
  <2>1. stage = "ask" /\ SentIsUnderstood'
    BY <1>1, <1>4, AskIsUnderstood DEF AskAnswered, Ask
  <2>2. PICK reply \in [tavsif : Texts, sabab : Texts] :
          LET slots == ExtractSlots(reply)
              kinds == Guard(slots)
          IN  IF kinds = {} /\ ~slots.fallback
              THEN Write(Rationale(Current, "model", slots))
              ELSE /\ broken' = broken \cup kinds
                   /\ IF kinds # {} /\ WorthAsking(kinds) /\ attempt < MaxRetries
                      THEN attempt' = attempt + 1 /\ UNCHANGED stage
                      ELSE stage' = "facts" /\ UNCHANGED attempt
                   /\ UNCHANGED <<findings, image, written, risk>>
    BY <1>4, Zenon DEF AskAnswered
  <2> DEFINE slots == ExtractSlots(reply)
             kinds == Guard(slots)
  <2>3. slots.tavsif \in GuardTexts /\ slots.sabab \in GuardTexts
    BY SlotsAreTexts
  <2> HIDE DEF slots
  <2>4. Current \in Detection
    BY <1>1, <2>1 DEF WriterInv, WrittenInOrder, Current
  <2>5. CASE kinds = {} /\ ~slots.fallback
    <3> DEFINE rationale == Rationale(Current, "model", slots)
    <3>1. Write(rationale)
      BY <2>2, <2>5, Zenon DEF slots
    <3>2. /\ rationale \in Rationales /\ rationale.id = Current.id
          /\ rationale.category = Current.category
          /\ rationale.tavsif = slots.tavsif /\ rationale.sabab = slots.sabab
      BY <2>3, <2>4 DEF Rationale, Rationales, Detection
    <3>3. Passed(slots.tavsif) /\ Passed(slots.sabab)
      BY <2>5 DEF Guard, Passed
    <3> HIDE DEF rationale
    <3> QED BY <1>1, <2>1, <3>1, <3>2, <3>3, WriteKeeps
  <2>6. CASE ~(kinds = {} /\ ~slots.fallback)
    <3>1. /\ broken' = broken \cup kinds
          /\ IF kinds # {} /\ WorthAsking(kinds) /\ attempt < MaxRetries
             THEN attempt' = attempt + 1 /\ UNCHANGED stage
             ELSE stage' = "facts" /\ UNCHANGED attempt
          /\ UNCHANGED <<findings, image, written, risk>>
      BY <2>2, <2>6, Zenon DEF slots
    <3>2. \/ stage' = "ask" /\ WorthAsking(kinds)
          \/ stage' = "facts"
      BY <2>1, <3>1
    <3>3. OnlyRetryable'
      BY <1>1, <2>1, <3>1, <3>2 DEF WriterInv, OnlyRetryable, WorthAsking
    <3> HIDE DEF kinds
    <3> QED
      BY <1>1, <2>1, <3>1, <3>2, <3>3 DEF WriterInv, WrittenInOrder, ProseIsGuarded
  <2> QED BY <2>5, <2>6
<1>5. CASE WriteFacts
  <2> DEFINE rationale == Rationale(Current, "facts", FactSlots(Current))
  <2>1. stage = "facts" /\ Write(rationale) /\ sent' = sent
    BY <1>5 DEF WriteFacts
  <2>2. Current \in Detection
    BY <1>1, <2>1 DEF WriterInv, WrittenInOrder, Current
  <2>3. FactSlots(Current).tavsif \in GuardTexts /\ FactSlots(Current).sabab \in GuardTexts
    BY <2>2, FactsAreTexts
  <2>4. /\ rationale \in Rationales /\ rationale.id = Current.id
        /\ rationale.category = Current.category /\ rationale.by = "facts"
    BY <2>2, <2>3 DEF Rationale, Rationales, Detection
  <2>5. SentIsUnderstood'
    BY <1>1, <2>1 DEF WriterInv, SentIsUnderstood
  <2> HIDE DEF rationale
  <2> QED BY <1>1, <2>1, <2>4, <2>5, WriteKeeps
<1>6. CASE Assemble
  <2>1. /\ stage = "assemble" /\ image' = image /\ findings' = findings
        /\ broken' = broken /\ written' = written /\ sent' = sent
        /\ \/ stage' = "done" /\ risk' = RiskBand(findings)
           \/ stage' = "failed"
    BY <1>6 DEF Assemble
  <2> QED
    BY <1>1, <2>1 DEF WriterInv, WrittenInOrder, OnlyRetryable, ProseIsGuarded, SentIsUnderstood
<1> QED BY <1>2, <1>3, <1>4, <1>5, <1>6 DEF WriterNext

LEMMA WriterStarts ==
  ASSUME VlmInv, NEW ds \in Findings, Generate(ds), UNCHANGED startup
  PROVE  WriterInv'
<1>1. /\ settings' = settings /\ ds \in Seq(Detection) /\ findings' = ds /\ written' = <<>>
      /\ broken' = {} /\ sent' = <<>> /\ image' = "none"
      /\ IF ds = <<>> THEN stage' = "done" /\ risk' = "clear"
                      ELSE stage' = "image" /\ risk' = "none"
  BY FindingsAssumption DEF Generate, startup
<1>2. written' \in Seq(Rationales) /\ Len(written') = 0 /\ DOMAIN written' = {}
  BY <1>1, EmptySeq
<1>3. ds # <<>> => Len(ds) > 0
  BY <1>1, EmptySeq
<1>4. WrittenInOrder'
  <2>1. CASE ds = <<>>
    <3>1. /\ stage' = "done" /\ risk' = "clear" /\ findings' = <<>> /\ Len(findings') = 0
      BY <1>1, <2>1
    <3> QED BY <1>2, <3>1 DEF WrittenInOrder, RiskBand
  <2>2. CASE ds # <<>>
    <3>1. stage' = "image" /\ findings' = ds /\ Len(ds) \in Nat
      BY <1>1, <2>2
    <3> QED BY <1>2, <1>3, <2>2, <3>1 DEF WrittenInOrder
  <2> QED BY <2>1, <2>2
<1>5. SentIsUnderstood'
  BY <1>1 DEF SentIsUnderstood, Understood
<1>6. OnlyRetryable' /\ ProseIsGuarded' /\ stage' \in {"done", "image"}
  BY <1>1, <1>2 DEF OnlyRetryable, ProseIsGuarded
<1> QED BY <1>1, <1>2, <1>4, <1>5, <1>6 DEF WriterInv

LEMMA WriterStands ==
  ASSUME WriterInv, UNCHANGED writer, settings' = settings
  PROVE  WriterInv'
<1>1. /\ stage' = stage /\ findings' = findings /\ image' = image /\ broken' = broken
      /\ sent' = sent /\ written' = written /\ risk' = risk
  BY DEF writer
<1> QED
  BY <1>1 DEF WriterInv, WrittenInOrder, OnlyRetryable, ProseIsGuarded, SentIsUnderstood

\* The band is CLEAR only of no detections, HIGH of every severe one that scored high.
LEMMA Bands ==
  ASSUME NEW ds \in Seq(Detection)
  PROVE  /\ RiskBand(ds) = "clear" <=> ds = <<>>
         /\ (\E i \in DOMAIN ds : ds[i].category \in Severe /\ ds[i].score = "high")
              => RiskBand(ds) = "high"
BY EmptySeq DEF RiskBand

LEMMA WriterHolds == ASSUME WriterInv PROVE GuardedProse /\ VerdictIsFaithful
<1>1. GuardedProse
  BY DEF WriterInv, ProseIsGuarded, OnlyRetryable, GuardedProse
<1>2. stage = "done" => risk = RiskBand(findings) /\ Len(written) = Len(findings)
  BY DEF WriterInv, WrittenInOrder
<1>3. \A i \in DOMAIN written : /\ written[i].id = findings[i].id
                                /\ written[i].category = findings[i].category
  BY DEF WriterInv, WrittenInOrder
<1>4. findings \in Seq(Detection) /\ SentIsUnderstood
  BY DEF WriterInv
<1> QED
  BY <1>1, <1>2, <1>3, <1>4, Bands DEF VerdictIsFaithful, VerdictFollowsFindings, SentIsUnderstood

------------------------------------------------------------------------------
(* The screening. *)

\* Of some marks one comes first in the order of check().
LEMMA OneComesFirst ==
  ASSUME NEW K \in SUBSET Scans, K # {}
  PROVE  \E k \in K : \A other \in K : CheckedAt[k] <= CheckedAt[other]
<1>1. /\ CheckedAt["cyrillic_detected"] = 3 /\ CheckedAt["mixed_script"] = 4
      /\ CheckedAt["russian_detected"] = 5 /\ CheckedAt["english_drift"] = 6
      /\ CheckedAt["forbidden_clearance"] = 7
  BY DEF CheckedAt
<1>2. \A k \in K : k \in {"cyrillic_detected", "mixed_script", "russian_detected",
                          "english_drift", "forbidden_clearance"}
  BY DEF Scans
<1>3. CASE "cyrillic_detected" \in K
  BY <1>1, <1>2, <1>3
<1>4. CASE "cyrillic_detected" \notin K /\ "mixed_script" \in K
  BY <1>1, <1>2, <1>4
<1>5. CASE "cyrillic_detected" \notin K /\ "mixed_script" \notin K /\ "russian_detected" \in K
  BY <1>1, <1>2, <1>5
<1>6. CASE /\ "cyrillic_detected" \notin K /\ "mixed_script" \notin K
           /\ "russian_detected" \notin K /\ "english_drift" \in K
  BY <1>1, <1>2, <1>6
<1>7. CASE /\ "cyrillic_detected" \notin K /\ "mixed_script" \notin K
           /\ "russian_detected" \notin K /\ "english_drift" \notin K
  BY <1>1, <1>2, <1>7
<1> QED BY <1>3, <1>4, <1>5, <1>6, <1>7

\* A text within the bounds that counts as clean has no mark.
LEMMA CleanHasNoMark ==
  ASSUME NEW t \in ShownTexts, TextClean(t), t.len = "fit"
  PROVE  t.marks = {}
<1>1. t.marks \in SUBSET Scans /\ KindsOf(t) = t.marks
  BY DEF ShownTexts, KindsOf
<1>2. SUFFICES ASSUME t.marks # {} PROVE FALSE
  OBVIOUS
<1>3. FirstViolation(t) \in t.marks
  <2>1. \E k \in KindsOf(t) : \A other \in KindsOf(t) : CheckedAt[k] <= CheckedAt[other]
    BY <1>1, <1>2, OneComesFirst
  <2> QED BY <1>1, <2>1, Zenon DEF FirstViolation
<1>4. FirstViolation(t) \in {"too_short", "too_long"}
  BY <1>1, <1>2 DEF TextClean, Passed
<1> QED BY <1>1, <1>3, <1>4 DEF Scans

LEMMA FallbackIsShown == Fallback \in ShownTexts /\ Fallback.marks = {}
BY DEF Fallback, Clean, ShownTexts, Lengths

\* Of four texts one is the longest.
LEMMA OneIsLongest ==
  ASSUME NEW a \in ShownTexts, NEW b \in ShownTexts, NEW c \in ShownTexts, NEW d \in ShownTexts
  PROVE  \E t \in Longest({a, b, c, d}) : t \in ShownTexts
<1>1. \A t \in ShownTexts : Longer[t.len] \in 0 .. 3
  BY DEF ShownTexts, Lengths, Longer
<1> DEFINE L(t) == Longer[t.len]
<1>2. L(a) \in Int /\ L(b) \in Int /\ L(c) \in Int /\ L(d) \in Int
  BY <1>1
<1>3. SUFFICES \E t \in {a, b, c, d} : \A u \in {a, b, c, d} : L(u) <= L(t)
  BY Zenon DEF Longest
<1> HIDE DEF L
<1>4. CASE L(b) <= L(a) /\ L(c) <= L(a) /\ L(d) <= L(a)
  BY <1>2, <1>4
<1>5. CASE L(a) <= L(b) /\ L(c) <= L(b) /\ L(d) <= L(b)
  BY <1>2, <1>5
<1>6. CASE L(a) <= L(c) /\ L(b) <= L(c) /\ L(d) <= L(c)
  BY <1>2, <1>6
<1>7. CASE L(a) <= L(d) /\ L(b) <= L(d) /\ L(c) <= L(d)
  BY <1>2, <1>7
<1> QED BY <1>2, <1>4, <1>5, <1>6, <1>7

LEMMA ReplyTypes ==
  ASSUME NEW rs \in Seq(Replies), NEW i \in DOMAIN rs
  PROVE  /\ rs[i].summary \in ShownTexts /\ rs[i].wagon \in ShownTexts
         /\ rs[i].cargo \in ShownTexts /\ Raw(rs[i]) \in ShownTexts
         /\ rs[i].flags \in [Flags -> Ranks \cup {"missing"}]
<1>1. rs[i] \in Reply
  BY RepliesAssumption, ElementOfSeq
<1>2. GuardTexts \subseteq ShownTexts
  BY DEF GuardTexts, ShownTexts
<1> DEFINE r == rs[i]
<1>3. /\ r.summary \in ShownTexts /\ r.wagon \in ShownTexts /\ r.cargo \in ShownTexts
      /\ r.flags \in [Flags -> Ranks \cup {"missing"}]
  BY <1>1, <1>2 DEF Reply
<1> HIDE DEF r
<1>4. Raw(r) \in ShownTexts
  <2> DEFINE longest == Longest({r.summary, r.wagon, r.cargo, Fallback})
  <2>1. \E t \in longest : t \in ShownTexts
    BY <1>3, FallbackIsShown, OneIsLongest
  <2>2. longest \subseteq {r.summary, r.wagon, r.cargo, Fallback}
    BY DEF Longest
  <2>3. (CHOOSE t \in longest : TRUE) \in longest
    BY <2>1
  <2>4. (CHOOSE t \in longest : TRUE) \in ShownTexts
    BY <1>3, <2>2, <2>3, FallbackIsShown
  <2>5. Raw(r) = [len |-> (CHOOSE t \in longest : TRUE).len,
                  marks |-> r.summary.marks \cup r.wagon.marks \cup r.cargo.marks]
    BY DEF Raw
  <2> HIDE DEF longest
  <2> QED BY <1>3, <2>4, <2>5 DEF ShownTexts
<1> QED BY <1>3, <1>4 DEF r

LEMMA SummariesAreTexts == ASSUME NEW rs \in Seq(Replies) PROVE Summaries(rs) \subseteq ShownTexts
<1> DEFINE said == {t \in {rs[i].summary : i \in DOMAIN rs} : TextClean(t)}
           whole == {t \in {Raw(rs[i]) : i \in DOMAIN rs} : TextClean(t)}
<1>1. said \subseteq ShownTexts /\ whole \subseteq ShownTexts
  BY ReplyTypes
<1>2. Summaries(rs) = IF said # {} THEN Longest(said)
                      ELSE IF whole # {} THEN Longest(whole) ELSE {Fallback}
  BY DEF Summaries
<1> HIDE DEF said, whole
<1> QED BY <1>1, <1>2, FallbackIsShown DEF Longest

LEMMA VotedAreTexts ==
  ASSUME NEW ts, \A i \in DOMAIN ts : ts[i] \in ShownTexts
  PROVE  VoteText(ts) \subseteq ShownTexts
<1> DEFINE said == {i \in DOMAIN ts : ts[i].len # "empty"}
           Count(i) == Cardinality({j \in said : ts[j] = ts[i]})
           best == {i \in said : \A j \in said : Count(j) <= Count(i)}
<1>1. VoteText(ts) = IF said = {} THEN {Fallback} ELSE Longest({ts[i] : i \in best})
  BY DEF VoteText
<1>2. {ts[i] : i \in best} \subseteq ShownTexts
  OBVIOUS
<1> HIDE DEF best, said
<1> QED BY <1>1, <1>2, FallbackIsShown DEF Longest

\* How many replies gave a flag a rank in so many words.
LEMMA VotesCount ==
  ASSUME NEW rs \in Seq(Replies), NEW f \in Flags, NEW rank
  PROVE  Cardinality({i \in DOMAIN rs : rs[i].flags[f] = rank}) \in Nat
<1>1. IsFiniteSet(DOMAIN rs)
  BY FS_Interval, LenProperties
<1> QED BY <1>1, FS_Subset, FS_CardinalityType

\* The vote on a flag: none only with a strict majority for it, BOR with one.
LEMMA Voting ==
  ASSUME NEW rs \in Seq(Replies), NEW f \in Flags
  PROVE  LET vote == VoteFlag([i \in DOMAIN rs |-> RankOf(rs[i].flags[f])])
             Said(rank) == Cardinality({i \in DOMAIN rs : rs[i].flags[f] = rank})
         IN  /\ vote \in Ranks
             /\ vote = "YOQ" => 2 * Said("YOQ") > Len(rs)
             /\ 2 * Said("BOR") > Len(rs) => vote = "BOR"
<1> DEFINE ranks == [i \in DOMAIN rs |-> RankOf(rs[i].flags[f])]
           Said(rank) == Cardinality({i \in DOMAIN rs : rs[i].flags[f] = rank})
           Votes(rank) == Cardinality({i \in DOMAIN ranks : ranks[i] = rank})
<1>1. Len(ranks) = Len(rs) /\ Len(rs) \in Nat /\ DOMAIN ranks = DOMAIN rs
  BY LenProperties
<1>2. ASSUME NEW rank \in {"YOQ", "BOR"} PROVE Votes(rank) = Said(rank)
  <2>1. \A i \in DOMAIN rs : ranks[i] = rank <=> rs[i].flags[f] = rank
    BY <1>2, ReplyTypes DEF RankOf, Ranks
  <2>2. {i \in DOMAIN ranks : ranks[i] = rank} = {i \in DOMAIN rs : rs[i].flags[f] = rank}
    BY <1>1, <2>1
  <2> QED BY <2>2
<1>3. Said("YOQ") \in Nat /\ Said("BOR") \in Nat
  BY VotesCount
<1>4. VoteFlag(ranks) =
        IF Votes("BOR") >= Len(ranks) \div 2 + 1 THEN "BOR"
        ELSE IF Votes("YOQ") >= Len(ranks) \div 2 + 1 THEN "YOQ" ELSE "SHUBHALI"
  BY Zenon DEF VoteFlag
<1> HIDE DEF ranks, Said, Votes
<1>5. VoteFlag(ranks) =
        IF Said("BOR") >= Len(rs) \div 2 + 1 THEN "BOR"
        ELSE IF Said("YOQ") >= Len(rs) \div 2 + 1 THEN "YOQ" ELSE "SHUBHALI"
  BY <1>1, <1>2, <1>4
<1>6. \A n \in Nat, m \in Nat : m >= n \div 2 + 1 <=> 2 * m > n
  OBVIOUS
<1>7. /\ Said("BOR") >= Len(rs) \div 2 + 1 <=> 2 * Said("BOR") > Len(rs)
      /\ Said("YOQ") >= Len(rs) \div 2 + 1 <=> 2 * Said("YOQ") > Len(rs)
  BY <1>1, <1>3, <1>6
<1>8. /\ VoteFlag(ranks) \in Ranks
      /\ VoteFlag(ranks) = "YOQ" => 2 * Said("YOQ") > Len(rs)
      /\ 2 * Said("BOR") > Len(rs) => VoteFlag(ranks) = "BOR"
  BY <1>5, <1>7 DEF Ranks
<1> QED BY <1>8 DEF ranks, Said

LEMMA TallyCounts ==
  ASSUME NEW rs \in Seq(Replies)
  PROVE  /\ Tally(rs) \in Tallies /\ Tally(rs).n = Len(rs)
         /\ \A f \in Flags, rank \in {"YOQ", "BOR"} :
              Tally(rs).of[f][rank] = Cardinality({i \in DOMAIN rs : rs[i].flags[f] = rank})
<1> DEFINE of == [f \in Flags |-> [r \in {"YOQ", "BOR"} |->
                    Cardinality({i \in DOMAIN rs : rs[i].flags[f] = r})]]
<1>1. of \in [Flags -> [{"YOQ", "BOR"} -> Nat]]
  BY VotesCount
<1>2. Tally(rs) = [n |-> Len(rs), of |-> of]
  BY DEF Tally
<1>3. \A f \in Flags, rank \in {"YOQ", "BOR"} :
        of[f][rank] = Cardinality({i \in DOMAIN rs : rs[i].flags[f] = rank})
  OBVIOUS
<1>4. Len(rs) \in Nat
  BY LenProperties
<1> HIDE DEF of
<1>5. Tally(rs).n = Len(rs) /\ Tally(rs).of = of
  BY <1>2
<1>6. Tally(rs) \in Tallies
  BY <1>1, <1>2, <1>4 DEF Tallies
<1> QED BY <1>3, <1>5, <1>6

LEMMA RiskBands ==
  ASSUME NEW flags \in [Flags -> Ranks]
  PROVE  /\ RiskFromFlags(flags) \in {"clear", "medium", "high"}
         /\ RiskFromFlags(flags) = "clear" => \A f \in Flags : flags[f] = "YOQ"
         /\ (\E f \in Flags : flags[f] = "BOR") => RiskFromFlags(flags) = "high"
BY DEF RiskFromFlags, Ranks

\* Whatever the passes replied, the result of an image escalates.
LEMMA AggregatesEscalate ==
  ASSUME NEW rs \in Seq(Replies), NEW r \in Aggregates(rs)
  PROVE  r \in Results /\ Escalates(r)
<1> DEFINE voted == [f \in Flags |-> VoteFlag([i \in DOMAIN rs |-> RankOf(rs[i].flags[f])])]
           missing == \E i \in DOMAIN rs, f \in Flags : rs[i].flags[f] = "missing"
           Tripped(s, w, c) == \E t \in {s, c, w} : ~TextClean(t)
           Flagged(tripped) == [f \in Flags |-> IF tripped /\ voted[f] = "YOQ"
                                                THEN "SHUBHALI" ELSE voted[f]]
<1>1. PICK s \in Summaries(rs), w \in VoteText([i \in DOMAIN rs |-> rs[i].wagon]),
           c \in VoteText([i \in DOMAIN rs |-> rs[i].cargo]) :
        r = [ok |-> ~Tripped(s, w, c) /\ ~missing, flags |-> Flagged(Tripped(s, w, c)),
             risk |-> RiskFromFlags(Flagged(Tripped(s, w, c))),
             shown |-> IF Tripped(s, w, c) THEN {Fallback} ELSE {s, w, c},
             said |-> Tally(rs)]
  <2> DEFINE Result(s, w, c) ==
               [ok |-> ~Tripped(s, w, c) /\ ~missing, flags |-> Flagged(Tripped(s, w, c)),
                risk |-> RiskFromFlags(Flagged(Tripped(s, w, c))),
                shown |-> IF Tripped(s, w, c) THEN {Fallback} ELSE {s, w, c},
                said |-> Tally(rs)]
             S == Summaries(rs)
             W == VoteText([i \in DOMAIN rs |-> rs[i].wagon])
             C == VoteText([i \in DOMAIN rs |-> rs[i].cargo])
  <2>1. Aggregates(rs) = {Result(s, w, c) : s \in S, w \in W, c \in C}
    BY DEF Aggregates
  <2>2. \E s \in S, w \in W, c \in C : r = Result(s, w, c)
    <3> HIDE DEF Result, S, W, C
    <3> QED BY <2>1
  <2> QED BY <2>2
<1> DEFINE tripped == Tripped(s, w, c)
           flags == Flagged(tripped)
<1>2. s \in ShownTexts /\ w \in ShownTexts /\ c \in ShownTexts
  BY SummariesAreTexts, VotedAreTexts, ReplyTypes
<1>3. voted \in [Flags -> Ranks]
  BY Voting
<1>4. \A f \in Flags : /\ voted[f] = "YOQ" => 2 * Tally(rs).of[f]["YOQ"] > Tally(rs).n
                       /\ 2 * Tally(rs).of[f]["BOR"] > Tally(rs).n => voted[f] = "BOR"
  BY Voting, TallyCounts
<1> HIDE DEF voted
<1>5. /\ flags \in [Flags -> Ranks]
      /\ \A f \in Flags : /\ flags[f] = "YOQ" => voted[f] = "YOQ"
                          /\ voted[f] = "BOR" => flags[f] = "BOR"
  BY <1>3 DEF Ranks
<1>6. /\ (IF tripped THEN {Fallback} ELSE {s, w, c}) \subseteq ShownTexts
      /\ \A t \in IF tripped THEN {Fallback} ELSE {s, w, c} : t.len = "fit" => t.marks = {}
  BY <1>2, FallbackIsShown, CleanHasNoMark
<1>7. /\ r.ok \in BOOLEAN /\ r.flags = flags /\ r.risk = RiskFromFlags(flags)
      /\ r.shown = IF tripped THEN {Fallback} ELSE {s, w, c}
      /\ r.said = Tally(rs)
      /\ r = [ok |-> r.ok, flags |-> flags, risk |-> r.risk, shown |-> r.shown, said |-> r.said]
  BY <1>1
<1> HIDE DEF flags, tripped
<1>8. r \in Results
  BY <1>5, <1>6, <1>7, RiskBands, TallyCounts DEF Results
<1>9. r.risk = "clear" => \A f \in Flags : Majority(r, f, "YOQ")
  BY <1>4, <1>5, <1>7, RiskBands DEF Majority
<1>10. (\E f \in Flags : Majority(r, f, "BOR")) => r.risk = "high"
  BY <1>4, <1>5, <1>7, RiskBands DEF Majority
<1> QED BY <1>6, <1>7, <1>8, <1>9, <1>10 DEF Escalates

LEMMA FailureEscalates == FailedResult \in Results /\ Escalates(FailedResult)
<1>1. Len(<<>>) = 0 /\ <<>> \in Seq(Replies) /\ DOMAIN <<>> = {}
  BY EmptySeq
<1>2. Tally(<<>>) \in Tallies /\ Tally(<<>>).n = 0
  BY <1>1, TallyCounts
<1>3. \A f \in Flags : Tally(<<>>).of[f]["BOR"] = 0
  <2>1. \A f \in Flags : {i \in DOMAIN <<>> : <<>>[i].flags[f] = "BOR"} = {}
    BY <1>1
  <2> QED BY <1>1, <2>1, TallyCounts, FS_EmptySet
<1>4. /\ FailedResult.ok = FALSE /\ FailedResult.flags = [f \in Flags |-> "SHUBHALI"]
      /\ FailedResult.risk = "medium" /\ FailedResult.shown = {Fallback}
      /\ FailedResult.said = Tally(<<>>)
  BY DEF FailedResult
<1>5. FailedResult \in Results
  BY <1>2, FallbackIsShown DEF FailedResult, Results, Ranks
<1> QED BY <1>2, <1>3, <1>4, <1>5, FallbackIsShown DEF Escalates, Majority
LEMMA ScreenKept == ASSUME ScreenInv, ScreenNext PROVE ScreenInv'
<1>1. CASE Infer
  <2>1. /\ upload' = upload /\ results' = results /\ code' = code
        /\ raws' = raws \/ \E r \in Replies : raws' = Append(raws, r)
    BY <1>1 DEF Infer
  <2>2. raws' \in Seq(Replies)
    <3>1. raws \in Seq(Replies)
      BY DEF ScreenInv
    <3>2. \A r \in Replies : Append(raws, r) \in Seq(Replies)
      BY <3>1, AppendProperties
    <3> QED BY <2>1, <3>1, <3>2
  <2> QED BY <2>1, <2>2 DEF ScreenInv
<1>2. CASE Conclude
  <2>1. /\ code = 0 /\ Len(results) < Len(upload) /\ upload' = upload /\ raws' = <<>>
        /\ code' = IF Len(results) + 1 = Len(upload) THEN 200 ELSE 0
    BY <1>2 DEF Conclude, Screening
  <2>2. PICK r \in IF raws = <<>> THEN {FailedResult} ELSE Aggregates(raws) :
          results' = Append(results, r)
    BY <1>2 DEF Conclude
  <2>3. r \in Results /\ Escalates(r)
    BY <2>2, FailureEscalates, AggregatesEscalate DEF ScreenInv
  <2>4. /\ results' \in Seq(Results) /\ Len(results') = Len(results) + 1
        /\ DOMAIN results' = 1 .. Len(results) + 1
        /\ \A i \in 1 .. Len(results) : results'[i] = results[i]
        /\ results'[Len(results) + 1] = r
    BY <2>2, <2>3, AppendProperties, LenProperties DEF ScreenInv
  <2>5. Len(results) \in Nat /\ Len(upload) \in Nat /\ DOMAIN results = 1 .. Len(results)
    BY LenProperties DEF ScreenInv
  <2>6. \A i \in DOMAIN results' : Escalates(results'[i])
    <3>1. \A i \in DOMAIN results' : i \in DOMAIN results \/ i = Len(results) + 1
      BY <2>4, <2>5
    <3> QED BY <2>3, <2>4, <2>5, <3>1 DEF ScreenInv
  <2> QED BY <2>1, <2>4, <2>5, <2>6 DEF ScreenInv
<1> QED BY <1>1, <1>2 DEF ScreenNext

LEMMA UploadKept ==
  ASSUME NEW files \in Uploads, NEW wired, Upload(files, wired)
  PROVE  ScreenInv'
<1>1. /\ files \in Seq(FileKinds) /\ upload' = files /\ results' = <<>> /\ raws' = <<>>
      /\ code' = IF files = <<>> \/ \E i \in DOMAIN files : files[i] # "image" THEN 400
                 ELSE IF ~wired THEN 501 ELSE 0
  BY UploadsAssumption DEF Upload
<1>2. /\ <<>> \in Seq(Results) /\ <<>> \in Seq(Replies) /\ Len(<<>>) = 0
      /\ Len(files) \in Nat /\ DOMAIN <<>> = {}
  BY <1>1, EmptySeq, LenProperties
<1> QED BY <1>1, <1>2 DEF ScreenInv

LEMMA ScreenStands == ASSUME ScreenInv, UNCHANGED screening PROVE ScreenInv'
BY DEF ScreenInv, screening

LEMMA ScreenHolds == ASSUME ScreenInv PROVE ScreeningEscalates
<1>1. \A i \in DOMAIN results : Escalates(results[i])
  BY DEF ScreenInv
<1>2. /\ code = 200 => Len(results) = Len(upload)
      /\ results # <<>> => \A i \in DOMAIN upload : upload[i] = "image"
  BY DEF ScreenInv
<1> QED BY <1>1, <1>2, Zenon DEF Escalates, ScreeningEscalates

------------------------------------------------------------------------------
(* The service. *)

LEMMA VlmInit == Init => VlmInv
<1> SUFFICES ASSUME Init PROVE VlmInv
  OBVIOUS
<1>1. /\ WriterInit /\ ScreenInit /\ StartupInit
  BY DEF Init
<1>2. StartupInv
  BY <1>1, ConfigurationsAssumption DEF StartupInit, StartupInv, Phase, SeamsFollow, ChecksMade
<1>3. /\ <<>> \in Seq(Detection) /\ <<>> \in Seq(Rationales) /\ <<>> \in Seq(FileKinds)
      /\ <<>> \in Seq(Replies) /\ <<>> \in Seq(Results) /\ Len(<<>>) = 0 /\ DOMAIN <<>> = {}
  BY EmptySeq
<1>4. WriterInv
  BY <1>1, <1>3 DEF WriterInit, WriterInv, WrittenInOrder, OnlyRetryable, ProseIsGuarded,
                    SentIsUnderstood, Understood
<1>5. ScreenInv
  BY <1>1, <1>3 DEF ScreenInit, ScreenInv
<1> QED BY <1>2, <1>4, <1>5 DEF VlmInv

LEMMA VlmStep == VlmInv /\ [Next]_vars => VlmInv'
<1> SUFFICES ASSUME VlmInv, [Next]_vars PROVE VlmInv'
  OBVIOUS
<1> USE DEF VlmInv
<1>1. CASE StartupNext /\ UNCHANGED <<writer, screening>>
  <2>1. settings' = settings
    BY <1>1 DEF StartupNext, Validate, WireDb, WireDetector, WireVlm, WireScreener, WireDatalayer
  <2> QED BY <1>1, <2>1, StartupKept, WriterStands, ScreenStands
<1>2. CASE AskVerdict
  <2>1. UNCHANGED startup /\ StartupInv' /\ settings' = settings
    BY <1>2, StartupStands DEF AskVerdict, startup
  <2>2. CASE "verdict" \in seams
    <3>1. PICK ds \in Findings : Generate(ds) /\ UNCHANGED screening
      BY <1>2, <2>2 DEF AskVerdict
    <3> QED BY <2>1, <3>1, WriterStarts, ScreenStands
  <2>3. CASE "verdict" \notin seams
    <3>1. /\ UNCHANGED writer /\ code = 0 /\ upload = <<>>
          /\ code' = 501 /\ upload' = upload /\ raws' = raws /\ results' = results
      BY <1>2, <2>3 DEF AskVerdict, Fresh
    <3>2. results = <<>>
      <4>1. Len(results) <= 0 /\ Len(results) \in Nat
        BY <3>1, LenProperties DEF ScreenInv
      <4> QED BY <4>1, EmptySeq DEF ScreenInv
    <3>3. ScreenInv'
      BY <3>1, <3>2 DEF ScreenInv
    <3> QED BY <2>1, <3>1, <3>3, WriterStands
  <2> QED BY <2>2, <2>3
<1>3. CASE AskScreen
  <2>1. UNCHANGED startup /\ UNCHANGED writer /\ settings' = settings
    BY <1>3 DEF AskScreen, startup
  <2>2. ScreenInv'
    BY <1>3, UploadKept DEF AskScreen
  <2> QED BY <2>1, <2>2, StartupStands, WriterStands
<1>4. CASE /\ WriterNext(settings.kind, settings.stored, settings.describe)
           /\ UNCHANGED <<screening, startup>>
  BY <1>4, WriterKept, ScreenStands, StartupStands
<1>5. CASE ScreenNext /\ UNCHANGED <<writer, startup>>
  <2>1. settings' = settings
    BY <1>5 DEF startup
  <2> QED BY <1>5, <2>1, ScreenKept, WriterStands, StartupStands
<1>6. CASE Shutdown
  <2>1. Stop /\ UNCHANGED writer /\ UNCHANGED screening /\ settings' = settings
    BY <1>6 DEF Shutdown, Stop
  <2> QED BY <2>1, StartupKept, WriterStands, ScreenStands
<1>7. CASE UNCHANGED vars
  <2>1. UNCHANGED writer /\ UNCHANGED screening /\ UNCHANGED startup /\ settings' = settings
    BY <1>7 DEF vars, startup
  <2> QED BY <2>1, StartupStands, WriterStands, ScreenStands
<1> QED BY <1>1, <1>2, <1>3, <1>4, <1>5, <1>6, <1>7 DEF Next

\* VlmInv holds in every state of the service.
THEOREM VlmInvariance == Spec => []VlmInv
BY VlmInit, VlmStep, PTL DEF Spec

\* Whatever settings the process is started with, it comes up with every enabled
\* seam live and every other one a stub, or it does not come up (settings.py's
\* validator and the wiring steps of main.py's lifespan).
THEOREM StartsAreClosed == Spec => []StartupFailsClosed
<1>1. VlmInv => StartupFailsClosed
  BY StartupHolds DEF VlmInv
<1> QED BY <1>1, VlmInvariance, PTL

\* Whatever the model replies and in whatever order, its prose is in a verdict
\* only when both slots passed the guard, and a text with a violation that may
\* not be retried is never put to it again (_fill_slots of generator.py).
THEOREM ProseIsAlwaysGuarded == Spec => []GuardedProse
<1>1. VlmInv => GuardedProse
  BY WriterHolds DEF VlmInv
<1> QED BY <1>1, VlmInvariance, PTL

\* For any list of detections, the verdict has one rationale per detection, in
\* their order and categories, and the detector's risk band; a server is asked in
\* the form it reads (generate of generator.py, the transports of backend.py).
THEOREM VerdictsAreFaithful == Spec => []VerdictIsFaithful
<1>1. VlmInv => VerdictIsFaithful
  BY WriterHolds DEF VlmInv
<1> QED BY <1>1, VlmInvariance, PTL

\* For any number of passes and any replies, a screening is never milder than
\* strict majorities of the replies allow, and shows no marked text of legal
\* length (_aggregate of screen.py).
THEOREM ScreeningsEscalate == Spec => []ScreeningEscalates
<1>1. VlmInv => ScreeningEscalates
  BY ScreenHolds DEF VlmInv
<1> QED BY <1>1, VlmInvariance, PTL
-----------------------------------------------------------------------------
(* The labels.                                                             *)

\* The image of a finite set is finite and no larger, and as large when no two
\* elements share theirs.
LEMMA ImageOf ==
  ASSUME NEW S, IsFiniteSet(S), NEW f, DOMAIN f = S
  PROVE  LET T == {f[x] : x \in S}
         IN  /\ IsFiniteSet(T) /\ Cardinality(T) \in Nat /\ Cardinality(T) <= Cardinality(S)
             /\ (\A x, y \in S : f[x] = f[y] => x = y) => Cardinality(T) = Cardinality(S)
<1> DEFINE T == {f[x] : x \in S}
           g == [x \in S |-> f[x]]
<1>1. g \in Surjection(S, T)
  BY DEF Surjection
<1>2. /\ IsFiniteSet(T) /\ Cardinality(T) <= Cardinality(S)
      /\ Cardinality(T) = Cardinality(S) <=> g \in Injection(S, T)
  BY <1>1, FS_Surjection
<1>3. Cardinality(T) \in Nat
  BY <1>2, FS_CardinalityType
<1>4. (\A x, y \in S : f[x] = f[y] => x = y) => g \in Injection(S, T)
  BY DEF Injection, IsInjective
<1> QED BY <1>2, <1>3, <1>4

\* Two parts of a finite set.
LEMMA PartsAddUp ==
  ASSUME NEW S, IsFiniteSet(S), NEW A, NEW B, S = A \cup B, A \cap B = {}
  PROVE  /\ IsFiniteSet(A) /\ Cardinality(A) \in Nat
         /\ IsFiniteSet(B) /\ Cardinality(B) \in Nat
         /\ Cardinality(S) = Cardinality(A) + Cardinality(B)
<1>1. A \in SUBSET S /\ B \in SUBSET S
  OBVIOUS
<1>2. IsFiniteSet(A) /\ IsFiniteSet(B)
  BY <1>1, FS_Subset
<1>3. Cardinality(A) \in Nat /\ Cardinality(B) \in Nat
  BY <1>2, FS_CardinalityType
<1>4. Cardinality(S) = Cardinality(A) + Cardinality(B) - Cardinality(A \cap B)
  BY <1>2, FS_Union
<1>5. Cardinality(A \cap B) = 0
  BY FS_EmptySet
<1> QED BY <1>2, <1>3, <1>4, <1>5

\* The label of a review that teaches something.
Judged(fb) == {r \in fb.reviews : r.judgement \in {"confirmed", "reclassified", "rejected"}}

ReviewLabel(r) ==
  IF r.judgement = "confirmed"
    THEN LabelOf("operator_confirmed", r.of.category, r.of.box, "none")
  ELSE IF r.judgement = "reclassified"
    THEN LabelOf("operator_reclassified", r.corrected, r.of.box, r.of.category)
    ELSE LabelOf("hard_negative", r.of.category, r.of.box, "none")

LEMMA LabelsOfReviews ==
  ASSUME NEW fb
  PROVE  ReviewLabels(fb) = {ReviewLabel(r) : r \in Judged(fb)}
<1> DEFINE Is(j) == {r \in fb.reviews : r.judgement = j}
<1>1. ReviewLabels(fb) =
        {LabelOf("operator_confirmed", r.of.category, r.of.box, "none") : r \in Is("confirmed")}
        \cup {LabelOf("operator_reclassified", r.corrected, r.of.box, r.of.category)
                : r \in Is("reclassified")}
        \cup {LabelOf("hard_negative", r.of.category, r.of.box, "none") : r \in Is("rejected")}
  BY DEF ReviewLabels
<1>2. {LabelOf("operator_confirmed", r.of.category, r.of.box, "none") : r \in Is("confirmed")}
        = {ReviewLabel(r) : r \in Is("confirmed")}
  BY DEF ReviewLabel
<1>3. {LabelOf("operator_reclassified", r.corrected, r.of.box, r.of.category)
         : r \in Is("reclassified")}
        = {ReviewLabel(r) : r \in Is("reclassified")}
  BY DEF ReviewLabel
<1>4. {LabelOf("hard_negative", r.of.category, r.of.box, "none") : r \in Is("rejected")}
        = {ReviewLabel(r) : r \in Is("rejected")}
  BY DEF ReviewLabel
<1>5. Judged(fb) = Is("confirmed") \cup Is("reclassified") \cup Is("rejected")
  BY DEF Judged
<1> HIDE DEF Is
<1> QED BY <1>1, <1>2, <1>3, <1>4, <1>5

\* The fields of a label.
LEMMA FieldsOfLabels ==
  ASSUME NEW s, NEW c, NEW b, NEW o
  PROVE  LET l == LabelOf(s, c, b, o)
         IN  l.source = s /\ l.category = c /\ l.box = b /\ l.corrected_from = o
BY DEF LabelOf

\* Two reviews of one feedback have two labels: the label says what was detected.
LEMMA OneLabelEach ==
  ASSUME NEW fb, LegalFeedback(fb), NEW q \in Judged(fb), NEW r \in Judged(fb),
         ReviewLabel(q) = ReviewLabel(r)
  PROVE  q = r
<1>1. /\ q \in fb.reviews /\ r \in fb.reviews /\ q.of \in Finding /\ r.of \in Finding
      /\ q.judgement \in {"confirmed", "reclassified", "rejected"}
      /\ r.judgement \in {"confirmed", "reclassified", "rejected"}
      /\ q.of = r.of => q = r
  BY DEF Judged, LegalFeedback
<1>2. /\ ReviewLabel(q).source = ReviewLabel(r).source
      /\ ReviewLabel(q).category = ReviewLabel(r).category
      /\ ReviewLabel(q).box = ReviewLabel(r).box
      /\ ReviewLabel(q).corrected_from = ReviewLabel(r).corrected_from
  OBVIOUS
<1>3. \A s, t \in {q, r} :
        /\ ReviewLabel(s).box = s.of.box
        /\ ReviewLabel(s).source = (IF s.judgement = "confirmed" THEN "operator_confirmed"
             ELSE IF s.judgement = "reclassified" THEN "operator_reclassified"
             ELSE "hard_negative")
        /\ s.judgement = "reclassified" => ReviewLabel(s).corrected_from = s.of.category
        /\ s.judgement # "reclassified" => ReviewLabel(s).category = s.of.category
  BY <1>1, FieldsOfLabels DEF ReviewLabel
<1>4. q.judgement = r.judgement
  BY <1>1, <1>2, <1>3
<1>5. q.of.box = r.of.box /\ q.of.category = r.of.category
  BY <1>1, <1>2, <1>3, <1>4
<1>6. q.of = r.of
  BY <1>1, <1>5 DEF Finding
<1> QED BY <1>1, <1>6

\* Where a label comes from shows in its source.
LEMMA SourcesOfLabels ==
  ASSUME NEW fb
  PROVE  /\ \A r \in Judged(fb) :
              /\ ReviewLabel(r).source \in Positive
                   <=> r.judgement \in {"confirmed", "reclassified"}
              /\ ReviewLabel(r).source = "hard_negative" <=> r.judgement = "rejected"
              /\ ReviewLabel(r).source # "operator_missed"
         /\ \A l \in MissedLabels(fb) : l.source = "operator_missed"
         /\ \A l \in TrueNegative(fb) : l.source = "true_negative_scan"
<1>1. \A r \in Judged(fb) :
        ReviewLabel(r).source = (IF r.judgement = "confirmed" THEN "operator_confirmed"
          ELSE IF r.judgement = "reclassified" THEN "operator_reclassified"
          ELSE "hard_negative")
  BY FieldsOfLabels DEF ReviewLabel
<1>2. \A r \in Judged(fb) : r.judgement \in {"confirmed", "reclassified", "rejected"}
  BY DEF Judged
<1>3. \A l \in MissedLabels(fb) : l.source = "operator_missed"
  BY FieldsOfLabels DEF MissedLabels
<1>4. \A l \in TrueNegative(fb) : l.source = "true_negative_scan"
  BY FieldsOfLabels DEF TrueNegative
<1> QED BY <1>1, <1>2, <1>3, <1>4 DEF Positive

LEMMA CountOfReviews ==
  ASSUME NEW fb, LegalFeedback(fb), NEW S \in SUBSET Judged(fb)
  PROVE  LET T == {ReviewLabel(r) : r \in S}
         IN  IsFiniteSet(T) /\ IsFiniteSet(S) /\ Cardinality(T) = Cardinality(S)
<1> DEFINE f == [r \in S |-> ReviewLabel(r)]
<1>1. S \in SUBSET fb.reviews /\ IsFiniteSet(fb.reviews)
  BY DEF Judged, LegalFeedback
<1>2. IsFiniteSet(S)
  BY <1>1, FS_Subset
<1>3. \A q, r \in S : f[q] = f[r] => q = r
  BY OneLabelEach
<1>4. {ReviewLabel(r) : r \in S} = {f[r] : r \in S}
  OBVIOUS
<1>5. DOMAIN f = S
  OBVIOUS
<1> HIDE DEF f
<1>6. LET T == {f[r] : r \in S} IN IsFiniteSet(T) /\ Cardinality(T) = Cardinality(S)
  BY <1>2, <1>3, <1>5, ImageOf
<1> QED BY <1>2, <1>4, <1>6

LEMMA CountOfMissed ==
  ASSUME NEW fb, LegalFeedback(fb)
  PROVE  IsFiniteSet(MissedLabels(fb)) /\ Cardinality(MissedLabels(fb)) = Cardinality(fb.missed)
<1> DEFINE f == [m \in fb.missed |-> LabelOf("operator_missed", m.category, m.box, "none")]
<1>1. fb.missed \subseteq Finding /\ IsFiniteSet(fb.missed)
  BY DEF LegalFeedback
<1>2. \A m, n \in fb.missed : f[m] = f[n] => m = n
  <2> SUFFICES ASSUME NEW m \in fb.missed, NEW n \in fb.missed, f[m] = f[n] PROVE m = n
    OBVIOUS
  <2>1. m.category = n.category /\ m.box = n.box
    BY FieldsOfLabels
  <2> QED BY <1>1, <2>1 DEF Finding
<1>3. MissedLabels(fb) = {f[m] : m \in fb.missed}
  BY DEF MissedLabels
<1>4. DOMAIN f = fb.missed
  OBVIOUS
<1> HIDE DEF f
<1> QED BY <1>1, <1>2, <1>3, <1>4, ImageOf

LEMMA CandidatesAreFinite ==
  ASSUME NEW fb, LegalFeedback(fb)
  PROVE  IsFiniteSet(Candidates(fb)) /\ IsFiniteSet(Passing(fb))
<1>1. IsFiniteSet(ReviewLabels(fb))
  BY LabelsOfReviews, CountOfReviews
<1>2. IsFiniteSet(MissedLabels(fb))
  BY CountOfMissed
<1>3. IsFiniteSet(TrueNegative(fb))
  BY FS_EmptySet, FS_Singleton DEF TrueNegative
<1>4. IsFiniteSet(Candidates(fb))
  <2>1. IsFiniteSet(ReviewLabels(fb) \cup MissedLabels(fb))
    BY <1>1, <1>2, FS_Union
  <2> QED BY <1>3, <2>1, FS_Union DEF Candidates
<1>5. Passing(fb) \in SUBSET Candidates(fb)
  BY DEF Passing
<1> QED BY <1>4, <1>5, FS_Subset

\* The receipt is what the contract says the feedback yields, less what the gate
\* refused.
LEMMA ReceiptsAddUp ==
  ASSUME NEW fb, LegalFeedback(fb)
  PROVE  LET refused == Candidates(fb) \ Passing(fb)
             bad(S) == Cardinality({l \in refused : l.source \in S})
         IN  /\ Receipt(fb).labels = GoldLabels(fb) - bad(Positive)
             /\ Receipt(fb).hard = HardNegatives(fb) - bad({"hard_negative"})
<1> DEFINE good == {r \in fb.reviews : r.judgement \in {"confirmed", "reclassified"}}
           rejected == {r \in fb.reviews : r.judgement = "rejected"}
           refused == Candidates(fb) \ Passing(fb)
           Of(T, S) == {l \in T : l.source \in S}
<1>1. good \in SUBSET Judged(fb) /\ rejected \in SUBSET Judged(fb)
  BY DEF Judged
<1>2. \A S : /\ Of(Candidates(fb), S) = Of(Passing(fb), S) \cup Of(refused, S)
             /\ Of(Passing(fb), S) \cap Of(refused, S) = {}
  BY DEF Passing
<1>3. \A S : IsFiniteSet(Of(Candidates(fb), S))
  <2> TAKE S
  <2>1. Of(Candidates(fb), S) \in SUBSET Candidates(fb)
    OBVIOUS
  <2> QED BY <2>1, CandidatesAreFinite, FS_Subset
<1>4. \A S : /\ Cardinality(Of(Passing(fb), S)) \in Nat /\ Cardinality(Of(refused, S)) \in Nat
             /\ Cardinality(Of(Candidates(fb), S))
                  = Cardinality(Of(Passing(fb), S)) + Cardinality(Of(refused, S))
  <2> TAKE S
  <2> DEFINE all == Of(Candidates(fb), S)
             passing == Of(Passing(fb), S)
             rest == Of(refused, S)
  <2>1. IsFiniteSet(all) /\ all = passing \cup rest /\ passing \cap rest = {}
    BY <1>2, <1>3
  <2> HIDE DEF all, passing, rest
  <2>2. /\ Cardinality(passing) \in Nat /\ Cardinality(rest) \in Nat
        /\ Cardinality(all) = Cardinality(passing) + Cardinality(rest)
    BY <2>1, PartsAddUp
  <2> QED BY <2>2 DEF all, passing, rest
<1>5. Of(Candidates(fb), Positive) = {ReviewLabel(r) : r \in good} \cup MissedLabels(fb)
  <2>1. \A l \in ReviewLabels(fb) : l.source \in Positive <=> l \in {ReviewLabel(r) : r \in good}
    BY LabelsOfReviews, SourcesOfLabels DEF Judged
  <2>2. {ReviewLabel(r) : r \in good} \subseteq ReviewLabels(fb)
    BY <1>1, LabelsOfReviews
  <2>3. /\ \A l \in MissedLabels(fb) : l.source \in Positive
        /\ \A l \in TrueNegative(fb) : l.source \notin Positive
    BY SourcesOfLabels DEF Positive
  <2> QED BY <2>1, <2>2, <2>3 DEF Candidates
<1>6. {ReviewLabel(r) : r \in good} \cap MissedLabels(fb) = {}
  BY <1>1, SourcesOfLabels
<1>7. Cardinality(Of(Candidates(fb), Positive)) = Cardinality(good) + Cardinality(fb.missed)
  <2>1. /\ IsFiniteSet({ReviewLabel(r) : r \in good})
        /\ Cardinality({ReviewLabel(r) : r \in good}) = Cardinality(good)
    BY <1>1, CountOfReviews
  <2>2. IsFiniteSet(Of(Candidates(fb), Positive))
    BY <1>3
  <2> HIDE DEF good, Of
  <2> QED BY <1>5, <1>6, <2>1, <2>2, CountOfMissed, PartsAddUp
<1>8. Of(Candidates(fb), {"hard_negative"}) = {ReviewLabel(r) : r \in rejected}
  <2>1. \A l \in ReviewLabels(fb) :
          l.source = "hard_negative" <=> l \in {ReviewLabel(r) : r \in rejected}
    BY LabelsOfReviews, SourcesOfLabels DEF Judged
  <2>2. {ReviewLabel(r) : r \in rejected} \subseteq ReviewLabels(fb)
    BY <1>1, LabelsOfReviews
  <2>3. /\ \A l \in MissedLabels(fb) : l.source # "hard_negative"
        /\ \A l \in TrueNegative(fb) : l.source # "hard_negative"
    BY SourcesOfLabels
  <2> QED BY <2>1, <2>2, <2>3 DEF Candidates
<1>9. Cardinality(Of(Candidates(fb), {"hard_negative"})) = Cardinality(rejected)
  BY <1>1, <1>8, CountOfReviews
<1>10. /\ Receipt(fb).labels = Cardinality(Of(Passing(fb), Positive))
       /\ Receipt(fb).hard = Cardinality(Of(Passing(fb), {"hard_negative"}))
  <2>1. Of(Passing(fb), {"hard_negative"}) = {l \in Passing(fb) : l.source = "hard_negative"}
    OBVIOUS
  <2> QED BY <2>1 DEF Receipt
<1>11. /\ GoldLabels(fb) = Cardinality(good) + Cardinality(fb.missed)
       /\ HardNegatives(fb) = Cardinality(rejected)
  BY DEF GoldLabels, HardNegatives
<1> HIDE DEF good, rejected
<1>12. /\ Receipt(fb).labels = GoldLabels(fb) - Cardinality(Of(refused, Positive))
       /\ Receipt(fb).hard = HardNegatives(fb) - Cardinality(Of(refused, {"hard_negative"}))
  <2>1. /\ Cardinality(Of(Passing(fb), Positive)) \in Nat
        /\ Cardinality(Of(refused, Positive)) \in Nat
        /\ Cardinality(Of(Candidates(fb), Positive))
             = Cardinality(Of(Passing(fb), Positive)) + Cardinality(Of(refused, Positive))
        /\ Cardinality(Of(Passing(fb), {"hard_negative"})) \in Nat
        /\ Cardinality(Of(refused, {"hard_negative"})) \in Nat
        /\ Cardinality(Of(Candidates(fb), {"hard_negative"}))
             = Cardinality(Of(Passing(fb), {"hard_negative"}))
                 + Cardinality(Of(refused, {"hard_negative"}))
    BY <1>4
  <2> HIDE DEF Of
  <2> QED BY <1>7, <1>9, <1>10, <1>11, <2>1
<1> QED BY <1>12
-----------------------------------------------------------------------------
(* The label queue.                                                        *)

\* What can stand in the file.
Lines == [id : Ids, label : UNION {Passing(feedback[i]) : i \in Ids},
          status : {"pending", "reviewed"}, torn : BOOLEAN]

LoopTypeOK ==
  /\ feedback \in Mixes
  /\ text \in Seq(Lines)
  /\ tears \in Nat /\ cut \in Nat
  /\ pc \in [Ids -> {"new", "failed", "write", "check", "emit", "acked"}]
  /\ at \in [Ids -> Workers \cup {None}]
  /\ counts \in [Ids -> [Categories -> Nat] \cup {None}]
  /\ receipt \in [Ids -> [labels : Nat, hard : Nat] \cup {None}]
  /\ \A i \in Ids : pc[i] \in {"write", "check", "emit"} => at[i] \in Workers

Queued == {"check", "emit", "acked"}

\* The labels whose write went through, the lines that break off, and the labels
\* that are on no line of their own any longer.
Written == {p \in UNION {{i} \X Passing(feedback[i]) : i \in Ids} : pc[p[1]] \in Queued}
Pair(j) == <<text[j].id, text[j].label>>
OnFile(p) == \E j \in DOMAIN text : ~text[j].torn /\ Pair(j) = p
Off == {p \in Written : ~OnFile(p)}
TornLines == {j \in DOMAIN text : text[j].torn}

\* Only a power cut takes a line away, and each line that breaks off is of one write
\* that was cut short.
Books == /\ IsFiniteSet(Off) /\ Cardinality(Off) <= cut
         /\ Cardinality(TornLines) <= tears

\* What a check counted is still there when the specification is written.
CountsHold ==
  \A i \in Ids : pc[i] = "emit" =>
    /\ counts[i] \in [Categories -> Nat]
    /\ \A c \in Categories : counts[i][c] <= CountByCategory(c)

Receipts == \A i \in Ids : pc[i] = "acked" => receipt[i] = Receipt(feedback[i])

LoopInv == LoopTypeOK /\ Books /\ CountsHold /\ Receipts

LEMMA LegalIds ==
  ASSUME LoopTypeOK, NEW i \in Ids
  PROVE  LegalFeedback(feedback[i]) /\ IsFiniteSet(Passing(feedback[i]))
<1>1. LegalFeedback(feedback[i])
  BY MixesAssumption DEF LoopTypeOK, Ids
<1> QED BY <1>1, CandidatesAreFinite

LEMMA LinesOfText ==
  ASSUME text \in Seq(Lines)
  PROVE  /\ Len(text) \in Nat /\ DOMAIN text = 1 .. Len(text) /\ IsFiniteSet(DOMAIN text)
         /\ \A j \in 1 .. Len(text) : text[j] \in Lines
<1>1. Len(text) \in Nat /\ DOMAIN text = 1 .. Len(text)
  BY LenProperties
<1>2. IsFiniteSet(1 .. Len(text))
  BY <1>1, FS_Interval
<1> QED BY <1>1, <1>2, ElementOfSeq

\* A set's sequence holds each of its elements.
LEMMA SequenceOfSet ==
  ASSUME NEW S, IsFiniteSet(S)
  PROVE  /\ Cardinality(S) \in Nat
         /\ SetToSeq(S) \in [1 .. Cardinality(S) -> S]
         /\ \A x \in S : \E k \in 1 .. Cardinality(S) : SetToSeq(S)[k] = x
<1> DEFINE n == Cardinality(S)
           f == SetToSeq(S)
<1>1. n \in Nat /\ ExistsBijection(1 .. n, S)
  BY FS_CardinalityType
<1>2. \E g \in [1 .. n -> S] : IsInjective(g)
  BY <1>1 DEF ExistsBijection, Bijection, Injection
<1>3. f \in [1 .. n -> S] /\ IsInjective(f)
  BY <1>2 DEF SetToSeq
<1> HIDE DEF f, n
<1>4. f \in Injection(1 .. n, S)
  BY <1>3 DEF Injection
<1>5. Cardinality(1 .. n) = n
  BY <1>1, FS_Interval
<1>6. f \in Surjection(1 .. n, S)
  BY <1>4, <1>5, FS_Injection DEF n
<1>7. \A x \in S : \E k \in 1 .. n : f[k] = x
  BY <1>6 DEF Surjection
<1> QED BY <1>1, <1>3, <1>7 DEF f, n

\* The lines a batch is made of.
LEMMA LineOfLabel ==
  ASSUME LoopTypeOK, NEW i \in Ids, NEW l \in Passing(feedback[i])
  PROVE  /\ Line(i, l) \in Lines
         /\ Line(i, l).torn = FALSE /\ Line(i, l).id = i /\ Line(i, l).label = l
<1>1. Line(i, l) = [id |-> i, label |-> l, status |-> "pending", torn |-> FALSE]
  BY DEF Line
<1>2. l \in UNION {Passing(feedback[j]) : j \in Ids}
  OBVIOUS
<1> QED BY <1>1, <1>2 DEF Lines

LEMMA LineCutShort ==
  ASSUME NEW l \in Lines, NEW b \in BOOLEAN
  PROVE  [l EXCEPT !.torn = b] \in Lines /\ [l EXCEPT !.torn = b].torn = b
<1> DEFINE labels == UNION {Passing(feedback[j]) : j \in Ids}
<1>1. l \in [id : Ids, label : labels, status : {"pending", "reviewed"}, torn : BOOLEAN]
  BY DEF Lines
<1> HIDE DEF labels
<1>2. /\ [l EXCEPT !.torn = b] \in
           [id : Ids, label : labels, status : {"pending", "reviewed"}, torn : BOOLEAN]
      /\ [l EXCEPT !.torn = b].torn = b
  BY <1>1
<1> QED BY <1>2 DEF labels, Lines

\* Lines added at the end leave the others where they are.
LEMMA Appended ==
  ASSUME text \in Seq(Lines), NEW new \in Seq(Lines), text' = text \o new
  PROVE  /\ text' \in Seq(Lines) /\ Len(text') = Len(text) + Len(new) /\ Len(new) \in Nat
         /\ DOMAIN text' = 1 .. Len(text) + Len(new)
         /\ \A j \in 1 .. Len(text) : text'[j] = text[j]
         /\ \A k \in 1 .. Len(new) : text'[Len(text) + k] = new[k]
<1>1. Len(text) \in Nat /\ Len(new) \in Nat
  BY LenProperties
<1>2. /\ text' \in Seq(Lines) /\ Len(text') = Len(text) + Len(new)
      /\ \A j \in 1 .. Len(text) + Len(new) :
           text'[j] = IF j <= Len(text) THEN text[j] ELSE new[j - Len(text)]
  BY ConcatProperties
<1>3. DOMAIN text' = 1 .. Len(text')
  BY <1>2, LenProperties
<1>4. \A j \in 1 .. Len(text) : text'[j] = text[j]
  BY <1>1, <1>2
<1>5. \A k \in 1 .. Len(new) : text'[Len(text) + k] = new[k]
  <2> TAKE k \in 1 .. Len(new)
  <2>1. /\ Len(text) + k \in 1 .. Len(text) + Len(new) /\ ~(Len(text) + k <= Len(text))
        /\ (Len(text) + k) - Len(text) = k
    BY <1>1
  <2> QED BY <1>2, <2>1
<1> QED BY <1>1, <1>2, <1>3, <1>4, <1>5

\* Lines that are reviewed and can be read stay so.
LEMMA CountsGrow ==
  ASSUME text \in Seq(Lines), text' \in Seq(Lines),
         \A j \in ReadableLines : /\ j \in ReadableLines' /\ text'[j].label = text[j].label
                                  /\ text[j].status = "reviewed" => text'[j].status = "reviewed"
  PROVE  \A c \in Categories : CountByCategory(c) <= CountByCategory(c)'
<1> TAKE c \in Categories
<1> DEFINE before == {j \in ReadableLines : text[j].label.category = c /\ text[j].status = "reviewed"}
           after == {j \in ReadableLines' : text'[j].label.category = c /\ text'[j].status = "reviewed"}
<1>1. before \in SUBSET after
  OBVIOUS
<1>2. DOMAIN text' = 1 .. Len(text') /\ Len(text') \in Nat
  BY LenProperties
<1>3. IsFiniteSet(after)
  <2> DEFINE n == Len(text')
  <2> HIDE DEF n
  <2>1. IsFiniteSet(1 .. n)
    <3>1. 1 \in Int /\ n \in Int
      BY <1>2 DEF n
    <3> QED BY <3>1, FS_Interval
  <2>2. after \in SUBSET (1 .. n)
    BY <1>2 DEF ReadableLines, n
  <2> QED BY <2>1, <2>2, FS_Subset
<1>4. CountByCategory(c) = Cardinality(before) /\ CountByCategory(c)' = Cardinality(after)
  BY DEF CountByCategory
<1> QED BY <1>1, <1>3, <1>4, FS_Subset

LEMMA CountsAreNumbers ==
  ASSUME text \in Seq(Lines)
  PROVE  \A c \in Categories : CountByCategory(c) \in Nat
<1> TAKE c \in Categories
<1> DEFINE counted == {j \in ReadableLines : text[j].label.category = c /\ text[j].status = "reviewed"}
<1>1. counted \in SUBSET DOMAIN text
  BY DEF ReadableLines
<1>2. IsFiniteSet(counted)
  BY <1>1, LinesOfText, FS_Subset
<1>3. CountByCategory(c) = Cardinality(counted)
  BY DEF CountByCategory
<1> QED BY <1>2, <1>3, FS_CardinalityType

\* What is appended to the file takes nothing from it.
LEMMA AppendKeeps ==
  ASSUME text \in Seq(Lines), NEW new \in Seq(Lines), text' = text \o new
  PROVE  /\ text' \in Seq(Lines)
         /\ \A p : OnFile(p) => OnFile(p)'
         /\ \A c \in Categories : CountByCategory(c) <= CountByCategory(c)'
<1>1. /\ text' \in Seq(Lines) /\ DOMAIN text' = 1 .. Len(text) + Len(new)
      /\ \A j \in 1 .. Len(text) : text'[j] = text[j]
      /\ Len(new) \in Nat /\ Len(text) \in Nat /\ DOMAIN text = 1 .. Len(text)
  BY Appended, LinesOfText
<1>2. DOMAIN text \subseteq DOMAIN text'
  BY <1>1
<1>3. \A p : OnFile(p) => OnFile(p)'
  BY <1>1, <1>2 DEF OnFile, Pair
<1>4. \A j \in ReadableLines : j \in ReadableLines' /\ text'[j] = text[j]
  <2> TAKE j \in ReadableLines
  <2>1. j \in 1 .. Len(text) /\ (j > 1 => j - 1 \in 1 .. Len(text))
    BY <1>1 DEF ReadableLines
  <2> QED BY <1>1, <1>2, <2>1 DEF ReadableLines, Readable
<1>5. \A c \in Categories : CountByCategory(c) <= CountByCategory(c)'
  BY <1>1, <1>4, CountsGrow
<1> QED BY <1>1, <1>3, <1>5

\* The books, when some labels go off the file.
LEMMA BooksFollow ==
  ASSUME Books, LoopTypeOK, NEW G, IsFiniteSet(G), Off' \subseteq Off \cup G, cut' \in Nat,
         cut + Cardinality(G) <= cut'
  PROVE  IsFiniteSet(Off') /\ Cardinality(Off') <= cut'
<1>1. /\ IsFiniteSet(Off \cup G) /\ IsFiniteSet(Off \cap G)
      /\ Cardinality(Off \cup G) = Cardinality(Off) + Cardinality(G) - Cardinality(Off \cap G)
  <2>1. Off \cap G \in SUBSET Off
    OBVIOUS
  <2> QED BY <2>1, FS_Union, FS_Subset DEF Books
<1>2. /\ Cardinality(Off) \in Nat /\ Cardinality(G) \in Nat /\ Cardinality(Off \cap G) \in Nat
  BY <1>1, FS_CardinalityType DEF Books
<1>3. IsFiniteSet(Off') /\ Cardinality(Off') <= Cardinality(Off \cup G)
  BY <1>1, FS_Subset
<1>4. Cardinality(Off') \in Nat
  BY <1>3, FS_CardinalityType
<1> QED BY <1>1, <1>2, <1>3, <1>4 DEF Books, LoopTypeOK

LEMMA SameFeedback ==
  ASSUME feedback' = feedback
  PROVE  Ids' = Ids /\ Lines' = Lines
BY DEF Ids, Lines

\* A step that leaves the file alone and lets no request pass its write.
LEMMA FileStands ==
  ASSUME LoopInv, feedback' = feedback, UNCHANGED queueVars,
         pc' \in [Ids -> {"new", "failed", "write", "check", "emit", "acked"}],
         \A i \in Ids : pc'[i] \in Queued => pc[i] \in Queued
  PROVE  /\ Books' /\ text' = text /\ tears' = tears /\ cut' = cut
         /\ \A c \in Categories : CountByCategory(c)' = CountByCategory(c)
<1>1. text' = text /\ tears' = tears /\ cut' = cut
  BY DEF queueVars
<1>2. \A p : OnFile(p)' <=> OnFile(p)
  BY <1>1 DEF OnFile, Pair
<1>3. Written' \subseteq Written
  BY SameFeedback DEF Written
<1>4. Off' \subseteq Off \cup {}
  BY <1>2, <1>3 DEF Off
<1>5. IsFiniteSet(Off') /\ Cardinality(Off') <= cut'
  <2>1. IsFiniteSet({}) /\ Cardinality({}) = 0
    BY FS_EmptySet
  <2>2. cut' \in Nat /\ cut + Cardinality({}) <= cut'
    BY <1>1, <2>1 DEF LoopInv, LoopTypeOK
  <2> QED BY <1>4, <2>1, <2>2, BooksFollow DEF LoopInv
<1>6. TornLines' = TornLines
  BY <1>1 DEF TornLines
<1>7. \A c \in Categories : CountByCategory(c)' = CountByCategory(c)
  BY <1>1 DEF CountByCategory, ReadableLines, Readable
<1> QED BY <1>1, <1>5, <1>6, <1>7 DEF LoopInv, Books
LEMMA LoopStarts == LoopInit => LoopInv
<1> SUFFICES ASSUME LoopInit PROVE LoopInv
  OBVIOUS
<1>1. /\ feedback \in Mixes /\ text = <<>> /\ tears = 0 /\ cut = 0
      /\ pc = [i \in Ids |-> "new"] /\ at = [i \in Ids |-> None]
      /\ counts = [i \in Ids |-> None] /\ receipt = [i \in Ids |-> None]
  BY DEF LoopInit, QueueInit
<1>2. <<>> \in Seq(Lines) /\ DOMAIN <<>> = {}
  BY EmptySeq
<1>3. LoopTypeOK
  BY <1>1, <1>2 DEF LoopTypeOK
<1>4. Written = {}
  BY <1>1 DEF Written, Queued
<1>5. Off = {} /\ TornLines = {}
  BY <1>1, <1>2, <1>4 DEF Off, TornLines
<1>6. Books
  BY <1>1, <1>5, FS_EmptySet DEF Books
<1>7. CountsHold /\ Receipts
  BY <1>1 DEF CountsHold, Receipts
<1> QED BY <1>3, <1>6, <1>7 DEF LoopInv

LEMMA BeginStep ==
  ASSUME LoopInv, NEW i \in Ids, NEW w \in Workers, Begin(i, w)
  PROVE  LoopInv'
<1>1. /\ pc[i] \in {"new", "failed"} /\ pc' = [pc EXCEPT ![i] = "write"]
      /\ at' = [at EXCEPT ![i] = w] /\ UNCHANGED queueVars
      /\ feedback' = feedback /\ counts' = counts /\ receipt' = receipt
  BY DEF Begin
<1>2. /\ pc' \in [Ids -> {"new", "failed", "write", "check", "emit", "acked"}]
      /\ at' \in [Ids -> Workers \cup {None}]
      /\ pc'[i] = "write" /\ at'[i] = w
      /\ \A j \in Ids \ {i} : pc'[j] = pc[j] /\ at'[j] = at[j]
  BY <1>1 DEF LoopInv, LoopTypeOK
<1>3. /\ Books' /\ text' = text /\ tears' = tears /\ cut' = cut
      /\ \A c \in Categories : CountByCategory(c)' = CountByCategory(c)
  <2>1. \A j \in Ids : pc'[j] \in Queued => pc[j] \in Queued
    BY <1>2 DEF Queued
  <2> QED BY <1>1, <1>2, <2>1, FileStands
<1>4. LoopTypeOK'
  BY <1>1, <1>2, <1>3, SameFeedback DEF LoopInv, LoopTypeOK
<1>5. CountsHold'
  BY <1>1, <1>2, <1>3, SameFeedback DEF LoopInv, CountsHold
<1>6. Receipts'
  BY <1>1, <1>2, SameFeedback DEF LoopInv, Receipts
<1> QED BY <1>3, <1>4, <1>5, <1>6 DEF LoopInv

\* A batch that went through is on the file.
LEMMA BatchIsOnFile ==
  ASSUME LoopInv, NEW i \in Ids, EnqueueMany(i, Passing(feedback[i]))
  PROVE  /\ text' \in Seq(Lines) /\ tears' = tears /\ cut' = cut
         /\ \A p : OnFile(p) => OnFile(p)'
         /\ \A l \in Passing(feedback[i]) : OnFile(<<i, l>>)'
         /\ TornLines' = TornLines
         /\ \A c \in Categories : CountByCategory(c) <= CountByCategory(c)'
<1> DEFINE labels == Passing(feedback[i])
           new == [k \in 1 .. Cardinality(labels) |-> Line(i, SetToSeq(labels)[k])]
<1>1. text' = text \o new /\ tears' = tears /\ cut' = cut
  BY DEF EnqueueMany
<1>2. /\ Cardinality(labels) \in Nat
      /\ \A k \in 1 .. Cardinality(labels) : SetToSeq(labels)[k] \in labels
      /\ \A l \in labels : \E k \in 1 .. Cardinality(labels) : SetToSeq(labels)[k] = l
  BY LegalIds, SequenceOfSet DEF LoopInv
<1>3. \A k \in 1 .. Cardinality(labels) :
        /\ new[k] \in Lines /\ new[k].torn = FALSE
        /\ new[k].id = i /\ new[k].label = SetToSeq(labels)[k]
  <2> SUFFICES ASSUME NEW k \in 1 .. Cardinality(labels)
               PROVE  /\ new[k] \in Lines /\ new[k].torn = FALSE
                      /\ new[k].id = i /\ new[k].label = SetToSeq(labels)[k]
    OBVIOUS
  <2> DEFINE l == SetToSeq(labels)[k]
  <2>1. l \in Passing(feedback[i]) /\ new[k] = Line(i, l)
    BY <1>2
  <2> HIDE DEF l, new
  <2>2. Line(i, l) \in Lines /\ Line(i, l).torn = FALSE /\ Line(i, l).id = i /\ Line(i, l).label = l
    BY <2>1, LineOfLabel DEF LoopInv
  <2> QED BY <2>1, <2>2 DEF l
<1>4. new \in Seq(Lines) /\ Len(new) = Cardinality(labels)
  BY <1>2, <1>3, IsASeq
<1> HIDE DEF new
<1>5. /\ text' \in Seq(Lines) /\ DOMAIN text' = 1 .. Len(text) + Len(new)
      /\ \A j \in 1 .. Len(text) : text'[j] = text[j]
      /\ \A k \in 1 .. Len(new) : text'[Len(text) + k] = new[k]
      /\ Len(text) \in Nat /\ DOMAIN text = 1 .. Len(text)
  BY <1>1, <1>4, Appended, LinesOfText DEF LoopInv, LoopTypeOK
<1>6. /\ \A p : OnFile(p) => OnFile(p)'
      /\ \A c \in Categories : CountByCategory(c) <= CountByCategory(c)'
  BY <1>1, <1>4, AppendKeeps DEF LoopInv, LoopTypeOK
<1>7. \A l \in labels : OnFile(<<i, l>>)'
  <2> SUFFICES ASSUME NEW l \in labels PROVE OnFile(<<i, l>>)'
    OBVIOUS
  <2>1. PICK k \in 1 .. Cardinality(labels) : SetToSeq(labels)[k] = l
    BY <1>2
  <2>2. Len(text) + k \in DOMAIN text' /\ text'[Len(text) + k] = new[k]
    BY <1>2, <1>4, <1>5
  <2>3. text'[Len(text) + k].torn = FALSE /\ text'[Len(text) + k].id = i
        /\ text'[Len(text) + k].label = l
    BY <1>3, <2>1, <2>2
  <2> QED BY <2>2, <2>3 DEF OnFile, Pair
<1>8. TornLines' = TornLines
  <2>1. \A j \in 1 .. Len(text) + Len(new) :
          j \in 1 .. Len(text) \/ (j - Len(text) \in 1 .. Len(new) /\ j = Len(text) + (j - Len(text)))
    BY <1>2, <1>4, <1>5
  <2>2. \A j \in DOMAIN text' : j \in 1 .. Len(text) \/ text'[j].torn = FALSE
    BY <1>3, <1>4, <1>5, <2>1
  <2>3. \A j \in 1 .. Len(text) : j \in DOMAIN text'
    BY <1>2, <1>4, <1>5
  <2> QED BY <1>5, <2>2, <2>3 DEF TornLines
<1> QED BY <1>1, <1>5, <1>6, <1>7, <1>8

\* One that did not breaks off one line at most.
LEMMA TornBatch ==
  ASSUME LoopInv, NEW i \in Ids, EnqueueTears(i, Passing(feedback[i]))
  PROVE  /\ text' \in Seq(Lines) /\ tears' = tears + 1 /\ cut' = cut
         /\ \A p : OnFile(p) => OnFile(p)'
         /\ Cardinality(TornLines') <= Cardinality(TornLines) + 1
         /\ \A c \in Categories : CountByCategory(c) <= CountByCategory(c)'
<1> DEFINE labels == Passing(feedback[i])
           Out(n) == [k \in 1 .. n + 1 |-> [Line(i, SetToSeq(labels)[k]) EXCEPT !.torn = k = n + 1]]
           New(n, torn) == IF torn THEN Out(n) ELSE SubSeq(Out(n), 1, n)
<1>1. PICK n \in 0 .. Cardinality(labels) - 1 : \E torn \in BOOLEAN : text' = text \o New(n, torn)
  BY DEF EnqueueTears
<1>2. PICK torn \in BOOLEAN : text' = text \o New(n, torn)
  BY <1>1
<1>3. tears' = tears + 1 /\ cut' = cut
  BY DEF EnqueueTears
<1>4. /\ Cardinality(labels) \in Nat /\ n \in Nat
      /\ \A k \in 1 .. n + 1 : SetToSeq(labels)[k] \in labels
  <2>1. /\ Cardinality(labels) \in Nat
        /\ \A k \in 1 .. Cardinality(labels) : SetToSeq(labels)[k] \in labels
    BY LegalIds, SequenceOfSet DEF LoopInv
  <2> QED BY <2>1
<1> DEFINE out == Out(n)
<1>5. \A k \in 1 .. n + 1 : out[k] \in Lines /\ out[k].torn = (k = n + 1)
  <2> SUFFICES ASSUME NEW k \in 1 .. n + 1
               PROVE  out[k] \in Lines /\ out[k].torn = (k = n + 1)
    OBVIOUS
  <2> DEFINE b == (k = n + 1)
             l == SetToSeq(labels)[k]
  <2>1. b \in BOOLEAN /\ l \in Passing(feedback[i]) /\ out[k] = [Line(i, l) EXCEPT !.torn = b]
    BY <1>4
  <2> HIDE DEF b, l, out
  <2>2. [Line(i, l) EXCEPT !.torn = b] \in Lines /\ [Line(i, l) EXCEPT !.torn = b].torn = b
    <3>1. Line(i, l) \in Lines
      BY <2>1, LineOfLabel DEF LoopInv
    <3> QED BY <2>1, <3>1, LineCutShort
  <2>3. out[k] \in Lines /\ out[k].torn = b
    BY <2>1, <2>2
  <2> QED BY <2>3 DEF b
<1>6. out \in Seq(Lines) /\ Len(out) = n + 1
  <2>1. out \in [1 .. n + 1 -> Lines]
    BY <1>5
  <2>2. n + 1 \in Nat
    BY <1>4
  <2> HIDE DEF out
  <2>3. out \in Seq(Lines)
    BY <2>1, <2>2, SeqDef
  <2>4. DOMAIN out = 1 .. n + 1 /\ DOMAIN out = 1 .. Len(out) /\ Len(out) \in Nat
    BY <2>1, <2>3, LenProperties
  <2> QED BY <2>2, <2>3, <2>4
<1> DEFINE new == New(n, torn)
<1>7. new = IF torn THEN out ELSE SubSeq(out, 1, n)
  OBVIOUS
<1>8. text' = text \o new
  BY <1>2
<1> HIDE DEF out, new
<1>9. /\ new \in Seq(Lines) /\ Len(new) \in {n, n + 1}
      /\ \A k \in 1 .. Len(new) : new[k].torn => k = n + 1
  <2>1. CASE torn
    BY <1>4, <1>5, <1>6, <1>7, <2>1
  <2>2. CASE ~torn
    <3>1. new = SubSeq(out, 1, n)
      BY <1>7, <2>2
    <3>2. \A k \in 1 .. n : out[k] \in Lines
      BY <1>4, <1>5
    <3>3. /\ SubSeq(out, 1, n) \in Seq(Lines) /\ Len(SubSeq(out, 1, n)) = n
          /\ \A k \in 1 .. n : SubSeq(out, 1, n)[k] = out[k]
      BY <1>4, <3>2, SubSeqProperties
    <3>4. \A k \in 1 .. n : k # n + 1 /\ k \in 1 .. n + 1
      BY <1>4
    <3>5. \A k \in 1 .. n : out[k].torn = FALSE
      BY <1>5, <3>4
    <3>6. \A k \in 1 .. n : new[k].torn = FALSE
      BY <3>1, <3>3, <3>5
    <3>7. new \in Seq(Lines) /\ Len(new) = n
      BY <3>1, <3>3
    <3> QED BY <3>6, <3>7
  <2> QED BY <2>1, <2>2
<1>10. /\ text' \in Seq(Lines) /\ DOMAIN text' = 1 .. Len(text) + Len(new)
       /\ \A j \in 1 .. Len(text) : text'[j] = text[j]
       /\ \A k \in 1 .. Len(new) : text'[Len(text) + k] = new[k]
       /\ Len(text) \in Nat /\ DOMAIN text = 1 .. Len(text) /\ IsFiniteSet(DOMAIN text)
  BY <1>8, <1>9, Appended, LinesOfText DEF LoopInv, LoopTypeOK
<1>11. /\ \A p : OnFile(p) => OnFile(p)'
       /\ \A c \in Categories : CountByCategory(c) <= CountByCategory(c)'
  BY <1>8, <1>9, AppendKeeps DEF LoopInv, LoopTypeOK
<1>12. TornLines' \subseteq TornLines \cup {Len(text) + (n + 1)}
  <2>1. \A j \in 1 .. Len(text) + Len(new) :
          j \in 1 .. Len(text) \/ (j - Len(text) \in 1 .. Len(new) /\ j = Len(text) + (j - Len(text)))
    BY <1>4, <1>9, <1>10
  <2>2. \A j \in DOMAIN text' : text'[j].torn => j \in TornLines \/ j = Len(text) + (n + 1)
    <3> SUFFICES ASSUME NEW j \in DOMAIN text', text'[j].torn
                 PROVE  j \in TornLines \/ j = Len(text) + (n + 1)
      OBVIOUS
    <3>1. CASE j \in 1 .. Len(text)
      BY <1>10, <3>1 DEF TornLines
    <3>2. CASE j \notin 1 .. Len(text)
      <4>1. j - Len(text) \in 1 .. Len(new) /\ j = Len(text) + (j - Len(text))
        BY <1>10, <2>1, <3>2
      <4>2. text'[j] = new[j - Len(text)]
        BY <1>10, <4>1
      <4> QED BY <1>9, <4>1, <4>2
    <3> QED BY <3>1, <3>2
  <2> QED BY <2>2 DEF TornLines
<1>13. Cardinality(TornLines') <= Cardinality(TornLines) + 1
  <2>1. IsFiniteSet(TornLines)
    BY <1>10, FS_Subset DEF TornLines
  <2> DEFINE x == Len(text) + (n + 1)
             torns == TornLines
  <2> HIDE DEF x, torns
  <2>2. /\ IsFiniteSet(TornLines \cup {x})
        /\ Cardinality(TornLines \cup {x}) <= Cardinality(TornLines) + 1
    <3>1. IsFiniteSet(torns) /\ Cardinality(torns) \in Nat
      BY <2>1, FS_CardinalityType DEF torns
    <3>2. /\ IsFiniteSet(torns \cup {x})
          /\ Cardinality(torns \cup {x}) = IF x \in torns THEN Cardinality(torns)
                                                         ELSE Cardinality(torns) + 1
      BY <3>1, FS_AddElement
    <3> QED BY <3>1, <3>2 DEF torns
  <2>3. Cardinality(TornLines') <= Cardinality(TornLines \cup {x})
    BY <1>12, <2>2, FS_Subset DEF x
  <2>4. /\ IsFiniteSet(TornLines') /\ Cardinality(TornLines') \in Nat
        /\ Cardinality(TornLines) \in Nat /\ Cardinality(TornLines \cup {x}) \in Nat
    BY <1>12, <2>1, <2>2, FS_Subset, FS_CardinalityType DEF x
  <2> QED BY <2>2, <2>3, <2>4
<1> QED BY <1>3, <1>10, <1>11, <1>13
LEMMA EnqueueStep ==
  ASSUME LoopInv, NEW i \in Ids, Enqueue(i)
  PROVE  LoopInv'
<1>1. pc[i] = "write" /\ feedback' = feedback /\ counts' = counts /\ receipt' = receipt
  BY DEF Enqueue
<1>2. Ids' = Ids /\ Lines' = Lines
  BY <1>1, SameFeedback
<1>3. CASE EnqueueMany(i, Passing(feedback[i])) /\ pc' = [pc EXCEPT ![i] = "check"] /\ at' = at
  <2>1. /\ text' \in Seq(Lines) /\ tears' = tears /\ cut' = cut
        /\ \A p : OnFile(p) => OnFile(p)'
        /\ \A l \in Passing(feedback[i]) : OnFile(<<i, l>>)'
        /\ TornLines' = TornLines
        /\ \A c \in Categories : CountByCategory(c) <= CountByCategory(c)'
    BY <1>3, BatchIsOnFile
  <2>2. /\ pc' \in [Ids -> {"new", "failed", "write", "check", "emit", "acked"}]
        /\ pc'[i] = "check" /\ \A j \in Ids \ {i} : pc'[j] = pc[j]
    BY <1>3 DEF LoopInv, LoopTypeOK
  <2>3. LoopTypeOK'
    BY <1>1, <1>2, <1>3, <2>1, <2>2 DEF LoopInv, LoopTypeOK
  <2>4. Off' \subseteq Off
    <3> SUFFICES ASSUME NEW p \in Off' PROVE p \in Off
      OBVIOUS
    <3>1. p \in Written' /\ ~OnFile(p)'
      BY DEF Off
    <3>2. PICK j \in Ids : p \in {j} \X Passing(feedback[j])
      BY <1>1, <1>2, <3>1 DEF Written
    <3>3. PICK l \in Passing(feedback[j]) : p = <<j, l>>
      BY <3>2
    <3>4. j # i
      BY <2>1, <3>1, <3>3
    <3>5. pc'[j] \in Queued
      BY <3>1, <3>3 DEF Written
    <3>6. p \in Written
      BY <2>2, <3>2, <3>3, <3>4, <3>5 DEF Written
    <3> QED BY <2>1, <3>1, <3>6 DEF Off
  <2>5. Books'
    <3>1. IsFiniteSet(Off') /\ Cardinality(Off') <= Cardinality(Off)
      BY <2>4, FS_Subset DEF LoopInv, Books
    <3>2. /\ Cardinality(Off') \in Nat /\ Cardinality(Off) \in Nat /\ cut \in Nat
      BY <3>1, FS_CardinalityType DEF LoopInv, Books, LoopTypeOK
    <3> QED BY <2>1, <3>1, <3>2 DEF LoopInv, Books
  <2>6. CountsHold'
    <3>1. \A c \in Categories : CountByCategory(c) \in Nat /\ CountByCategory(c)' \in Nat
      <4>1. text \in Seq(Lines)
        BY DEF LoopInv, LoopTypeOK
      <4>2. \A c \in Categories : CountByCategory(c) \in Nat
        BY <4>1, CountsAreNumbers
      <4>3. (text \in Seq(Lines) => \A c \in Categories : CountByCategory(c) \in Nat)'
        BY CountsAreNumbers, PTL
      <4> QED BY <1>2, <2>1, <4>2, <4>3
    <3>2. \A j \in Ids : pc'[j] = "emit" => pc[j] = "emit"
      BY <2>2
    <3> QED BY <1>1, <1>2, <2>1, <3>1, <3>2 DEF LoopInv, CountsHold
  <2>7. Receipts'
    BY <1>1, <1>2, <2>2 DEF LoopInv, Receipts
  <2> QED BY <2>3, <2>5, <2>6, <2>7 DEF LoopInv
<1>4. CASE EnqueueTears(i, Passing(feedback[i])) /\ Fail({i})
  <2>1. /\ text' \in Seq(Lines) /\ tears' = tears + 1 /\ cut' = cut
        /\ \A p : OnFile(p) => OnFile(p)'
        /\ Cardinality(TornLines') <= Cardinality(TornLines) + 1
        /\ \A c \in Categories : CountByCategory(c) <= CountByCategory(c)'
    BY <1>4, TornBatch
  <2>2. /\ pc' = [j \in Ids |-> IF j \in {i} THEN "failed" ELSE pc[j]]
        /\ at' = [j \in Ids |-> IF j \in {i} THEN None ELSE at[j]]
    BY <1>4 DEF Fail
  <2>3. /\ pc' \in [Ids -> {"new", "failed", "write", "check", "emit", "acked"}]
        /\ at' \in [Ids -> Workers \cup {None}]
        /\ pc'[i] = "failed" /\ \A j \in Ids \ {i} : pc'[j] = pc[j] /\ at'[j] = at[j]
    BY <2>2 DEF LoopInv, LoopTypeOK
  <2>4. LoopTypeOK'
    <3>1. tears' \in Nat /\ cut' \in Nat
      BY <2>1 DEF LoopInv, LoopTypeOK
    <3>2. text' \in Seq(Lines)'
      BY <1>2, <2>1
    <3>3. \A j \in Ids : pc'[j] \in {"write", "check", "emit"} => at'[j] \in Workers
      BY <2>3 DEF LoopInv, LoopTypeOK
    <3> QED BY <1>1, <1>2, <2>3, <3>1, <3>2, <3>3 DEF LoopInv, LoopTypeOK
  <2>5. Written' \subseteq Written
    BY <1>1, <1>2, <2>3 DEF Written, Queued
  <2>6. Off' \subseteq Off
    BY <2>1, <2>5 DEF Off
  <2>7. Books'
    <3>1. IsFiniteSet(Off') /\ Cardinality(Off') <= Cardinality(Off)
      BY <2>6, FS_Subset DEF LoopInv, Books
    <3>2. /\ Cardinality(Off') \in Nat /\ Cardinality(Off) \in Nat
          /\ cut \in Nat /\ tears \in Nat
      BY <3>1, FS_CardinalityType DEF LoopInv, Books, LoopTypeOK
    <3>3. /\ IsFiniteSet(TornLines) /\ Cardinality(TornLines) \in Nat
          /\ IsFiniteSet(TornLines') /\ Cardinality(TornLines') \in Nat
      <4>1. text \in Seq(Lines)
        BY DEF LoopInv, LoopTypeOK
      <4>2. TornLines \in SUBSET (1 .. Len(text)) /\ Len(text) \in Nat
        BY <4>1, LenProperties DEF TornLines
      <4>3. TornLines' \in SUBSET (1 .. Len(text')) /\ Len(text') \in Nat
        BY <2>1, LenProperties DEF TornLines
      <4>4. IsFiniteSet(1 .. Len(text)) /\ IsFiniteSet(1 .. Len(text'))
        BY <4>2, <4>3, FS_Interval
      <4>5. IsFiniteSet(TornLines)
        BY <4>2, <4>4, FS_Subset
      <4>6. IsFiniteSet(TornLines')
        BY <4>3, <4>4, FS_Subset
      <4> QED BY <4>5, <4>6, FS_CardinalityType
    <3> QED BY <2>1, <3>1, <3>2, <3>3 DEF LoopInv, Books
  <2>8. CountsHold'
    <3>1. \A c \in Categories : CountByCategory(c) \in Nat /\ CountByCategory(c)' \in Nat
      <4>1. text \in Seq(Lines)
        BY DEF LoopInv, LoopTypeOK
      <4>2. \A c \in Categories : CountByCategory(c) \in Nat
        BY <4>1, CountsAreNumbers
      <4>3. (text \in Seq(Lines) => \A c \in Categories : CountByCategory(c) \in Nat)'
        BY CountsAreNumbers, PTL
      <4> QED BY <1>2, <2>1, <4>2, <4>3
    <3>2. \A j \in Ids : pc'[j] = "emit" => pc[j] = "emit"
      BY <2>3
    <3> QED BY <1>1, <1>2, <2>1, <3>1, <3>2 DEF LoopInv, CountsHold
  <2>9. Receipts'
    BY <1>1, <1>2, <2>3 DEF LoopInv, Receipts
  <2> QED BY <2>4, <2>7, <2>8, <2>9 DEF LoopInv
<1> QED BY <1>3, <1>4 DEF Enqueue

\* A receipt is two numbers.
LEMMA ReceiptsAreNumbers ==
  ASSUME LoopTypeOK, NEW i \in Ids
  PROVE  Receipt(feedback[i]) \in [labels : Nat, hard : Nat]
<1> DEFINE P == Passing(feedback[i])
           pos == {l \in P : l.source \in Positive}
           hard == {l \in P : l.source = "hard_negative"}
<1>1. IsFiniteSet(P)
  BY LegalIds
<1>2. IsFiniteSet(pos) /\ IsFiniteSet(hard)
  BY <1>1, FS_Subset
<1>3. Cardinality(pos) \in Nat /\ Cardinality(hard) \in Nat
  BY <1>2, FS_CardinalityType
<1> QED BY <1>3 DEF Receipt

\* A feedback is acknowledged with its receipt.
LEMMA AcknowledgeKeeps ==
  ASSUME LoopInv, NEW i \in Ids, pc[i] \in {"check", "emit"}, Acknowledge(i),
         feedback' = feedback, UNCHANGED queueVars,
         counts' \in [Ids -> [Categories -> Nat] \cup {None}],
         \A j \in Ids \ {i} : counts'[j] = counts[j]
  PROVE  LoopInv'
<1>1. /\ pc' = [pc EXCEPT ![i] = "acked"] /\ at' = [at EXCEPT ![i] = None]
      /\ receipt' = [receipt EXCEPT ![i] = Receipt(feedback[i])]
  BY DEF Acknowledge
<1>2. /\ pc' \in [Ids -> {"new", "failed", "write", "check", "emit", "acked"}]
      /\ at' \in [Ids -> Workers \cup {None}]
      /\ pc'[i] = "acked" /\ \A j \in Ids \ {i} : pc'[j] = pc[j] /\ at'[j] = at[j]
  BY <1>1 DEF LoopInv, LoopTypeOK
<1>3. /\ receipt' \in [Ids -> [labels : Nat, hard : Nat] \cup {None}]
      /\ receipt'[i] = Receipt(feedback[i])
      /\ \A j \in Ids \ {i} : receipt'[j] = receipt[j]
  <2>1. Receipt(feedback[i]) \in [labels : Nat, hard : Nat]
    BY ReceiptsAreNumbers DEF LoopInv
  <2> QED BY <1>1, <2>1 DEF LoopInv, LoopTypeOK
<1>4. /\ Books' /\ text' = text /\ tears' = tears /\ cut' = cut
      /\ \A c \in Categories : CountByCategory(c)' = CountByCategory(c)
  <2>1. \A j \in Ids : pc'[j] \in Queued => pc[j] \in Queued
    BY <1>2 DEF Queued
  <2> QED BY <1>2, <2>1, FileStands
<1>5. LoopTypeOK'
  BY <1>2, <1>3, <1>4, SameFeedback DEF LoopInv, LoopTypeOK
<1>6. CountsHold'
  BY <1>2, <1>4, SameFeedback DEF LoopInv, CountsHold
<1>7. Receipts'
  BY <1>2, <1>3, SameFeedback DEF LoopInv, Receipts
<1> QED BY <1>4, <1>5, <1>6, <1>7 DEF LoopInv

LEMMA CheckStep ==
  ASSUME LoopInv, NEW i \in Ids, Check(i)
  PROVE  LoopInv'
<1>1. pc[i] = "check" /\ UNCHANGED queueVars /\ feedback' = feedback
  BY DEF Check
<1>2. CASE Acknowledge(i) /\ counts' = counts
  BY <1>1, <1>2, AcknowledgeKeeps DEF LoopInv, LoopTypeOK
<1>3. CASE /\ pc' = [pc EXCEPT ![i] = "emit"] /\ counts' = [counts EXCEPT ![i] = Counts]
           /\ at' = at /\ receipt' = receipt
  <2>1. Counts \in [Categories -> Nat] /\ \A c \in Categories : Counts[c] = CountByCategory(c)
    BY CountsAreNumbers DEF Counts, LoopInv, LoopTypeOK
  <2>2. /\ pc' \in [Ids -> {"new", "failed", "write", "check", "emit", "acked"}]
        /\ pc'[i] = "emit" /\ \A j \in Ids \ {i} : pc'[j] = pc[j]
    BY <1>3 DEF LoopInv, LoopTypeOK
  <2>3. /\ counts' \in [Ids -> [Categories -> Nat] \cup {None}]
        /\ counts'[i] = Counts /\ \A j \in Ids \ {i} : counts'[j] = counts[j]
    BY <1>3, <2>1 DEF LoopInv, LoopTypeOK
  <2>4. /\ Books' /\ text' = text /\ tears' = tears /\ cut' = cut
        /\ \A c \in Categories : CountByCategory(c)' = CountByCategory(c)
    <3>1. \A j \in Ids : pc'[j] \in Queued => pc[j] \in Queued
      BY <1>1, <2>2 DEF Queued
    <3> QED BY <1>1, <2>2, <3>1, FileStands
  <2>5. LoopTypeOK'
    BY <1>1, <1>3, <2>2, <2>3, <2>4, SameFeedback DEF LoopInv, LoopTypeOK
  <2>6. CountsHold'
    <3>1. \A c \in Categories : CountByCategory(c) <= CountByCategory(c)
      BY CountsAreNumbers DEF LoopInv, LoopTypeOK
    <3>2. Ids' = Ids
      BY <1>1, SameFeedback
    <3>3. \A j \in Ids : pc'[j] = "emit" =>
            /\ counts'[j] \in [Categories -> Nat]
            /\ \A c \in Categories : counts'[j][c] <= CountByCategory(c)
      BY <2>1, <2>2, <2>3, <3>1 DEF LoopInv, CountsHold
    <3> QED BY <2>4, <3>2, <3>3 DEF CountsHold
  <2>7. Receipts'
    BY <1>1, <1>3, <2>2, SameFeedback DEF LoopInv, Receipts
  <2> QED BY <2>4, <2>5, <2>6, <2>7 DEF LoopInv
<1> QED BY <1>2, <1>3 DEF Check

LEMMA EmitStep ==
  ASSUME LoopInv, NEW i \in Ids, Emit(i)
  PROVE  LoopInv'
<1>1. /\ pc[i] = "emit" /\ UNCHANGED queueVars /\ feedback' = feedback
      /\ Acknowledge(i) /\ counts' = [counts EXCEPT ![i] = None]
  BY DEF Emit
<1>2. /\ counts' \in [Ids -> [Categories -> Nat] \cup {None}]
      /\ \A j \in Ids \ {i} : counts'[j] = counts[j]
  BY <1>1 DEF LoopInv, LoopTypeOK
<1> QED BY <1>1, <1>2, AcknowledgeKeeps

\* A worker dies; the file stands.
LEMMA WorkerDies ==
  ASSUME LoopInv, NEW W \in SUBSET Workers, Restart(W)
  PROVE  /\ feedback' = feedback /\ receipt' = receipt
         /\ pc' \in [Ids -> {"new", "failed", "write", "check", "emit", "acked"}]
         /\ at' \in [Ids -> Workers \cup {None}]
         /\ counts' \in [Ids -> [Categories -> Nat] \cup {None}]
         /\ \A j \in Ids : at[j] \in W => pc'[j] = "failed"
         /\ \A j \in Ids : at[j] \notin W =>
              pc'[j] = pc[j] /\ at'[j] = at[j] /\ counts'[j] = counts[j]
<1> DEFINE died == {j \in Ids : at[j] \in W}
<1>1. /\ feedback' = feedback /\ receipt' = receipt
      /\ pc' = [j \in Ids |-> IF j \in died THEN "failed" ELSE pc[j]]
      /\ at' = [j \in Ids |-> IF j \in died THEN None ELSE at[j]]
      /\ counts' = [j \in Ids |-> IF j \in died THEN None ELSE counts[j]]
  BY DEF Restart, Fail
<1>2. /\ pc \in [Ids -> {"new", "failed", "write", "check", "emit", "acked"}]
      /\ at \in [Ids -> Workers \cup {None}]
      /\ counts \in [Ids -> [Categories -> Nat] \cup {None}]
  BY DEF LoopInv, LoopTypeOK
<1>3. \A j \in Ids : j \in died <=> at[j] \in W
  OBVIOUS
<1> HIDE DEF died
<1> QED BY <1>1, <1>2, <1>3

LEMMA CrashKeeps ==
  ASSUME LoopInv, NEW w \in Workers, Crash(w)
  PROVE  LoopInv'
<1>1. Restart({w}) /\ UNCHANGED queueVars
  BY DEF Crash
<1>2. /\ feedback' = feedback /\ receipt' = receipt
      /\ pc' \in [Ids -> {"new", "failed", "write", "check", "emit", "acked"}]
      /\ at' \in [Ids -> Workers \cup {None}]
      /\ counts' \in [Ids -> [Categories -> Nat] \cup {None}]
      /\ \A j \in Ids : at[j] \in {w} => pc'[j] = "failed"
      /\ \A j \in Ids : at[j] \notin {w} =>
           pc'[j] = pc[j] /\ at'[j] = at[j] /\ counts'[j] = counts[j]
  <2>1. {w} \in SUBSET Workers
    OBVIOUS
  <2> QED BY <1>1, <2>1, WorkerDies
<1>3. \A j \in Ids : pc'[j] = "failed" \/ (pc'[j] = pc[j] /\ at'[j] = at[j] /\ counts'[j] = counts[j])
  BY <1>2
<1>4. /\ Books' /\ text' = text /\ tears' = tears /\ cut' = cut
      /\ \A c \in Categories : CountByCategory(c)' = CountByCategory(c)
  <2>1. \A j \in Ids : pc'[j] \in Queued => pc[j] \in Queued
    BY <1>3 DEF Queued
  <2> QED BY <1>1, <1>2, <2>1, FileStands
<1>5. LoopTypeOK'
  BY <1>2, <1>3, <1>4, SameFeedback DEF LoopInv, LoopTypeOK
<1>6. CountsHold'
  BY <1>2, <1>3, <1>4, SameFeedback DEF LoopInv, CountsHold
<1>7. Receipts'
  BY <1>2, <1>3, SameFeedback DEF LoopInv, Receipts
<1> QED BY <1>4, <1>5, <1>6, <1>7 DEF LoopInv

\* A power cut takes the end of the file and every request under way.
LEMMA PowerCutKeeps ==
  ASSUME LoopInv, LosePower
  PROVE  LoopInv'
<1>1. PowerCut /\ Restart(Workers)
  BY DEF LosePower
<1>2. /\ feedback' = feedback /\ receipt' = receipt
      /\ pc' \in [Ids -> {"new", "failed", "write", "check", "emit", "acked"}]
      /\ at' \in [Ids -> Workers \cup {None}]
      /\ counts' \in [Ids -> [Categories -> Nat] \cup {None}]
      /\ \A j \in Ids : at[j] \in Workers => pc'[j] = "failed"
      /\ \A j \in Ids : at[j] \notin Workers =>
           pc'[j] = pc[j] /\ at'[j] = at[j] /\ counts'[j] = counts[j]
  BY <1>1, WorkerDies
<1>3. PICK n \in 0 .. Len(text) : /\ text' = SubSeq(text, 1, n) /\ cut' = cut + Len(text) - n
                                  /\ tears' = tears
  BY <1>1 DEF PowerCut
<1>4. /\ text \in Seq(Lines) /\ Len(text) \in Nat /\ DOMAIN text = 1 .. Len(text)
      /\ cut \in Nat /\ tears \in Nat
      /\ \A j \in 1 .. Len(text) : text[j] \in Lines
  BY LinesOfText DEF LoopInv, LoopTypeOK
<1>5. /\ text' \in Seq(Lines) /\ DOMAIN text' = 1 .. n
      /\ \A j \in 1 .. n : text'[j] = text[j]
  <2>1. /\ SubSeq(text, 1, n) \in Seq(Lines) /\ Len(SubSeq(text, 1, n)) = n
        /\ \A j \in 1 .. n : SubSeq(text, 1, n)[j] = text[j]
    <3>1. \A j \in 1 .. n : text[j] \in Lines
      BY <1>4
    <3> QED BY <1>4, <3>1, SubSeqProperties
  <2>2. DOMAIN text' = 1 .. Len(text')
    BY <1>3, <2>1, LenProperties
  <2> QED BY <1>3, <2>1, <2>2
<1>6. \A j \in Ids : pc'[j] \notin {"write", "check", "emit"}
  BY <1>2 DEF LoopInv, LoopTypeOK
<1>7. LoopTypeOK'
  <2>1. cut' \in Nat
    BY <1>3, <1>4
  <2> QED BY <1>2, <1>3, <1>4, <1>5, <1>6, <2>1, SameFeedback DEF LoopTypeOK, LoopInv
<1> DEFINE at_ == [j \in n + 1 .. Len(text) |-> Pair(j)]
           G == {at_[j] : j \in n + 1 .. Len(text)}
<1>8. IsFiniteSet(G) /\ Cardinality(G) \in Nat /\ Cardinality(G) <= Len(text) - n
  <2>1. IsFiniteSet(n + 1 .. Len(text)) /\ Cardinality(n + 1 .. Len(text)) <= Len(text) - n
    <3> DEFINE a == n + 1
               b == Len(text)
    <3>1. a \in Int /\ b \in Int /\ n \in Nat /\ a = n + 1 /\ n <= b
      BY <1>4
    <3> HIDE DEF a, b
    <3>2. IsFiniteSet(a .. b) /\ Cardinality(a .. b) = IF a > b THEN 0 ELSE b - a + 1
      BY <3>1, FS_Interval
    <3>3. Cardinality(a .. b) <= b - n
      BY <3>1, <3>2
    <3> QED BY <3>2, <3>3 DEF a, b
  <2>2. DOMAIN at_ = n + 1 .. Len(text)
    OBVIOUS
  <2>3. Cardinality(n + 1 .. Len(text)) \in Nat
    BY <2>1, FS_CardinalityType
  <2> HIDE DEF at_
  <2>4. /\ IsFiniteSet(G) /\ Cardinality(G) \in Nat
        /\ Cardinality(G) <= Cardinality(n + 1 .. Len(text))
    BY <2>1, <2>2, ImageOf
  <2> HIDE DEF G
  <2> QED BY <1>4, <2>1, <2>3, <2>4
<1>9. Off' \subseteq Off \cup G
  <2> SUFFICES ASSUME NEW p \in Off', p \notin G PROVE p \in Off
    OBVIOUS
  <2>1. p \in Written' /\ ~OnFile(p)'
    BY DEF Off
  <2>2. \A j \in Ids : pc'[j] \in Queued => pc[j] \in Queued
    BY <1>2 DEF Queued
  <2>3. p \in Written
    BY <1>2, <2>1, <2>2, SameFeedback DEF Written
  <2>4. ~OnFile(p)
    <3> SUFFICES ASSUME NEW j \in DOMAIN text, ~text[j].torn, Pair(j) = p PROVE FALSE
      BY DEF OnFile
    <3>1. CASE j \in 1 .. n
      BY <1>5, <2>1, <3>1 DEF OnFile, Pair
    <3>2. CASE j \in n + 1 .. Len(text)
      BY <3>2
    <3> QED BY <1>4, <3>1, <3>2
  <2> QED BY <2>3, <2>4 DEF Off
<1> HIDE DEF G
<1>10. Books'
  <2>1. IsFiniteSet(Off') /\ Cardinality(Off') <= cut'
    <3>1. cut' \in Nat /\ cut + Cardinality(G) <= cut'
      BY <1>3, <1>4, <1>8
    <3> QED BY <1>8, <1>9, <3>1, BooksFollow DEF LoopInv
  <2>2. TornLines' \subseteq TornLines /\ IsFiniteSet(TornLines)
    <3>1. \A j \in 1 .. n : j \in 1 .. Len(text)
      BY <1>4
    <3>2. IsFiniteSet(DOMAIN text) /\ TornLines \in SUBSET DOMAIN text
      BY <1>4, LinesOfText DEF TornLines
    <3>3. IsFiniteSet(TornLines)
      BY <3>2, FS_Subset
    <3> QED BY <1>4, <1>5, <3>1, <3>3 DEF TornLines
  <2>3. /\ Cardinality(TornLines') <= Cardinality(TornLines)
        /\ Cardinality(TornLines') \in Nat /\ Cardinality(TornLines) \in Nat
    BY <2>2, FS_Subset, FS_CardinalityType
  <2> QED BY <1>3, <1>4, <2>1, <2>3 DEF Books, LoopInv
<1>11. CountsHold'
  BY <1>2, <1>6, SameFeedback DEF CountsHold
<1>12. Receipts'
  BY <1>2, SameFeedback DEF LoopInv, Receipts
<1> QED BY <1>7, <1>10, <1>11, <1>12 DEF LoopInv

\* The annotator settles the status of a line that can be read.
LEMMA ReviewStep ==
  ASSUME LoopInv, Review
  PROVE  LoopInv'
<1>1. PICK i \in ReadableLines : Annotate(i, "reviewed")
  BY DEF Review
<1>2. /\ text[i].status = "pending" /\ text' = [text EXCEPT ![i].status = "reviewed"]
      /\ tears' = tears /\ cut' = cut
  BY <1>1 DEF Annotate
<1>3. UNCHANGED <<feedback, pc, at, counts, receipt>>
  BY DEF Review, requests
<1>4. /\ text \in Seq(Lines) /\ Len(text) \in Nat /\ DOMAIN text = 1 .. Len(text)
      /\ \A j \in 1 .. Len(text) : text[j] \in Lines
      /\ i \in 1 .. Len(text)
  BY LinesOfText DEF LoopInv, LoopTypeOK, ReadableLines
<1>5. text' = [text EXCEPT ![i] = [text[i] EXCEPT !.status = "reviewed"]]
  BY <1>2
<1> DEFINE new == [text[i] EXCEPT !.status = "reviewed"]
<1>6. new \in Lines /\ new.status = "reviewed" /\ new.id = text[i].id
      /\ new.label = text[i].label /\ new.torn = text[i].torn
  <2> DEFINE labels == UNION {Passing(feedback[j]) : j \in Ids}
  <2>1. text[i] \in [id : Ids, label : labels, status : {"pending", "reviewed"}, torn : BOOLEAN]
    BY <1>4 DEF Lines
  <2> HIDE DEF labels
  <2>2. /\ new \in [id : Ids, label : labels, status : {"pending", "reviewed"}, torn : BOOLEAN]
        /\ new.status = "reviewed" /\ new.id = text[i].id
        /\ new.label = text[i].label /\ new.torn = text[i].torn
    BY <2>1
  <2> QED BY <2>2 DEF labels, Lines
<1> HIDE DEF new
<1>7. /\ text' \in Seq(Lines) /\ Len(text') = Len(text) /\ DOMAIN text' = DOMAIN text
      /\ \A j \in 1 .. Len(text) : text'[j] = IF j = i THEN new ELSE text[j]
  BY <1>4, <1>5, <1>6, ExceptSeq DEF new
<1>8. \A j \in DOMAIN text : /\ text'[j].id = text[j].id /\ text'[j].label = text[j].label
                             /\ text'[j].torn = text[j].torn
  BY <1>4, <1>6, <1>7
<1>9. /\ Off' = Off /\ TornLines' = TornLines
  <2>1. \A p : OnFile(p)' <=> OnFile(p)
    BY <1>7, <1>8 DEF OnFile, Pair
  <2>2. Written' = Written
    BY <1>3, SameFeedback DEF Written
  <2> QED BY <1>7, <1>8, <2>1, <2>2 DEF Off, TornLines
<1>10. Books'
  BY <1>2, <1>9 DEF LoopInv, Books
<1>11. LoopTypeOK'
  BY <1>2, <1>3, <1>7, SameFeedback DEF LoopInv, LoopTypeOK
<1>12. CountsHold'
  <2>1. \A j \in ReadableLines : /\ j \in ReadableLines' /\ text'[j].label = text[j].label
                                 /\ text[j].status = "reviewed" => text'[j].status = "reviewed"
    <3> TAKE j \in ReadableLines
    <3>1. j \in 1 .. Len(text) /\ (j > 1 => j - 1 \in 1 .. Len(text))
      BY <1>4 DEF ReadableLines
    <3>2. j \in ReadableLines'
      BY <1>4, <1>7, <1>8, <3>1 DEF ReadableLines, Readable
    <3>3. text[j].status = "reviewed" => text'[j].status = "reviewed"
      BY <1>2, <1>7, <3>1
    <3> QED BY <1>4, <1>8, <3>1, <3>2, <3>3
  <2>2. \A c \in Categories : CountByCategory(c) <= CountByCategory(c)'
    BY <1>4, <1>7, <2>1, CountsGrow
  <2>3. \A c \in Categories : CountByCategory(c) \in Nat /\ CountByCategory(c)' \in Nat
    <3>1. \A c \in Categories : CountByCategory(c) \in Nat
      BY <1>4, CountsAreNumbers
    <3>2. (text \in Seq(Lines) => \A c \in Categories : CountByCategory(c) \in Nat)'
      BY CountsAreNumbers, PTL
    <3>3. (text \in Seq(Lines))'
      BY <1>3, <1>7, SameFeedback
    <3> QED BY <3>1, <3>2, <3>3
  <2> QED BY <1>3, <2>2, <2>3, SameFeedback DEF LoopInv, CountsHold
<1>13. Receipts'
  BY <1>3, SameFeedback DEF LoopInv, Receipts
<1> QED BY <1>10, <1>11, <1>12, <1>13 DEF LoopInv

\* The dataset versions and the schedulers' clocks are beside the queue.
LEMMA OtherSteps ==
  ASSUME LoopInv, UNCHANGED <<queueVars, requests>>
  PROVE  LoopInv'
<1>1. UNCHANGED <<feedback, pc, at, counts, receipt>> /\ UNCHANGED queueVars
  BY DEF requests
<1>2. /\ Books' /\ text' = text /\ tears' = tears /\ cut' = cut
      /\ \A c \in Categories : CountByCategory(c)' = CountByCategory(c)
  <2>1. \A j \in Ids : pc'[j] \in Queued => pc[j] \in Queued
    BY <1>1
  <2>2. pc' \in [Ids -> {"new", "failed", "write", "check", "emit", "acked"}]
    BY <1>1 DEF LoopInv, LoopTypeOK
  <2> QED BY <1>1, <2>1, <2>2, FileStands
<1>3. LoopTypeOK'
  BY <1>1, <1>2, SameFeedback DEF LoopInv, LoopTypeOK
<1>4. CountsHold'
  BY <1>1, <1>2, SameFeedback DEF LoopInv, CountsHold
<1>5. Receipts'
  BY <1>1, SameFeedback DEF LoopInv, Receipts
<1> QED BY <1>2, <1>3, <1>4, <1>5 DEF LoopInv

LEMMA LoopStep == LoopInv /\ [LoopNext]_loopVars => LoopInv'
<1> SUFFICES ASSUME LoopInv, [LoopNext]_loopVars PROVE LoopInv'
  OBVIOUS
<1>1. ASSUME NEW i \in Ids, Enqueue(i) PROVE LoopInv'
  BY <1>1, EnqueueStep
<1>2. ASSUME NEW i \in Ids, Check(i) PROVE LoopInv'
  BY <1>2, CheckStep
<1>3. ASSUME NEW i \in Ids, Emit(i) PROVE LoopInv'
  BY <1>3, EmitStep
<1>4. ASSUME NEW i \in Ids, NEW w \in Workers, Begin(i, w) PROVE LoopInv'
  BY <1>4, BeginStep
<1>5. ASSUME NEW w \in Workers, CoolDown(w) PROVE LoopInv'
  BY <1>5, OtherSteps DEF CoolDown
<1>6. ASSUME NEW w \in Workers, Crash(w) PROVE LoopInv'
  BY <1>6, CrashKeeps
<1>7. CASE LosePower
  BY <1>7, PowerCutKeeps
<1>8. CASE Review
  BY <1>8, ReviewStep
<1>9. CASE EndSnapshot
  BY <1>9, OtherSteps DEF EndSnapshot
<1>10. ASSUME NEW t \in Tags, BeginSnapshot(t) PROVE LoopInv'
  BY <1>10, OtherSteps DEF BeginSnapshot
<1>11. CASE UNCHANGED loopVars
  BY <1>11, OtherSteps DEF loopVars
<1> QED BY <1>1, <1>2, <1>3, <1>4, <1>5, <1>6, <1>7, <1>8, <1>9, <1>10, <1>11 DEF LoopNext

\* LoopInvariance: the inductive invariant of the label queue - its books, the
\* counts a check rests on and the receipts - in every reachable state of the
\* active-learning loop (process_feedback, check_and_emit).
THEOREM LoopInvariance == LoopSpec => []LoopInv
BY LoopStarts, LoopStep, PTL DEF LoopSpec

\* What a reader cannot find is off the file or runs into a line that breaks off.
LEMMA LostIsAccounted ==
  ASSUME LoopInv
  PROVE  Cardinality(Lost) <= tears + cut
<1> DEFINE Followed == {j \in TornLines : j + 1 \in DOMAIN text}
           next == [j \in Followed |-> Pair(j + 1)]
           G == {next[j] : j \in Followed}
<1>1. /\ Len(text) \in Nat /\ DOMAIN text = 1 .. Len(text) /\ IsFiniteSet(DOMAIN text)
      /\ \A j \in 1 .. Len(text) : text[j] \in Lines
      /\ tears \in Nat /\ cut \in Nat
  BY LinesOfText DEF LoopInv, LoopTypeOK
<1>2. /\ IsFiniteSet(TornLines) /\ IsFiniteSet(Followed)
      /\ Cardinality(TornLines) \in Nat /\ Cardinality(Followed) \in Nat
      /\ Cardinality(Followed) <= Cardinality(TornLines)
  <2>1. TornLines \in SUBSET DOMAIN text
    BY DEF TornLines
  <2>2. IsFiniteSet(TornLines)
    BY <1>1, <2>1, FS_Subset
  <2>3. Followed \in SUBSET TornLines
    OBVIOUS
  <2> HIDE DEF Followed
  <2>4. IsFiniteSet(Followed) /\ Cardinality(Followed) <= Cardinality(TornLines)
    BY <2>2, <2>3, FS_Subset
  <2> QED BY <2>2, <2>4, FS_CardinalityType
<1>3. IsFiniteSet(G) /\ Cardinality(G) \in Nat /\ Cardinality(G) <= Cardinality(Followed)
  <2>1. DOMAIN next = Followed
    OBVIOUS
  <2> HIDE DEF Followed, next
  <2> QED BY <1>2, <2>1, ImageOf
<1>4. Lost \subseteq Off \cup G
  <2> SUFFICES ASSUME NEW p \in Lost, p \notin Off PROVE p \in G
    OBVIOUS
  <2>1. /\ \A j \in ReadableLines : Pair(j) # p
        /\ p \in UNION {{i} \X Passing(feedback[i]) : i \in {j \in Ids : pc[j] = "acked"}}
    BY DEF Lost, Pair
  <2>2. PICK i \in Ids : pc[i] = "acked" /\ p \in {i} \X Passing(feedback[i])
    BY <2>1
  <2>3. p \in Written
    BY <2>2 DEF Written, Queued
  <2>4. PICK j \in DOMAIN text : ~text[j].torn /\ Pair(j) = p
    BY <2>3 DEF Off, OnFile
  <2>5. j > 1 /\ text[j - 1].torn
    BY <1>1, <2>1, <2>4 DEF ReadableLines, Readable
  <2>6. j - 1 \in DOMAIN text /\ (j - 1) + 1 = j
    BY <1>1, <2>4, <2>5
  <2>7. j - 1 \in Followed
    BY <2>4, <2>5, <2>6 DEF TornLines
  <2>8. next[j - 1] = p
    BY <2>4, <2>6, <2>7
  <2> QED BY <2>7, <2>8
<1> HIDE DEF G, Followed
<1>5. /\ IsFiniteSet(Off) /\ Cardinality(Off) \in Nat /\ Cardinality(Off) <= cut
      /\ Cardinality(TornLines) <= tears
  BY FS_CardinalityType DEF LoopInv, Books
<1>6. /\ IsFiniteSet(Off \cup G) /\ Cardinality(Off \cup G) \in Nat
      /\ Cardinality(Off \cup G) <= Cardinality(Off) + Cardinality(G)
  <2>1. /\ IsFiniteSet(Off \cup G)
        /\ Cardinality(Off \cup G) = Cardinality(Off) + Cardinality(G) - Cardinality(Off \cap G)
    BY <1>3, <1>5, FS_Union
  <2>2. Off \cap G \in SUBSET Off
    OBVIOUS
  <2>3. Cardinality(Off \cap G) \in Nat
    BY <1>5, <2>2, FS_Subset, FS_CardinalityType
  <2>4. Cardinality(Off \cup G) \in Nat
    BY <2>1, FS_CardinalityType
  <2> QED BY <1>3, <1>5, <2>1, <2>3, <2>4
<1>7. Cardinality(Lost) \in Nat /\ Cardinality(Lost) <= Cardinality(Off \cup G)
  BY <1>4, <1>6, FS_Subset, FS_CardinalityType
<1> QED BY <1>1, <1>2, <1>3, <1>5, <1>6, <1>7

\* AcknowledgedLabelsAreQueued: whatever is submitted, by whichever worker, and
\* whatever fails, the queue is short of at most one acknowledged label per write
\* that was cut short and those a power cut took, and every receipt says what the
\* contract says the feedback yields, less what the gate refused
\* (process_feedback, FeedbackReceipt).
THEOREM AcknowledgedLabelsAreQueued == LoopSpec => []AcknowledgedIsQueued
<1>1. LoopInv => AcknowledgedIsQueued
  <2> SUFFICES ASSUME LoopInv PROVE AcknowledgedIsQueued
    OBVIOUS
  <2>1. Cardinality(Lost) <= tears + cut
    BY LostIsAccounted
  <2>2. ASSUME NEW i \in Ids, pc[i] = "acked"
        PROVE  LET refused == Candidates(feedback[i]) \ Passing(feedback[i])
                   bad(S) == Cardinality({l \in refused : l.source \in S})
               IN  /\ receipt[i].labels = GoldLabels(feedback[i]) - bad(Positive)
                   /\ receipt[i].hard = HardNegatives(feedback[i]) - bad({"hard_negative"})
    <3>1. receipt[i] = Receipt(feedback[i])
      BY <2>2 DEF LoopInv, Receipts
    <3>2. LegalFeedback(feedback[i])
      BY LegalIds DEF LoopInv
    <3>3. LET refused == Candidates(feedback[i]) \ Passing(feedback[i])
              bad(S) == Cardinality({l \in refused : l.source \in S})
          IN  /\ Receipt(feedback[i]).labels = GoldLabels(feedback[i]) - bad(Positive)
              /\ Receipt(feedback[i]).hard
                   = HardNegatives(feedback[i]) - bad({"hard_negative"})
      BY <3>2, ReceiptsAddUp
    <3> QED BY <3>1, <3>3
  <2> QED BY <2>1, <2>2 DEF AcknowledgedIsQueued
<1> QED BY <1>1, LoopInvariance, PTL

\* SpecsRestOnReviewedLabels: no lock is held between the count and the writing of
\* the job specification; every class it trains still has its minimum of reviewed
\* labels, whatever ran in between (check_and_emit, count_by_category).
THEOREM SpecsRestOnReviewedLabels == LoopSpec => SpecsRestOnReviews
<1> DEFINE Rests == spec' # spec => \A c \in spec'.trainable : CountByCategory(c) >= Minimum[c]
<1>1. ASSUME LoopInv, [LoopNext]_loopVars PROVE [Rests]_loopVars
  <2>1. ASSUME NEW i \in Ids, Emit(i), spec' # spec PROVE Rests
    <3>1. /\ pc[i] = "emit"
          /\ spec' = [by |-> i, trainable |-> Trainable(counts[i]), total |-> Total(counts[i])]
      BY <2>1 DEF Emit, retrain
    <3>2. spec'.trainable = Trainable(counts[i])
      BY <3>1
    <3>3. ASSUME NEW c \in Trainable(counts[i]) PROVE CountByCategory(c) >= Minimum[c]
      <4>1. c \in Categories /\ counts[i][c] >= Minimum[c]
        BY DEF Trainable, MeetsMinimum, Classes
      <4>2. counts[i] \in [Categories -> Nat] /\ counts[i][c] <= CountByCategory(c)
        BY <1>1, <3>1, <4>1 DEF LoopInv, CountsHold
      <4>3. CountByCategory(c) \in Nat /\ Minimum[c] \in Nat
        BY <1>1, <4>1, CountsAreNumbers, MinimumAssumption DEF LoopInv, LoopTypeOK
      <4>4. counts[i][c] \in Nat
        BY <4>1, <4>2
      <4> DEFINE had == counts[i][c]
                 has == CountByCategory(c)
                 needs == Minimum[c]
      <4> HIDE DEF had, has, needs
      <4>5. has >= needs
        BY <4>1, <4>2, <4>3, <4>4 DEF had, has, needs
      <4> QED BY <4>5 DEF has, needs
    <3> QED BY <3>2, <3>3
  <2>2. ASSUME NEW W, Restart(W) PROVE spec' = spec
    BY <2>2 DEF Restart
  <2>3. (\E i \in Ids : Emit(i)) \/ spec' = spec
    BY <1>1, <2>2 DEF LoopNext, Enqueue, Check, Begin, CoolDown, Crash, LosePower, Review,
                      EndSnapshot, BeginSnapshot, retrain, loopVars
  <2> QED BY <2>1, <2>3
<1> QED BY <1>1, LoopInvariance, PTL DEF LoopSpec, SpecsRestOnReviews
=============================================================================
