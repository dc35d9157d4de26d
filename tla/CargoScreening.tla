---------------------------- MODULE CargoScreening ---------------------------
(* Screening of uploaded X-ray images (src/vlm/screen.py, src/app/api/v1/       *)
(* screen.py): the upload is checked, every image is put to the model several   *)
(* times, and the replies are voted into flags, texts and a risk band.          *)
EXTENDS LanguageGuard, Naturals, FiniteSets

CONSTANTS
  Flags,     \* the contraband flags the prompt asks for
  Replies,   \* what the model may answer: its flags and its three texts
  Passes     \* how often each image is put to the model

ASSUME PassesAssumption == Passes \in Nat \ {0}

VARIABLES
  upload,    \* the kinds of the files of the request
  raws,      \* the replies for the image being screened
  tried,     \* passes made over it
  results,   \* the results so far, in the order of the files
  code       \* the answer's status: 0 before it, 200, 400 or 501

screening == <<upload, raws, tried, results, code>>

FileKinds == {"image", "not_image", "empty_file", "too_big"}
Ranks == {"YOQ", "SHUBHALI", "BOR"}

\* A reply: a rank or "missing" for each flag, and its texts.
Reply == [flags : [Flags -> Ranks \cup {"missing"}], summary : GuardTexts,
          wagon : GuardTexts, cargo : GuardTexts]

ASSUME RepliesAssumption == Replies \subseteq Reply

\* Texts the screener itself puts in: none of them has a mark.
Fallback == Clean("fit")

Longer == [empty |-> 0, short |-> 1, fit |-> 2, long |-> 3]
\* The longest of a set of texts: which of several of one class is not told apart.
Longest(ts) == {t \in ts : \A u \in ts : Longer[u.len] <= Longer[t.len]}

\* The reply as one text: all its marks, and as long as its longest field.
Raw(r) ==
  [len |-> (CHOOSE t \in Longest({r.summary, r.wagon, r.cargo, Fallback}) : TRUE).len,
   marks |-> r.summary.marks \cup r.wagon.marks \cup r.cargo.marks]

ScreenInit ==
  upload = <<>> /\ raws = <<>> /\ tried = 0 /\ results = <<>> /\ code = 0

\* The files are read and checked one by one, before anything is screened; an
\* unwired screener refuses what passed.
Upload(files, wired) ==
  /\ upload' = files /\ results' = <<>> /\ raws' = <<>> /\ tried' = 0
  /\ code' = IF files = <<>> \/ \E i \in DOMAIN files : files[i] # "image" THEN 400
             ELSE IF ~wired THEN 501 ELSE 0

Screening == code = 0 /\ Len(results) < Len(upload)

\* One pass over the current image: the model answers or the call raises.
Infer ==
  /\ Screening /\ tried < Passes
  /\ tried' = tried + 1
  /\ \/ raws' = raws
     \/ \E r \in Replies : raws' = Append(raws, r)
  /\ UNCHANGED <<upload, results, code>>

\* Texts that differ in length only are still acceptable: the first violation decides.
TextClean(t) ==
  /\ t.len # "empty"
  /\ \/ Passed(t)
     \/ FirstViolation(t) \in {"too_short", "too_long"}

\* The most frequent of the nonempty texts, the longest of those that tie.
VoteText(ts) ==
  LET said == {i \in DOMAIN ts : ts[i].len # "empty"}
      Count(i) == Cardinality({j \in said : ts[j] = ts[i]})
      best == {i \in said : \A j \in said : Count(j) <= Count(i)}
  IN  IF said = {} THEN {Fallback} ELSE Longest({ts[i] : i \in best})

\* Mutant: a tie is resolved as none.
VoteFlagLenient(ranks) ==
  LET Votes(r) == Cardinality({i \in DOMAIN ranks : ranks[i] = r})
  IN  IF Votes("BOR") > Votes("YOQ") THEN "BOR"
      ELSE IF Votes("SHUBHALI") > Votes("YOQ") THEN "SHUBHALI" ELSE "YOQ"
\* A strict majority decides for BOR or for none; anything else is suspicious.
VoteFlag(ranks) ==
  LET Votes(r) == Cardinality({i \in DOMAIN ranks : ranks[i] = r})
      need == Len(ranks) \div 2 + 1
  IN  IF Votes("BOR") >= need THEN "BOR"
      ELSE IF Votes("YOQ") >= need THEN "YOQ" ELSE "SHUBHALI"

\* An answer that is absent counts as suspicious.
RankOf(answer) == IF answer = "missing" THEN "SHUBHALI" ELSE answer

RiskFromFlags(flags) ==
  LET values == {flags[f] : f \in Flags}
  IN  IF "BOR" \in values THEN "high"
      ELSE IF "SHUBHALI" \in values THEN "medium" ELSE "clear"

\* The summaries a set of replies may end with: the longest acceptable TAVSIF,
\* else the longest acceptable reply as a whole, else the fallback.
Summaries(rs) ==
  LET said == {t \in {rs[i].summary : i \in DOMAIN rs} : TextClean(t)}
      whole == {t \in {Raw(rs[i]) : i \in DOMAIN rs} : TextClean(t)}
  IN  IF said # {} THEN Longest(said)
      ELSE IF whole # {} THEN Longest(whole) ELSE {Fallback}

\* What the replies said, kept with a result for the properties: how many there
\* were, and how many gave each flag each rank in so many words.
Tally(rs) ==
  [n |-> Len(rs),
   of |-> [f \in Flags |-> [r \in {"YOQ", "BOR"} |-> Cardinality({i \in DOMAIN rs : rs[i].flags[f] = r})]]]

\* The result of an image no pass answered for.
FailedResult ==
  [ok |-> FALSE, flags |-> [f \in Flags |-> "SHUBHALI"], risk |-> "medium",
   shown |-> {Fallback}, said |-> Tally(<<>>)]

\* The results a list of replies may be aggregated into.
Aggregates(rs) ==
  LET voted == [f \in Flags |-> VoteFlag([i \in DOMAIN rs |-> RankOf(rs[i].flags[f])])]
      missing == \E i \in DOMAIN rs, f \in Flags : rs[i].flags[f] = "missing"
      Result(summary, wagon, cargo) ==
        LET tripped == \E t \in {summary, cargo, wagon} : ~TextClean(t)
            flags == [f \in Flags |-> IF tripped /\ voted[f] = "YOQ" THEN "SHUBHALI" ELSE voted[f]]
        IN  [ok |-> ~tripped /\ ~missing, flags |-> flags, risk |-> RiskFromFlags(flags),
             shown |-> IF tripped THEN {Fallback} ELSE {summary, wagon, cargo}, said |-> Tally(rs)]
  IN  {Result(s, w, c) : s \in Summaries(rs),
                         w \in VoteText([i \in DOMAIN rs |-> rs[i].wagon]),
                         c \in VoteText([i \in DOMAIN rs |-> rs[i].cargo])}

\* All passes made: the image's result, and the next image.
Conclude ==
  /\ Screening /\ tried = Passes
  /\ results' \in {Append(results, r) :
                     r \in IF raws = <<>> THEN {FailedResult} ELSE Aggregates(raws)}
  /\ raws' = <<>> /\ tried' = 0
  /\ code' = IF Len(results) + 1 = Len(upload) THEN 200 ELSE 0
  /\ UNCHANGED upload

ScreenNext == Infer \/ Conclude

------------------------------------------------------------------------------
\* The screener only ever escalates: a result is clear only if for every flag a
\* strict majority of the replies said so in so many words, a flag a strict
\* majority saw makes it high, an image that was never answered for is not clear,
\* and no text within the length bounds is shown with a mark of the guard. The
\* answer has one result per file and only for an upload of images.
Majority(result, f, rank) == 2 * result.said.of[f][rank] > result.said.n

ScreeningEscalates ==
  /\ \A i \in DOMAIN results :
       LET r == results[i] IN
       /\ r.risk = "clear" => \A f \in Flags : Majority(r, f, "YOQ")
       /\ (\E f \in Flags : Majority(r, f, "BOR")) => r.risk = "high"
       /\ \A t \in r.shown : t.len = "fit" => t.marks = {}
  /\ code = 200 => Len(results) = Len(upload)
  /\ results # <<>> => \A i \in DOMAIN upload : upload[i] = "image"

\* What the module says of every free text: a text with a homoglyph, drift or a
\* forbidden clearance phrase is replaced by a safe fallback (src/vlm/screen.py:14).
NoMarkIsShown == \A i \in DOMAIN results : \A t \in results[i].shown : t.marks = {}

\* What the module says of an incomplete answer: it escalates too (src/vlm/screen.py:13).
IncompleteEscalates == \A i \in DOMAIN results : ~results[i].ok => results[i].risk # "clear"
=============================================================================
