----------------------------- MODULE MCVlmService ----------------------------
(* The instance of VlmService that TLC checks: texts of every length with the   *)
(* marks that matter alone and together, replies that agree, disagree and omit, *)
(* uploads of one and two files.                                                *)
EXTENDS VlmService

Marked(length, marks) == [len |-> length, marks |-> marks]

MCTexts ==
  {Nothing, Clean("short"), Clean("fit"), Clean("long"),
   Marked("fit", {"cyrillic_detected"}),
   Marked("fit", {"cyrillic_detected", "mixed_script"}),
   Marked("fit", {"russian_detected", "english_drift"}),
   Marked("fit", {"forbidden_clearance"}),
   Marked("short", {"forbidden_clearance"}),
   Marked("fit", {"cyrillic_detected", "forbidden_clearance"})}

Found(i, category, score) == [id |-> i, category |-> category, score |-> score]

MCFindings ==
  {<<>>,
   <<Found(1, "unknown", "below_medium")>>,
   <<Found(1, "currency", "high"), Found(2, "firearm", "high")>>,
   <<Found(1, "explosive", "medium"), Found(2, "unknown", "below_medium")>>,
   <<Found(1, "narcotics", "high"), Found(2, "currency", "medium"), Found(3, "unknown", "medium")>>}

MCFlags == {"narcotics", "weapon"}

Says(narcotics, weapon, summary, cargo) ==
  [flags |-> [f \in MCFlags |-> IF f = "narcotics" THEN narcotics ELSE weapon],
   summary |-> summary, wagon |-> Clean("fit"), cargo |-> cargo]

MCReplies ==
  {Says("YOQ", "YOQ", Clean("fit"), Clean("short")),
   Says("missing", "YOQ", Nothing, Clean("short")),
   Says("SHUBHALI", "BOR", Nothing, Clean("fit")),
   Says("BOR", "YOQ", Clean("fit"), Nothing),
   Says("YOQ", "YOQ", Marked("fit", {"forbidden_clearance"}), Nothing),
   Says("YOQ", "BOR", Clean("long"), Marked("fit", {"cyrillic_detected"})),
   Says("YOQ", "YOQ", Clean("long"), Marked("short", {"forbidden_clearance"}))}

MCUploads ==
  {<<>>, <<"image", "image">>, <<"image", "not_image">>, <<"too_big">>, <<"empty_file", "image">>}

\* A production process with everything wired, and what differs from it.
Production ==
  [prod |-> TRUE, bypass |-> FALSE, db |-> "live", secrets |-> "environment", detector |-> "weights",
   vlm |-> TRUE, kind |-> "vllm", verify |-> TRUE, describe |-> TRUE, stored |-> TRUE, datalayer |-> TRUE]

MCConfigurations ==
  {Production,
   [Production EXCEPT !.kind = "ollama", !.stored = FALSE],
   [Production EXCEPT !.kind = "transformers", !.prod = FALSE, !.db = "unset", !.secrets = "weak_token"],
   [Production EXCEPT !.kind = "ollama", !.describe = FALSE, !.detector = "off", !.db = "down"],
   [Production EXCEPT !.kind = "misspelt"],
   [Production EXCEPT !.bypass = TRUE],
   [Production EXCEPT !.db = "unset"],
   [Production EXCEPT !.db = "malformed", !.prod = FALSE],
   [Production EXCEPT !.secrets = "no_audit_key", !.prod = FALSE],
   [Production EXCEPT !.secrets = "dotenv", !.vlm = FALSE, !.datalayer = FALSE],
   [Production EXCEPT !.detector = "no_weights"]}
=============================================================================
