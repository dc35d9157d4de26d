--------------------------- MODULE MCScannerLane ----------------------------
(* The instance of ScannerLane that TLC checks. *)
EXTENDS ScannerLane, TLC

CONSTANTS r1, r2, belt, bag, crate

MCReaders == {r1, r2}
MCPictures == {belt, bag, crate}

File(study, energy, decodes, dcm) ==
  [study |-> study, energy |-> energy, deep |-> TRUE, dicos |-> TRUE,
   dcm |-> dcm, decodes |-> decodes]

\* Two channels of one study, a malformed file of another, and one with another
\* extension that makes _dcm_to_raw_frame raise.
MCHeader == << File("A", "high", "frame", TRUE), File("B", "none", "malformed", TRUE),
               File("A", "low", "frame", TRUE), File(Nil, "none", "other", FALSE) >>

Env(driver, key, library, source) ==
  [driver |-> driver, vendor |-> "smiths", parses |-> TRUE, key |-> key,
   library |-> library, source |-> source]

MCEnvironments ==
  {Env("dicos", "hex", TRUE, TRUE), Env("dicos", "hex", FALSE, TRUE),
   Env("framegrab", "hex", TRUE, TRUE), Env("framegrab", "hex", FALSE, TRUE),
   Env("dicos", "base64", TRUE, TRUE), Env("vendor_sdk", "hex", TRUE, TRUE),
   Env("unknown", "hex", TRUE, TRUE)}

ReaderSymmetry == Permutations(MCReaders)
=============================================================================
