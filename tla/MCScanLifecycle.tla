-------------------------- MODULE MCScanLifecycle ---------------------------
(***************************************************************************)
(* The instance of ScanLifecycle that TLC explores.  Requests are model    *)
(* values; a scan only comes into being through a capture, so three        *)
(* requests are one capture and every pair of concurrent requests.         *)
(***************************************************************************)
EXTENDS ScanLifecycle, TLC

CONSTANTS r1, r2, r3

MCRequests == {r1, r2, r3}

\* One capture and one other request.
MCTwoRequests == {r1, r2}

MCOutcomes == {"cleared"}

MCRisks == {"clear", "high"}

MCResults == {"findings", "failed"}

\* For the runs of temporal formulas, where detector and generator answers
\* make no difference.
MCOneRisk == {"clear"}

MCOneResult == {"findings"}

\* All but /v1/detect, which takes no lock the camera does not take.
MCLockingEndpoints == Kinds \ {"detect"}

RequestSymmetry == Permutations(MCRequests)
=============================================================================
