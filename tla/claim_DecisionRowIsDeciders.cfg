CONSTANTS
  r1 = r1
  r2 = r2
  r3 = r3
  None = None
  MaxAborts = 0
  Endpoints <- Kinds
  Requests <- MCRequests
  Outcomes <- MCOutcomes
  Risks <- MCRisks
  Results <- MCResults
SPECIFICATION Spec
INVARIANT DecisionRowIsDeciders
SYMMETRY RequestSymmetry
CHECK_DEADLOCK FALSE
