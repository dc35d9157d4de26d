CONSTANTS
  r1 = r1
  r2 = r2
  r3 = r3
  None = None
  MaxAborts = 1
  Endpoints <- Kinds
  Requests <- MCRequests
  Outcomes <- MCOutcomes
  Risks <- MCRisks
  Results <- MCResults
SPECIFICATION Spec
INVARIANTS
  LockDiscipline
  DecidedIsRecorded
  RejectedLeavesNoRow
  AnsweredDecisionStands
  TrailInOrder
PROPERTIES
  ImplementsArchive
  DecisionIsFinal
SYMMETRY RequestSymmetry
CHECK_DEADLOCK FALSE
