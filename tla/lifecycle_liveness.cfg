CONSTANTS
  r1 = r1
  r2 = r2
  r3 = r3
  None = None
  MaxAborts = 0
  Endpoints <- MCLockingEndpoints
  Requests <- MCRequests
  Outcomes <- MCOutcomes
  Risks <- MCOneRisk
  Results <- MCOneResult
SPECIFICATION FairSpec
PROPERTY EveryRequestEnds
CHECK_DEADLOCK FALSE
