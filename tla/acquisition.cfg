CONSTANTS
  None = None
  Contents = {c1, c2}
  ApiRetries = 3
  MaxReads = 3
  MaxFaults = 2
  MaxRestarts = 1
SPECIFICATION FairSpec
INVARIANTS
  OneScanPerContent
  Accounted
  PostedIsDetected
PROPERTIES
  LoopComesBack
CHECK_DEADLOCK FALSE
