CONSTANTS
  None = None
  Calls = {c1, c2, c3}
  Workers = {w1, w2}
  PoolSize = 3
  MaxCrashes = 1
SPECIFICATION FairSpec
INVARIANTS
  AcknowledgedIsStored
  ChainVerifies
  PoolAccounted
PROPERTIES
  ImplementsLog
  EveryCallEnds
CHECK_DEADLOCK FALSE
