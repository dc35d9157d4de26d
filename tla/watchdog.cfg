CONSTANTS
  None = None
  Scans = {s1, s2}
  Attempts = 2
  MaxErrors = 2
  MaxThreads = 5
  MaxFaults = 4
SPECIFICATION FairSpec
INVARIANTS
  HangsCostOne
PROPERTIES
  NeverQueued
  ReadyScansLeave
CHECK_DEADLOCK FALSE
