CONSTANTS
  r1 = r1
  r2 = r2
  belt = belt
  bag = bag
  crate = crate
  Nil = Nil
  NoShot = NoShot
  Files = {1, 2, 3, 4}
  Header <- MCHeader
  Readers <- MCReaders
  MaxMishaps = 1
  Pictures <- MCPictures
  Empty = belt
  StableFrames = 4
  Thresh = 6
  Contrast = 20
  Deadline = 7
  MaxGlitches = 2
  Environments <- MCEnvironments
SPECIFICATION FairLaneSpec
INVARIANTS
  FilesAccounted
PROPERTIES
  FilesLeave
  CaptureIsSettled
  RestIsCaptured
CHECK_DEADLOCK FALSE
