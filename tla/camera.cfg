CONSTANTS
  StableFrames = 2
  LastFrame = 12
  LastCall = 3
  Workers = {w1, w2}
  LastSession = 2
  LastPicture = 2
  LastRaise = 1
  Tries = 2
SPECIFICATION Spec
INVARIANTS
  SnapshotsAreSettled
PROPERTIES
  LiveFeedIsOrderly
  DeviceIsReleased
CHECK_DEADLOCK FALSE
