CONSTANTS
  Findings <- MCFindings
  Texts <- MCTexts
  MaxRationales = 2
  Flags <- MCFlags
  Replies <- MCReplies
  Passes = 3
  Uploads <- MCUploads
  Configurations <- MCConfigurations
SPECIFICATION Spec
INVARIANTS
  StartupFailsClosed
  GuardedProse
  VerdictIsFaithful
  ScreeningEscalates
CHECK_DEADLOCK FALSE
