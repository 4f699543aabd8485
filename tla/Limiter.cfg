SPECIFICATION FairSpec
CONSTANTS
  Workers <- Structure
  Intervals <- ServersOnly
  DefaultInterval = 1
  Limits <- TwoPerWindow
  Window = 4
  Requests <- Creates
  MaxRemoteRetries = 1
  Typed429 = TRUE
CHECK_DEADLOCK FALSE
INVARIANTS TypeOK GrantsFitWindow
PROPERTIES GrantsSpaced BackoffHonoured EndsUnlessOvertaken
