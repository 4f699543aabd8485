SPECIFICATION Spec
CONSTANTS
  c1 = c1
  m1 = m1
  m2 = m2
  Roles = {}
  Channels = {c1}
  Messages <- MCMessages
  States <- MCStates
  Null = Null
  Channel = c1
  NoText = ""
  Contents <- MCContents
  Parent <- MCParent
  MaxFiles = 1
  Cap = 1
  Racing = FALSE
  MaxUpdates = 2
  MaxMishaps = 1
INVARIANTS
  ShownInFull
  RepliesLinked
  PreviewsEditNothing
CHECK_DEADLOCK FALSE
