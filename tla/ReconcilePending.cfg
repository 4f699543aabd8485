SPECIFICATION Spec
CONSTANTS
  r1 = r1
  c1 = c1
  c2 = c2
  Null = Null
  Empty = Empty
  Roles = {r1}
  Channels = {c1, c2}
  Messages = {}
  Names = {"a", "b", "r", "s", "bot"}
  Attrs = {1, 2}
  States <- AllLooks
  MayShow <- Rename
  Privileged = {r1}
  Elevation = 1
  Worlds <- Mirror
  Early = FALSE
  DryRun = FALSE
  MaxEvents = 1
  MaxFaults = 0
CHECK_DEADLOCK FALSE
PROPERTY ReapsOnlyForeign
