SPECIFICATION Spec
CONSTANTS
  r1 = r1
  c1 = c1
  c2 = c2
  Null = Null
  Empty = Empty
  Roles = {r1}
  Channels = {c1, c2}
  Messages = {}
  Names = {"a", "b", "r", "s", "bot"}
  Attrs = {1, 2}
  States <- AllLooks
  MayShow <- KeepNames
  Privileged = {r1}
  Elevation = 1
  Worlds <- Starts
  Early = FALSE
  DryRun = FALSE
  MaxEvents = 1
  MaxFaults = 1
CHECK_DEADLOCK FALSE
INVARIANTS TypeOK StartConverges NothingForeign MappedOnce
PROPERTY ReapsOnlyForeign
