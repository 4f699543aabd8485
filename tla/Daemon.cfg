SPECIFICATION Spec
CONSTANTS
  everyone = everyone
  admin = admin
  reader = reader
  c1 = c1
  Roles <- MCRoles
  Channels = {c1}
  Messages = {}
  States <- MCStates
  Null = Null
  Everyone = everyone
  Privileged = {admin}
  Perms = {"view", "send", "audit"}
  View = "view"
  Reachable = {"view", "send"}
  BotPerms = {"view"}
  MayGive <- MCMayGive
  Positions = {0}
  MayDelete = {reader}
  Name <- MCName
  NewRank = 3
  Empty = Empty
  Worlds <- MCWorlds
  Early = FALSE
  MaxEvents = 1
  MaxFaults = 1
  Procs = {p1, p2}
  Nobody = Nobody
  N = 2
  Statements <- MCStatements
  MaxDeaths = 1
INVARIANTS
  NeverLockedOut
  AccessMirrored
  EveryoneKeepsOwn
  ElevationSafe
  SchemaComplete
  RefusedOnlyAfterDeath
PROPERTIES
  SignalFreesLock
CHECK_DEADLOCK FALSE
