SPECIFICATION FairSpec
CONSTANTS
  r1 = r1
  c1 = c1
  c2 = c2
  m1 = m1
  m2 = m2
  s0 = s0
  s1 = s1
  s2 = s2
  Null = Null
  Roles = {r1}
  Channels = {c1}
  Messages = {m1}
  States = {s0, s1, s2}
  Ops <- ReopenOps
  Mirrored <- ChannelMapped
  OldState = s0
  QueueCap = 1
  MaxRemoteRetries = 1
  DryRuns = {TRUE, FALSE}
  StoatUp = TRUE
  MaxFaults = 1
  MaxOutages = 0
INVARIANT MessageRowsHaveChannel
PROPERTIES EveryOpSettles DryRunWritesNothing
