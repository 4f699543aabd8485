SPECIFICATION Spec
CONSTANTS
  k1 = k1
  k2 = k2
  k3 = k3
  c1 = c1
  c2 = c2
  NoId = NoId
  Categories = {k1, k2}
  Channels = {c1, c2}
  First <- WithoutC2
  Guilds <- PlainGuilds
  Mapped = TRUE
  Edits = FALSE
  Serial = FALSE
  Spaced = TRUE
  MaxEvents = 4
  MaxFaults = 1
CHECK_DEADLOCK FALSE
INVARIANTS TypeOK ListsHoldMappedIds QuietMeansMirrored NothingStranded
