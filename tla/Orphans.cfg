SPECIFICATION OFairSpec
CONSTANTS
  Order <- WatchedOnly
  Overrides <- OneOverride
  Canonical <- FillDefaults
  Profiles <- OneProfile
  Versions <- OneVersion
  bare = bare
  full = full
  old = old
  v1 = v1
  v2 = v2
  NoContent = NoContent
  Foreign = Foreign
  NoProfile = NoProfile
  Unresolvable = Unresolvable
  MaxEnv = 3
  MaxFails = 1
  Resyncs = TRUE
INVARIANTS OInv OnlyOrphansOverlooked
PROPERTIES OrphansSettle
CHECK_DEADLOCK FALSE
