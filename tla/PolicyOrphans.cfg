SPECIFICATION FairSpec
CONSTANTS
  Order <- WatchedAndPolicy
  Overrides <- OneOverride
  Canonical <- FillDefaults
  Profiles <- OneProfile
  Versions <- OneVersion
  bare = bare
  full = full
  old = old
  v1 = v1
  v2 = v2
  NoContent = NoContent
  Foreign = Foreign
  NoProfile = NoProfile
  Unresolvable = Unresolvable
  MaxEnv = 2
  MaxFails = 0
  Resyncs = FALSE
PROPERTIES OwnedObjectsCollected
CHECK_DEADLOCK FALSE
