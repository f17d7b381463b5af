SPECIFICATION FairSpec
CONSTANTS
  Order <- TwoWatched
  Overrides <- BothOverrides
  Canonical <- FillDefaults
  Profiles <- OneProfile
  Versions <- TwoVersions
  bare = bare
  full = full
  old = old
  v1 = v1
  v2 = v2
  NoContent = NoContent
  Foreign = Foreign
  NoProfile = NoProfile
  Unresolvable = Unresolvable
  MaxEnv = 2
  MaxFails = 1
  Resyncs = FALSE
PROPERTIES Converges DependentsCollected
CHECK_DEADLOCK FALSE
