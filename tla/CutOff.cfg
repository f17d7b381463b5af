SPECIFICATION TSpec
CONSTANTS
  Order <- PolicyPass
  Overrides <- OneOverride
  Canonical <- FillDefaults
  Profiles <- OneProfile
  Versions <- OneVersion
  bare = bare
  full = full
  old = old
  v1 = v1
  v2 = v2
  NoContent = NoContent
  Foreign = Foreign
  NoProfile = NoProfile
  Unresolvable = Unresolvable
  MaxEnv = 1
  MaxFails = 1
  Resyncs = FALSE
INVARIANTS TInv OnlyLegitimateOpen CutOffIsKnown
CHECK_DEADLOCK FALSE
