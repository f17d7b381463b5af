SPECIFICATION Spec
CONSTANTS
  Instances = {i1}
  MaxFails = 1
  MaxCrashes = 1
  MaxEnv = 1
INVARIANTS SingleDefault
CHECK_DEADLOCK FALSE
