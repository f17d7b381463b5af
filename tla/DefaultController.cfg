SPECIFICATION FairSpec
CONSTANTS
  Instances = {i1, i2}
  MaxFails = 2
  MaxCrashes = 2
  MaxEnv = 3
INVARIANTS IInv MarkedAfterExisting
PROPERTIES DeletionFinal EventuallyMarked
CHECK_DEADLOCK FALSE
