SPECIFICATION FairSpec
CONSTANTS
    Operands = {recommender}
    Recommender = recommender
    Versions = {v1, v2}
    NoVersion = none
    MaxTime = 1
    MaxEnv = 2
    MaxFails = 2
INVARIANTS IInv
PROPERTIES NeverEarly TransitionTimes SettlesAvailable
CHECK_DEADLOCK FALSE
