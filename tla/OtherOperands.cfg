SPECIFICATION Spec
CONSTANTS
    Operands = {recommender, updater}
    Recommender = recommender
    Versions = {v1}
    NoVersion = none
    MaxTime = 0
    MaxEnv = 0
    MaxFails = 0
PROPERTY AllOperandsUpdated
CHECK_DEADLOCK FALSE
