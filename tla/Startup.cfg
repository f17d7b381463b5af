SPECIFICATION FairSpec
CONSTANTS
    Profiles = {p, q}
    NoProfile = noProfile
    Unresolvable = unresolvable
    Namespaces = {"own"}
    AllNamespaces = all
    Unset = unset
    NotANumber = notANumber
    MaxEnv = 2
    MaxFails = 1
INVARIANTS IInv EndpointsAgree OperandsCurrent
PROPERTIES SettingsArrive
CHECK_DEADLOCK FALSE
