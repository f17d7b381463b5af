SPECIFICATION Spec
CONSTANTS
  Nil = Nil
  SpecInputs <- MCSpecInputs
  ConfigInputs <- MCConfigInputs
  IANA <- MCIANA
INVARIANTS  CiphersOfProfile
CHECK_DEADLOCK FALSE
