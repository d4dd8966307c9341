CONSTANTS
  MaxGen = 3
  MaxTries = 1
  External = FALSE
SPECIFICATION Spec
INVARIANT ReadyHoldsPassword
CHECK_DEADLOCK FALSE
