CONSTANTS
  MaxGen = 3
  MaxTries = 1
  External = FALSE
SPECIFICATION Spec
INVARIANT StopSparesNewSession
CHECK_DEADLOCK FALSE
