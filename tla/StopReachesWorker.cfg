CONSTANTS
  MaxGen = 2
  MaxTries = 1
  External = FALSE
SPECIFICATION Spec
PROPERTY StopReachesWorker
CHECK_DEADLOCK FALSE
