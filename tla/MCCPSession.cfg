CONSTANTS
  MaxGen = 3
  MaxTries = 1
  External = FALSE
SPECIFICATION Spec
INVARIANTS
  TypeOK
  SingleWorker
  
  WorkerSparesNewSession
  
PROPERTIES RefinesAttempts WaiterHonoursStop
CHECK_DEADLOCK FALSE
