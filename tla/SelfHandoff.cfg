SPECIFICATION Spec
CONSTANTS
  MaxAttempts = 2
  MaxCrashes = 1
  MaxFailures = 1
  ClearsTransferred = FALSE
INVARIANTS
  StillFinishable

  
CHECK_DEADLOCK FALSE
