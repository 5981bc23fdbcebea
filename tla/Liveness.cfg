SPECIFICATION PartsSpec
CONSTANTS
  f1 = f1
  f2 = f2
  b1 = b1
  p1 = p1
  p2 = p2
  pool = pool
  Runs = {f1, b1}
  Procs = {p1, p2}
  ProcOf <- MCProcOf
  Background = {b1}
  Abortable = {f1}
  ResourceOf <- MCResourceOf
  NoResource = NoResource
  MaxConcurrency <- MCOne
  Peak = 1
  ResourceLimits <- MCResourceLimits
  LeaseTicks = 3
  HeartbeatTicks = 1
  AgingTicks = 2
  LockTicks = 1
  Timely = TRUE
  Failures = FALSE
INVARIANTS
  NothingHeldAfterEnd
PROPERTIES
  EveryRequestServed
  TransferEnds
CHECK_DEADLOCK FALSE
