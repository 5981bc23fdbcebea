SPECIFICATION Spec
CONSTANTS
  f1 = f1
  f2 = f2
  b1 = b1
  p1 = p1
  p2 = p2
  pool = pool
  Runs = {f1, f2, b1}
  Procs = {p1, p2}
  ProcOf <- MCProcOf
  Background = {b1}
  Abortable = {f1, f2, b1}
  ResourceOf <- MCResourceOf
  NoResource = NoResource
  MaxConcurrency <- MCMaxConcurrency
  Peak = 2
  ResourceLimits <- MCResourceLimits
  LeaseTicks = 3
  HeartbeatTicks = 1
  AgingTicks = 1
  LockTicks = 1
  Timely = TRUE
  Failures = TRUE
INVARIANTS
  HostWideCap
  LoopHandsOut
PROPERTIES
  AdmissionWithinLimits
