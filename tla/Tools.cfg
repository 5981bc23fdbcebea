SPECIFICATION PartsSpec
CONSTANTS
  Runs = {r1, r2}
  Calls = {c1, c2}
  MaxFanout = 1
  Keys = {k1, k2}
  NoKey = NoKey
  Results = {k1}
  Texts = {t1, t2}
  Raw = Raw
  MaxEntries = 5
  MaxEpochs = 1
  Jobs = {j1, j2}
  Probed = {j1}
  MaxClock = 1
  Queries = {q1}
  Urls = {u1, u2, u3}
  MaxSources = 2
  Concurrency = 2
  MaxPages = 3
  MaxCalls = 1
  Contexts = {x1, x2, x3}
  Limit = 2
  MaxChanges = 2
  Ids = {i1, i2}
  None = None
  Count = 2
  MaxFaults = 1
INVARIANTS
  ToolsSound
CHECK_DEADLOCK FALSE
