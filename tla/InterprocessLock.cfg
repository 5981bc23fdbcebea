SPECIFICATION FairSpec
CONSTANTS
  c1 = c1
  c2 = c2
  p0 = p0
  p1 = p1
  p2 = p2
  a1 = a1
  a2 = a2
  a3 = a3
  b1 = b1
  b2 = b2
  b3 = b3
  ownerJson = ownerJson
  unknownFile = unknownFile
  Clients = {c1, c2}
  Procs = {p0, p1, p2}
  PidOf <- MCPidOf
  Names <- MCNames
  NamePid <- MCNamePid
  Leftovers = {ownerJson, unknownFile}
  NoPid = NoPid
  Nobody = Nobody
  NoName = NoName
  Inodes = {i1, i2}
  NoDir = NoDir
  MaxCrashes = 2
INVARIANTS
  TypeOK
  MutualExclusion
  MarkerStays
  NothingLeftBehind
PROPERTIES
  ImplementsExclusiveLock
  StaleLockReclaimed
