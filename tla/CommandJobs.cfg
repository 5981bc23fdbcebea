SPECIFICATION FairSpec
CONSTANTS
  p1 = p1
  p2 = p2
  Owners <- MCOwners
  Jobs = {1, 2, 3}
  Earlier = {3}
  OwnerOf <- MCOwnerOf
  MaxActive = 1
  MaxRecords = 2
  Forking = {1}
  Timed = {1}
  Fallible = {1}
  Cancelled = {1}
  Closing = {p1}
  Crashing = {p1}
  MaxFailures = 1
INVARIANTS
  CapacityHolds
  EndTruthful
PROPERTIES
  EndIsFinal
  CancelEnds
CHECK_DEADLOCK FALSE
