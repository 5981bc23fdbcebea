SPECIFICATION FairSpec
CONSTANTS
  a = a
  b = b
  q = q
  r1 = r1
  r2 = r2
  Sessions = {a, b}
  Messages = {q, r1}
  From <- MCFrom
  To <- MCTo
  Kind <- MCKind
  Parent <- MCParent
  AckWanted = {q}
  Expiring = {q}
  MaxInc <- MCOneRuntime
  MaxTurns = 1
  MaxFailures = 0
PROPERTIES
  Delivered
  RequestsGetTurn
CHECK_DEADLOCK FALSE
