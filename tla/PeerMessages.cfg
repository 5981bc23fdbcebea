SPECIFICATION Spec
CONSTANTS
  a = a
  b = b
  q = q
  r1 = r1
  r2 = r2
  Sessions = {a, b}
  Messages = {q, r1, r2}
  From <- MCFrom
  To <- MCTo
  Kind <- MCKind
  Parent <- MCParent
  AckWanted = {}
  Expiring = {}
  MaxInc <- MCMaxInc
  MaxTurns = 1
  MaxFailures = 1
INVARIANTS
  NothingLost
  AtMostOneReply
  NeverTwice
  StatusTruthful
PROPERTIES
  StatusMonotone
  SteeredReplyNotWoken
CHECK_DEADLOCK FALSE
