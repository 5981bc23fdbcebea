SPECIFICATION PartsSpec
CONSTANTS
  j1 = j1
  Jobs = {j1}
  MaxTurns = 1
  MaxStalls = 1
  MaxEvents = 2
  MaxItems = 3
  MaxGiven = 2
  MaxExchanges = 1
  MaxLines = 3
  MaxUnread = 1
  Notes = {n1}
  Files = {f1, f2}
  MaxEdits = 1
  MaxEndpoints = 2
INVARIANTS
  GoalCarriedOn
  PlanHandsOver
  RunTruthful
  QueriesSound
PROPERTIES
  InterruptHolds
  OutcomesTold
  ComesToRest
  CallsReturn
CHECK_DEADLOCK FALSE
