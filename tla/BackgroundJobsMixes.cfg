SPECIFICATION Spec
CONSTANTS
  p1 = p1
  p2 = p2
  Jobs = {1, 2, 3}
  Procs = {p1, p2}
  OwnerOf <- MCOwnerOf
  Interactive = {1}
  MaxQuestions = 1
  MaxActive = 1
  MaxJobs = 2
  Answers = {1}
  Timely = TRUE
  MaxOps <- MCMaxOps
  Past <- MCPast
  MaxFailures = 0
INVARIANTS
  
  CapacityHolds
CHECK_DEADLOCK FALSE
