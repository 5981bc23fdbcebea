SPECIFICATION FairSpec
CONSTANTS
  p1 = p1
  p2 = p2
  Jobs = {2}
  Procs = {p1, p2}
  OwnerOf <- MCOwnerOf
  Interactive = {}
  MaxQuestions = 1
  MaxActive = 2
  MaxJobs = 2
  Answers = {1}
  Timely = FALSE
  MaxOps <- MCMaxOps
  Past = {{}}
  MaxFailures = 1
PROPERTIES
  JobsEnd
  TerminalIsFinal
  CancellationSticks
CHECK_DEADLOCK FALSE
