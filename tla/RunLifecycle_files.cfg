SPECIFICATION Spec
CONSTANTS
  r1 = r1
  r2 = r2
  Runs <- TwoRuns
  Cancellable <- OneRun
  DirectWrites = FALSE
  MaxRestarts = 1

  
PROPERTIES
  GhostsStayDead
