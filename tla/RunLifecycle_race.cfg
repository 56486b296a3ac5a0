SPECIFICATION Spec
CONSTANTS
  r1 = r1
  r2 = r2
  Runs <- OneRun
  Cancellable <- OneRun
  DirectWrites = TRUE
  MaxRestarts = 1
INVARIANTS
  TypeOK
  CancelReturnsTerminal
PROPERTIES
  RunsSettle
