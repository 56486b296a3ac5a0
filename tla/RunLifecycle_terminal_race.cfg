SPECIFICATION Spec
CONSTANTS
  r1 = r1
  r2 = r2
  Runs <- OneRun
  Cancellable <- OneRun
  DirectWrites = FALSE
  MaxRestarts = 0
PROPERTIES
  TerminalIsFinal
