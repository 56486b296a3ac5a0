SPECIFICATION Spec
CONSTANTS
  Dangers <- Safe
  Scopes <- Inside
  RestoreResults <- AlwaysRestored
  Costs <- Free
  HelperCosts <- Free
  Interference = FALSE
  Configs <- RepairConfig
  Reasonings <- Finished
  TestRuns <- CoreTests
INVARIANTS
  UncancelledCommitTested
