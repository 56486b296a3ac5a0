SPECIFICATION Spec
CONSTANTS
  Dangers <- Risky
  Scopes <- Anywhere
  RestoreResults <- MayFail
  Costs <- Free
  HelperCosts <- Free
  Interference = TRUE
  Configs <- HostileConfigs
  Reasonings <- HostileReasonings
  TestRuns <- HostileTests
INVARIANTS
  NoDangerousCommit
