SPECIFICATION Spec
CONSTANTS
  Dangers <- Safe
  Scopes <- Inside
  RestoreResults <- AlwaysRestored
  Costs <- Prices
  HelperCosts <- Prices
  Interference = FALSE
  Configs <- BudgetConfigs
  Reasonings <- BudgetReasonings
  TestRuns <- BudgetTests
INVARIANTS
  BudgetOvershoot
