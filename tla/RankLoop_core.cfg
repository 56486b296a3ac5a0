SPECIFICATION Spec
CONSTANTS
  Dangers <- Safe
  Scopes <- Inside
  RestoreResults <- MayFail
  Costs <- Free
  HelperCosts <- Free
  Interference = FALSE
  Configs <- CoreConfigs
  Reasonings <- CoreReasonings
  TestRuns <- CoreTests
INVARIANTS
  TypeOK
  AttemptBound
  DirectCommitTested
  CompletedMeansCommitted
  OutcomeAgrees
  MergeGate
PROPERTIES
  
  
  CancelStopsDelivery
  
  WorkerEnds
  StatusSettles
  CancelSettles
