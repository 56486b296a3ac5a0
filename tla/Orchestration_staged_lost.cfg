SPECIFICATION Spec
CONSTANTS
  Scenes = {"staged"}
  Issues = {1, 2}
  RoadmapIssues = {1}
  Slots = {1, 2}
  MAX_AUTOCHAIN_DEPTH = 2
  MaxFailures = 2
  CeilingSkipAfter = 1
  MaxRestarts = 1
  MaxApiCalls = 1
  Missions <- FourMissions
  ui_retry_budget = 2
  max_repair_cycles = 2
  Paths = {"a"}
  Texts = {1}
  max_steps = 4
  max_consecutive_errors = 2
  no_diff_steps_max = 2
  AutoCommitThreshold = 2
  AutoCommitEvery = 2
  repeat_threshold = 1
INVARIANTS
  ValidatedWorkDelivered
CHECK_DEADLOCK FALSE
