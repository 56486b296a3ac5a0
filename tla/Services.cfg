SPECIFICATION Spec
CONSTANTS
  Scenes = {"access", "breaker", "parallel", "rental"}
  Names = {"owner", "bob"}
  Reserved = {"owner"}
  Enrollments = {"e1"}
  Sessions = {"s1", "s2"}
  GivenTrust = {"admin", "superuser"}
  MAX_FAILED_LOGIN_ATTEMPTS = 2
  Writers = {"w1", "w2"}
  open_threshold = 2
  recovery_window = 2
  Tasks <- ThreeTasks
  Files = {1, 2}
  TaskPlans <- ThreeTaskPlans
  max_concurrent = 2
  MaxRuns = 2
  Rentals = {1, 2}
  Hosts = {"h1"}
  Callers = {"c1", "c2"}
  MaxRestarts = 1
INVARIANTS
  ServicesTypeOK
  
  RunnerSafe
  
PROPERTIES
  TokensStayDead
  WindowKept
  BreakerHealsHere
  OneWriterPerFile
  RunReturnsHere
  BadHostsAvoided
CHECK_DEADLOCK FALSE
