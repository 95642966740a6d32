SPECIFICATION Spec
CONSTANTS
  Runs = {1, 2}
  Clusters = {"a", "b"}
  Fleet = {"a", "b"}
  Fleets = {}
  Controls = {}
  Priorities = {"required", "predictive"}
  Outcomes = {"completed"}
  RunBudget = 2
  TimeBudget = FALSE
  Capacity <- OneAndTwo
  RunCap <- TwoAndOne
  JobCap <- TwoAndOne
  Compatible <- Everywhere
  MaxRetries = 1
  MaxAttempts = 1
  None = None
INVARIANTS TypeOK NoOverbooking
PROPERTIES UrgentRunsFirst
CHECK_DEADLOCK FALSE
