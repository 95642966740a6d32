SPECIFICATION Spec
CONSTANTS
  Runs = {1, 2}
  Clusters = {"a"}
  Fleet = {"a"}
  Fleets = {}
  Controls = {}
  Priorities = {"primary"}
  Outcomes = {"completed"}
  RunBudget = 3
  TimeBudget = FALSE
  Capacity <- Twos
  RunCap <- Twos
  JobCap <- Ones
  Compatible <- Everywhere
  MaxRetries = 1
  MaxAttempts = 2
  None = None
INVARIANTS LiveIsOwned FinishedIsAcceptable BudgetCoversWork
PROPERTIES SubmittedOnce ImplementsExclusiveRuns
CHECK_DEADLOCK FALSE
