SPECIFICATION FairSpec
CONSTANTS
  Runs = {1}
  Clusters = {"a", "b"}
  Fleet = {"a"}
  Fleets = {{"b"}, {"a", "b"}}
  Controls = {"online", "draining"}
  Priorities = {"primary"}
  Outcomes = {"completed", "failed"}
  RunBudget = 2
  TimeBudget = TRUE
  Capacity <- Ones
  RunCap <- Ones
  JobCap <- Ones
  Compatible <- Everywhere
  MaxRetries = 1
  MaxAttempts = 2
  None = None
INVARIANTS PauseIsQuiescent
PROPERTIES AcceptedIsFinal FinishedWorkArrives PauseDrains
CHECK_DEADLOCK FALSE
