SPECIFICATION FairSpec
CONSTANTS
  Runs = {r1, r2}
  First = {r1}
  Chunks = 2
  Parallelism = 2
  RunBudget = 2
  Requests = {"pause", "time", "defer", "prune"}
  Faults = {"lost", "refuse", "reject", "drain"}
  None = None
INVARIANTS LeasedIsAwaited WithdrawsPlanned
PROPERTIES ImplementsAwaitedRuns LoopEnds
CHECK_DEADLOCK FALSE
