SPECIFICATION FairSpec
CONSTANTS
  Jobs = {1, 2}
  Cores = {1}
  Gpus = {1}
  CoreCount <- One
  GpuCount <- One
  Shared = {}
  Limited = {1, 2}
  Fragile = {}
  Faulty = {1}
  Controllers = {c1}
  Operations = {"cancel"}
INVARIANTS EndsTerminal WorkHoldsLeases
PROPERTIES CancelStopsWork LimitedJobsFinish
CHECK_DEADLOCK FALSE
