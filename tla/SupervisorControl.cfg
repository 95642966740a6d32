SPECIFICATION Spec
CONSTANTS
  Jobs = {1, 2}
  Cores = {1, 2}
  Gpus = {1}
  CoreCount <- One
  GpuCount <- One
  Shared = {2}
  Limited = {}
  Fragile = {2}
  Faulty = {1}
  Controllers = {c1}
  Operations = {"cancel", "pause", "resume"}
INVARIANTS LeasesAreExclusive
PROPERTIES ImplementsHostLeases
CHECK_DEADLOCK FALSE
