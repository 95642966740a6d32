SPECIFICATION Spec
CONSTANTS
  Jobs = {1}
  Cores = {1}
  Gpus = {1}
  CoreCount <- One
  GpuCount <- One
  Shared = {}
  Limited = {}
  Fragile = {}
  Faulty = {}
  Controllers = {c1}
  Operations = {"cancel"}
PROPERTIES TerminalIsFinal
CHECK_DEADLOCK FALSE
