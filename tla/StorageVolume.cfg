SPECIFICATION FairSpec
CONSTANTS
  j = j
  w = w
  c = c
  Jobs = {j}
  Workers = {w}
  Copies = {c}
  Largest = 2
  Requested <- Needs
  Unreadable = {w}
  Safety = 1
  Free = 5
  Cached = 1
  Unmanaged = 1
  None = None
INVARIANTS MarginKept WorkIsCovered
PROPERTIES FittingIsAdmitted
CHECK_DEADLOCK FALSE
