SPECIFICATION FairSpec
CONSTANTS
  a = a
  b = b
  c = c
  x = x
  y = y
  Submissions = {a, b, c}
  Envs = {x, y}
  EnvOf <- Needs
  Nearby = {a}
  Recycled = {}
  Mortal = {a}
  Delayed = {a}
  Faulty = {a}
  MaxKills = 1
  None = None
INVARIANTS BuilderKeepsItsWork
PROPERTIES SeenJobsKeepTheirs TrashGoes OrphansGo
CHECK_DEADLOCK FALSE
