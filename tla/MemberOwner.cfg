SPECIFICATION Spec
CONSTANTS
  Waves <- FourWaves
  Leases <- LeasesOfFour
  WaveOf <- FirstOf
  RunOf <- SecondOf
  Fresh = {1, 2, 3}
  Capacity = 2
  Discovers = FALSE
  Drains = TRUE
  Killable = TRUE
  Watched = {1}
  Prunable = {}
  MaxRestarts = 1
  None = None
INVARIANTS OneProviderJob OwnerWorksAlone
PROPERTIES ImplementsLeasedWaves
CHECK_DEADLOCK FALSE
