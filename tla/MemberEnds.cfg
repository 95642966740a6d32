SPECIFICATION FairSpec
CONSTANTS
  Waves <- TwoWaves
  Leases <- LeasesOfTwo
  WaveOf <- FirstOf
  RunOf <- SecondOf
  Fresh = {1, 2}
  Capacity = 2
  Discovers = TRUE
  Drains = TRUE
  Killable = TRUE
  Watched = {}
  Prunable <- OnlyA
  MaxRestarts = 0
  None = None
INVARIANTS StopAfterStart
PROPERTIES AcceptedWavesFinish CapacityReturns DrainReleases
CHECK_DEADLOCK FALSE
