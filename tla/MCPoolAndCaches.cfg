SPECIFICATION AllSpec
CONSTANTS
  Workers = {w1, w2}
  Jobs = {j1, j2, j3}
  Statuses = {ok}
  Zero = ok
  InitCap = 3
  NoJob = NoJob
  Nobody = Nobody
  Client = Client
  Off = Off
  Caches <- AllCaches
  PartitionOf <- TwoLayers
  Sizes = {1, 2}
  MaxBytes = 3
  Partitions = 2
  MaxFreq = 2
  NoKey = NoKey
  k1 = k1
SYMMETRY PoolSymmetry
INVARIANTS
  TypeOK
  JobAlive
  NoJobLost
  ExactlyOnce
  DestroyDrains
  CountersAreExact
  WithinBudget
PROPERTIES
  RejectsOnlyForPins
  PinnedStay
  SharesAreFair
  EvictsTheLeastValued
