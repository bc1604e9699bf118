SPECIFICATION Spec
CONSTANTS
  a1 = a1
  a2 = a2
  b1 = b1
  b2 = b2
  Caches <- LfuInC
  Keys = {a1, a2, b1, b2}
  PartitionOf <- OneLayer
  Sizes = {1}
  MaxBytes = 3
  Partitions = 0
  MaxFreq = 2
  NoKey = NoKey
PROPERTIES
  EvictsTheLeastValued
