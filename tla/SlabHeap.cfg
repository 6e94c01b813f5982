SPECIFICATION Spec
CONSTANTS
  MaxSlabs = 8
  MaxRequest = 4
  MaxGrowth = 2
  NumBins = 3
  MinFreed = 1
  OwnersData <- Mixed
INVARIANTS RegionsTileHeap TagsTellTheTruth BinsHoldFreeRegions
PROPERTIES GrowsOnlyWhenNothingFits KeepsPool
CHECK_DEADLOCK FALSE
