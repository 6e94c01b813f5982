SPECIFICATION Spec
CONSTANTS
  MaxSlabs = 4
  MaxRequest = 4
  MaxGrowth = 2
  NumBins = 3
  MinFreed = 0
  OwnersData <- Mixed
INVARIANTS OwnedSlabsAreAllocated
CHECK_DEADLOCK FALSE
