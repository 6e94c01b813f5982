SPECIFICATION MallocSpec
CONSTANTS
  Slabs <- MCSlabs
  NoClass = NoClass
  Classes <- MCClasses
  TwoLevel = {"two_level"}
  Size <- MCSize
  Header <- MCHeader
  SlabSize = 8
  WordBits = 2
  Sizes = {0, 1, 2, 4, 8, 9}
  MinMedium = 3
  LargeHeader = 1
  MaxDeadweight = 2
  BinsOfWord = 2
INVARIANTS HeadersTellTheTruth BinsTellTheTruth EveryPointerFindsItsBlock
PROPERTIES KeepsMemory
CHECK_DEADLOCK FALSE
