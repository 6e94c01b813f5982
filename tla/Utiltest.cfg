SPECIFICATION FairSpec
CONSTANTS
  Threads = {t1, t2}
  Sizes = {0, 4, 12}
  Addresses <- EveryEighth
  HeapCells = 16
  EffectiveUtil = TRUE
  WordMax = 128
  Null = Null
INVARIANTS NoFalseAlarm BytesAccounted ReportsPeaks
PROPERTIES KeepsAllocatedMax RaisesEnd
CHECK_DEADLOCK FALSE
