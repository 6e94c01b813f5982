SPECIFICATION FairSpec
CONSTANTS
  RawIds = {}
  NoId = NoId
  Null = Null
  Garbage = Garbage
  Threads = {t1, t2}
  MaxLines = 0
  Traces <- LongTraces
  Repetitions = 1
  BatchSize = 2
  MaxQueuedOpsTaken = 1
  AllocatorMayFail = TRUE
PROPERTIES
  EventuallyReturns
CHECK_DEADLOCK FALSE
