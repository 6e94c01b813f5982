SPECIFICATION FairSpec
CONSTANTS
  RawIds = {}
  NoId = NoId
  Null = Null
  Garbage = Garbage
  Threads = {t1, t2, t3}
  Traces <- EveryTrace
  MaxLines = 3
  Repetitions = 2
  BatchSize = 3
  MaxQueuedOpsTaken = 2
  AllocatorMayFail = TRUE
INVARIANTS
  TypeOK
  EachOpInOnePlace
  CallersPassTheirPointers
  UnionReadAsWritten
  PhasesSeparate
  NothingLeftBehind
PROPERTIES
  ReplayKept
  ReturnsOrHasFailed
CHECK_DEADLOCK FALSE
