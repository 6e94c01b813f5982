SPECIFICATION Spec
CONSTANTS
  RawIds = {}
  NoId = NoId
  Null = Null
  Garbage = Garbage
  Threads = {t1, t2}
  MaxLines = 0
  Traces <- ZeroTraces
  Repetitions = 1
  BatchSize = 3
  MaxQueuedOpsTaken = 1
  AllocatorMayFail = FALSE
INVARIANTS
  CallersPassTheirPointers
