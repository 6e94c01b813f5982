SPECIFICATION Spec
CONSTANTS
  Threads = {t1, t2}
  Sizes = {0, 1, 2}
  Alignments = {0, 2}
  Words = 3
  Scenarios <- SoundAndComplete
  Null = Null
INVARIANTS NoFalseAlarm BlocksHoldTheirMagic CleanRunMeansConforming
CHECK_DEADLOCK FALSE
