SPECIFICATION PreparationSpec
CONSTANTS
  RawIds <- MCRawIds
  NoId = NoId
  RawTraces <- MCRawTraces
  Pids = {main, child}
  Ptrs = {p, q}
  NullPtr = NullPtr
  MaxOps = 6
  MaxLines = 4
  HandIds = {0, 1}
SYMMETRY MCSymmetry
INVARIANTS
  ProducesUniqueTrace
  AcceptsExactlyClosedTraces
  DataflowPreserved
  ParsedTraceAccepted
  PointersBecomeIds
  ResultIdsFitPeak
  TraceFitsMaxOps
CHECK_DEADLOCK FALSE
