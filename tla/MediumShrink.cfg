SPECIFICATION Spec
CONSTANTS
  Slabs = {s1, s2}
  MaxSlabs = 3
  SlabSize = 8
  Header = 1
  MinMedium = 2
  MaxDeadweight = 1
  WordBits = 2
  Requests = {2, 4, 8, 9, 15}
INVARIANTS UnlinksFreeBlocks
SYMMETRY Symmetry
CHECK_DEADLOCK FALSE
