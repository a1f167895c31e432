SPECIFICATION Spec
CONSTANTS
  Buffers = {b1, b2}
  Blocks = {k1, k2}
  Char = {nul, a}
  NUL = nul
  LocalLength = 2
  MaxSize = 3
  Garbage <- MCGarbage
  Absent = Absent
  Unspecified = Unspecified
SYMMETRY Symmetry
INVARIANTS SoleOwner NoLeak OnlyAllocateCorrupts Terminated TypeOK
PROPERTY ValueSemantics
CHECK_DEADLOCK FALSE
