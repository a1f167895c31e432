SPECIFICATION Spec
CONSTANTS
  Streams = {s1, s2}
  Blocks = {k1, k2}
  Char = {a, b}
  Junk = Junk
  StackSize = 1
  SizeMod = 8
  MaxText = 2
  MaxSize = 3
  HugeCounts = {5}
  Absent = Absent
  Unspecified = Unspecified
  NoRequest = NoRequest
INVARIANTS OneOwner OnlyKnownMisuse
PROPERTIES GrowthEnds TextSemantics
CHECK_DEADLOCK FALSE
