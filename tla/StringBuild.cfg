SPECIFICATION BuildSpec
CONSTANTS
  x = x
  Buffers = {s1, s2, c1, local, temp}
  Strings = {s1, s2}
  CharBuffers = {c1}
  Local = local
  Temp = temp
  Blocks = {k1, k2, k3}
  Char = {nul, x}
  NUL = nul
  cleaned <- MCcleaned
  LocalLength = 2
  MaxSize = 3
  Inputs <- MCInputs
  Garbage <- MCGarbage
  Absent = Absent
  Unspecified = Unspecified
  NoCall = NoCall
SYMMETRY Symmetry
INVARIANTS UnharmedByFailure BuildsWhatItSays OnlyLocalsBreak
CHECK_DEADLOCK FALSE
