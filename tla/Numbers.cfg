SPECIFICATION Spec
CONSTANTS
  Width = 6
  LongWidth = 8
  Pow2 <- MCPow2
  Radixes = {2, 8, 10, 16, 36}
  Texts <- MCTexts
  Bases = {0, 2, 10, 16}
  Floats <- MCFloats
  OutBuffer = 8
  NoJob = NoJob
INVARIANTS StaysInBuffer RoundTrips FlagsTell
CHECK_DEADLOCK FALSE
