SPECIFICATION Spec
CONSTANTS
  SizeMod = 16
  Texts <- MCTexts
  Rulers <- MCRulers
  Needles <- MCNeedles
  Charsets <- MCCharsets
  Replacements <- MCReplacements
  Offsets <- MCOffsets
  Places = {0, 1, 3, 4, 15}
  Words <- MCWords
  IntMod = 8
  HashMod = 256
  offset_basis = 197
  prime = 179
  xor <- MCxor
  Limits = {0, 1, 2, 15}
  Outside = Outside
  NoJob = NoJob
INVARIANTS WritesWhatItMeasured FindsFirstAndLast CutsAreExact PiecesAreExact
INVARIANTS ReplacesAll OrdersTexts HashesFollowEquality
