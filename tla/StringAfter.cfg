SPECIFICATION Spec
CONSTANTS
  SizeMod = 16
  Texts <- FewTexts
  Rulers <- MCRulers
  Needles <- FewNeedles
  Charsets <- MCCharsets
  Replacements <- MCReplacements
  Offsets <- MCOffsets
  Places = {0}
  Words <- FewWords
  IntMod = 8
  HashMod = 256
  offset_basis = 197
  prime = 179
  xor <- MCxor
  Limits = {15}
  Outside = Outside
  NoJob = NoJob
INVARIANT AfterFirstSkipsSeparator
