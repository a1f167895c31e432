SPECIFICATION Spec
CONSTANTS
  Data <- MCData
  HexTexts <- MCHexTexts
  B64Texts <- MCB64Texts
  Rooms = {0, 1, 2, 3}
  Own = Own
  Query = Query
  NoJob = NoJob
INVARIANTS StaysInRoom FillsItsRoom
INVARIANTS EncodesAsRFC4648 DecodesExactly
