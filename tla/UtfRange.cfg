SPECIFICATION Spec
CONSTANTS
  ScalarTexts <- MCScalarTexts
  Texts <- RangeTexts
  NoJob = NoJob
INVARIANT RangeChecked
CHECK_DEADLOCK FALSE
