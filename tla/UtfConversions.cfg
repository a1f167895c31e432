SPECIFICATION Spec
CONSTANTS
  ScalarTexts <- MCScalarTexts
  Texts <- MCTexts
  NoJob = NoJob
INVARIANTS ReadsWithin WritesWithin WritesAll
INVARIANTS Transcodes ResultsValid WalkersAgree SurrogatesJudged
PROPERTY ConversionEnds
CHECK_DEADLOCK FALSE
