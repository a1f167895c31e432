SPECIFICATION Spec
CONSTANTS
  Jobs <- MCJobs
  OutBuffer = 8
  IntMod = 4194304
  LongMax = 134217727
  NoJob = NoJob
INVARIANTS StaysInFormat InterpretsFormat FieldsPadded WritersAgree
PROPERTY FormatEnds
CHECK_DEADLOCK FALSE
