SPECIFICATION BtSpec
CONSTANTS
  Abbrevs <- MCAbbrevs
  MinLen = 1
  LBase <- MCLBase
  LRange = 6
  OpBase = 13
  DefStmt = TRUE
  StackTop = 30
  Kernels <- MCKernels
INVARIANTS FindsFunction ArgsAsDeclared ListsCallers
PROPERTY BacktraceEnds
CHECK_DEADLOCK FALSE
