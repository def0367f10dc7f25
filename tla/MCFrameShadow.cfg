SPECIFICATION UnwindSpec
CONSTANTS
  Sections <- ShortSections
  EhFrame = TRUE
  Encodings = {"absptr", "sdata4", "unknown"}
  Addrs = {4}
  MaxCalls = 1
  NumRegs = 2
  CfaColumn = 1436
  MaxQueries = 1
INVARIANT InitialStateSaved
CHECK_DEADLOCK FALSE
