SPECIFICATION UnwindSpec
CONSTANTS
  Sections <- MCSections
  EhFrame = TRUE
  Encodings = {"absptr", "sdata4", "unknown"}
  Addrs = {4, 6, 8}
  MaxCalls = 2
  NumRegs = 3
  CfaColumn = 2
  MaxQueries = 2
INVARIANTS FindsFirst  RowCoversPc
PROPERTY UnwindEnds
CHECK_DEADLOCK FALSE
