SPECIFICATION LibSpec
CONSTANTS
  IntWidth = 5
  LongWidth = 8
  BufSize = 14
  Calls <- DecimalCalls
  StrCalls = {}
  LONG_MAX = 4000
  PlainCall <- MCPlainCall
  PlainOp <- MCPlainOp
  GROUP = 3
  INT = 8
  LLONG = 32
  Streams = {}
INVARIANT SignedDecimal
CHECK_DEADLOCK FALSE
