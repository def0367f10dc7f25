SPECIFICATION LibSpec
CONSTANTS
  IntWidth = 5
  LongWidth = 8
  BufSize = 14
  Calls <- MCCalls
  StrCalls <- MCStrCalls
  LONG_MAX = 4000
  PlainCall <- MCPlainCall
  PlainOp <- MCPlainOp
  GROUP = 3
  INT = 8
  LLONG = 32
  Streams <- MCStreams
INVARIANTS FormatsAsAsked SnprintfBounded CopiesExact SearchesFind StrtolReadsBack FieldsReadBack
PROPERTY CallsReturn
CHECK_DEADLOCK FALSE
