SPECIFICATION MonSpec
CONSTANTS
  CRT_ROWS = 4
  CRT_COLS = 2
  Glyph = {32, 62, 98, 104, 127}
  Attr <- GreyOnly
  Input <- Keys
  BUFLEN = 6
  PromptLen = 1
  MAXARGS = 3
  Commands = {104}
  MaxPanics = 2
INVARIANTS LineTypeOK EchoMirrorsLine ReturnsCString NothingAfterCursor ArgsAreWords FirstPanicOnly
PROPERTY MonitorReturns
