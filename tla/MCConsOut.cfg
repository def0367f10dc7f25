SPECIFICATION OutSpec
CONSTANTS
  CRT_ROWS = 3
  CRT_COLS = 2
  Glyph = {27, 32, 48, 59, 91, 97, 98, 109}
  Attr <- ColorAttrs
  Formats <- ColorFormats
  WaitLimit = 2
INVARIANTS EscapesInvisible PortsGetEverything ColorsAsAsked
PROPERTIES ImplementsTerminal CprintfReturns
