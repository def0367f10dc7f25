SPECIFICATION OutSpec
CONSTANTS
  CRT_ROWS = 3
  CRT_COLS = 2
  Glyph = {32, 97, 98}
  Attr <- ColorAttrs
  Formats <- BackgroundFormats
  WaitLimit = 2
INVARIANT ColorsAsAsked
