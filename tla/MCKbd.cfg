SPECIFICATION KbdSpec
CONSTANTS
  Key <- SmallKeyboard
  MaxWire = 3
INVARIANTS NothingSwallowed NoStuckModifier RebootNeedsChord
PROPERTY DecodesAsTyped
CHECK_DEADLOCK FALSE
