SPECIFICATION ConsSpec
CONSTANTS
  Key <- InputKeys
  MaxWire = 2
  SerialByte <- InputBytes
  Char <- InputChars
  CONSBUFSIZE = 3
PROPERTIES ImplementsQueue ReturnsInOrder AllReturned
