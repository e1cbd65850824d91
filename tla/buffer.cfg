CONSTANTS
  HexBase = 2
  SizeMax = 255
  SignedChar = TRUE
  Undefined = Undefined
  Numbers <- MCNumbers
  Values <- MCValues
  Strings <- MCStrings
  HexStrings <- MCHexStrings
  Arrays <- MCArrays
  Junk <- MCJunk
  MaxCalls = 3
  MaxLength = 5
SPECIFICATION Spec
INVARIANTS InBounds BytesExact
CHECK_DEADLOCK FALSE
