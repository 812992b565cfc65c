SPECIFICATION RangeSpec
CONSTANTS
  I32Max = 3
  I64Max = 6
  U64Max = 15
  Positions = {0, 1, 3, 4, 6}
  NoRange = NoRange
  Error = Error
INVARIANTS RestartKeepsRange RangeIsNamed
