SPECIFICATION Spec
CONSTANTS
  ROWS = 2
  COLUMNS = 2
  WIDTH = 3
  OFFSETS <- TwoOffsets
  a = a
  Chars <- Letters
  Blank = Blank
  Unknown = Unknown
  NoCall = NoCall
  NoNibble = NoNibble
  Blur = Blur
  Released = Released
  MaxCalls = 4
  MaxFaults = 2
  MaxResets = 1
CHECK_DEADLOCK FALSE
INVARIANTS
  TypeOK
  InStep
PROPERTIES
  ImplementsScreen
