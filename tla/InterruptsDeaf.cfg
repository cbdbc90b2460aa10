SPECIFICATION FairSpec
CONSTANTS
  Lines <- MCPressLines
  Scancodes <- MCPressCodes
  FifoSize = 2
  MaxBytes = 2
  MaxEdges = 0
PROPERTY EnterContinues
CHECK_DEADLOCK FALSE
