SPECIFICATION FairSpec
CONSTANTS
  Lines <- MCPressLines
  Scancodes <- MCScancodes
  FifoSize = 2
  MaxBytes = 2
  MaxEdges = 2
PROPERTIES
  BootCompletes
  BytesConsumed
CHECK_DEADLOCK FALSE
