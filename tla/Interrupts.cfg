SPECIFICATION Spec
CONSTANTS
  Lines <- MCLines
  Scancodes <- MCScancodes
  FifoSize = 2
  MaxBytes = 3
  MaxEdges = 3
INVARIANTS
  TypeOK
  BootDependencies
  TerminalExclusive
  InitBeforeSignals
  PicAcknowledged
  ByteHasInterrupt
  BytesInOrder
CHECK_DEADLOCK FALSE
