SPECIFICATION Spec
CONSTANTS
  Vectors <- MCVectors
  Program <- MCProgram
  ProgramControl <- MCControl
  ErrorCode = 301
  Junk = 300
  MaxInterrupts = 3
INVARIANTS
  FrameMatches
  ControlRestored
  OwnValuesReturn
CHECK_DEADLOCK FALSE
