SPECIFICATION Spec
\* A shell that has overwritten its return address stops.
CHECK_DEADLOCK FALSE
CONSTANTS
  Size = 6
  MaxArgs = 2
  MaxLine = 7
  Letters <- MCLetters
INVARIANTS
  TypeOK
  ArgsAreWords
  ShellSurvives
PROPERTY OwnMemory
