SPECIFICATION MCSpec
\* The loader ends, or the kernel faults.
CHECK_DEADLOCK FALSE
CONSTANTS
  Addresses <- MCAddresses
  NameTables <- MCNameTables
  Stubs = 48
  NULL = NULL
  Shell <- MCShell
  TagLists <- MCTagLists
  Starts <- MCStarts
  Modes <- MCModes
  MaxUpdates = 2
INVARIANTS
  SelectorsFind
  InterruptsReachStubs
  NeverAhead
  ReadsTheClock
  ShellStarts
