SPECIFICATION Spec
CONSTANTS
  Keys <- MCKeys
  Others <- MCOthers
  MaxHits = 4
INVARIANTS
  ModifiersMatchKeys
  CharsHaveOneKey
PROPERTY ReportsTransitions
\* The bound on key transitions ends the behaviours.
CHECK_DEADLOCK FALSE
