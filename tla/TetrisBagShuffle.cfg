SPECIFICATION Spec
\* The bound on pieces ends the behaviour.
CHECK_DEADLOCK FALSE
CONSTANTS
  NextAt <- MCNextAt
  MaxDeals = 600
INVARIANT ShuffledBag
