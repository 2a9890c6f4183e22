SPECIFICATION MCSpec
CONSTANTS
  Semi = 3
  NRoots = 2
  NFields = 1
  MaxAge = 2
  RemBound = 2
  Fuel = 11
INVARIANTS
  CompactionKeepsRemembered
CHECK_DEADLOCK FALSE
