SPECIFICATION MCFairSpec
CONSTANTS
  Semi = 3
  NRoots = 2
  NFields = 1
  MaxAge = 2
  RemBound = 2
  Fuel = 9
INVARIANTS
  IInv
  NoDangling
  RememberedComplete
  SpillRemembered
  ToSpaceSuffices
  MarkPrecise
  OneCellPerObject
PROPERTIES
  ImplementsGraph
  CollectionTerminates
CONSTRAINT
  NotStale
CHECK_DEADLOCK FALSE
