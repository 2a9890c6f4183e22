SPECIFICATION BSpec
CONSTANTS
  Semi = 6
  NRoots = 12
  NFields = 2
  MaxAge = 2
  RemBound = 4
  NRegs = 3
  NHandles = 8
  kInitCap = 1
  MaxCalls = 3
  Setups <- MCGarbage
  Calls <- MCFillers
INVARIANTS EveryStoreHasBarrier
CHECK_DEADLOCK FALSE
