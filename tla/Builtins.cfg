SPECIFICATION BSpec
CONSTANTS
  Semi = 13
  NRoots = 12
  NFields = 2
  MaxAge = 2
  RemBound = 4
  NRegs = 3
  NHandles = 8
  kInitCap = 1
  MaxCalls = 2
  Setups <- MCSetups
  Calls <- MCCalls
INVARIANTS NoStaleUse CallsMeanWhatTheySay StoresRemembered NothingDangles CursorWithinSlots
CONSTRAINT Intact
CHECK_DEADLOCK FALSE
