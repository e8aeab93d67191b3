SPECIFICATION AllocSpec
CONSTANTS
  POOL_SIZE = 113
  FREE_LIST_COUNT = 2
  BLK_HDR_SIZE = 16
  MAX_ROUNDS = 3
  Sizes <- MCSizes
INVARIANTS
  TypeOK
  BlocksApart
  FreeListsExact
  Fits
  AddrNamesItsPool
PROPERTIES
  AllocatesDisjoint
  NeverHandsOutHeld
  ServedIfRoom
CHECK_DEADLOCK FALSE
