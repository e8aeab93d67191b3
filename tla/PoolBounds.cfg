SPECIFICATION Spec
CONSTANTS
  POOL_SIZE = 120
  FREE_LIST_COUNT = 2
  BLK_HDR_SIZE = 16
  Sizes <- MCSizes
INVARIANT
  InBounds
CHECK_DEADLOCK FALSE
