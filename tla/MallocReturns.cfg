SPECIFICATION AllocSpec
CONSTANTS
  POOL_SIZE = 97
  FREE_LIST_COUNT = 2
  BLK_HDR_SIZE = 16
  MAX_ROUNDS = 3
  Sizes <- MCClassSizes
PROPERTY
  Served
