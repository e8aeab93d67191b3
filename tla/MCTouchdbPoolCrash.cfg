SPECIFICATION CrashSpec
CONSTANTS
  POOL_SIZE = 97
  FREE_LIST_COUNT = 2
  BLK_HDR_SIZE = 16
  MAX_CRASHES = 2
  Sizes <- MCSizes
INVARIANTS
  ListsSurviveCrash
  HandsOutFree
  LossBounded
PROPERTY
  AllocatesAcrossKills
CHECK_DEADLOCK FALSE
