SPECIFICATION ShmSpec
CONSTANTS
  s = s
  l = l
  m = m
  x = x
  y = y
  r = r
  None = None
  StrKeys <- MCStrKeys
  ListKeys <- MCListKeys
  Texts <- MCTexts
  Readers <- MCReaders
  HashOf <- MCHashOf
  BUCKETS = 2
  ListTextClass = "entry"
  MAX_INDEX = 2
  MAX_OPS = 3
  MAX_KILLS = 0
INVARIANT ReadsCurrent
CHECK_DEADLOCK FALSE
