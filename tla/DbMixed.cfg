SPECIFICATION DbSpec
CONSTANTS
  k1 = k1
  k2 = k2
  k3 = k3
  x = x
  y = y
  None = None
  Garbage = Garbage
  StrKeys <- MCStrKeys
  RawKeys <- MCRawKeys
  ListKeys <- MCListKeys
  Texts <- MCTexts
  RewriteKeys <- MCOneKey
  HashOf <- MCHashOf
  BUCKETS = 2
  MAX_OPS = 5
INVARIANTS
  NoDoubleFree
  MapSound
  OwnersApart
  ReadYourWrite
  OnlyPopsLeak
PROPERTY
  ImplementsStableStore
SYMMETRY MCSymmetry
CHECK_DEADLOCK FALSE
