SPECIFICATION Spec
CONSTANTS
  p1 = p1
  p2 = p2
  p3 = p3
  NoVal = NoVal
  Procs <- MCProcs
  MAX_KILLS = 1
INVARIANTS
  
  CreatedIsUsable
  CreatorNeverCrashes
  SomebodyGetsIn
PROPERTIES
  LetInForAll
  OpensEnd
CHECK_DEADLOCK FALSE
