SPECIFICATION PushHeadSpec
CONSTANTS
  n1 = n1
  n2 = n2
  n3 = n3
  n4 = n4
  a = a
  b = b
  None = None
  Nodes <- MCNodes
  Vals <- MCVals
INVARIANT
  IterationEnds
SYMMETRY MCSymmetry
CHECK_DEADLOCK FALSE
