SPECIFICATION ChainSpec
CONSTANTS
  n1 = n1
  n2 = n2
  n3 = n3
  n4 = n4
  a = a
  b = b
  None = None
  Nodes <- MCNodes
  Vals <- MCVals
INVARIANTS
  ChainTypeOK
  ForwardSound
  BackwardSound
  NoFault
  NoNodeLeaks
PROPERTY
  ImplementsList
SYMMETRY MCSymmetry
CHECK_DEADLOCK FALSE
