SPECIFICATION Spec
CONSTANTS
  NULL = NULL
  p1 = p1
  p2 = p2
  Size <- MCSize
  SizeT <- MCSizeT
  Items <- MCItems
INVARIANTS
  TypeOK
  TailFollowsHead
PROPERTIES
  ImplementsFifo
CHECK_DEADLOCK FALSE
