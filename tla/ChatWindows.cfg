SPECIFICATION Spec
CONSTANTS
  NULL = NULL
  c1 = c1
  c2 = c2
  g1 = g1
  g2 = g2
  g3 = g3
  Clients <- MCClients
  Groups <- MCGroups
  GroupBucket <- MCGroupBucket
  Capacity <- MCCapacity
  SizeT <- MCSizeT
  MaxWindows = 4
  MaxRestarts = 1
SYMMETRY Symmetry
INVARIANTS
  TypeOK
  LinesReachTheGroup
  PidTableRight
CHECK_DEADLOCK FALSE
