SPECIFICATION Spec
CONSTANTS
  NULL = NULL
  k1 = k1
  k2 = k2
  b1 = b1
  v1 = v1
  v2 = v2
  Texts <- MCTexts
  Values <- MCValues
  Stable <- MCStable
  Buffers <- MCBuffers
  m_hashFunc <- MCHash
  Capacities <- MCCapacities
  MaxLost = 1
SYMMETRY Symmetry
INVARIANTS
  TypeOK
  StableKeysOnce
  PrimeTable
  CountIsEntries
PROPERTY
  ImplementsMap
CHECK_DEADLOCK FALSE
