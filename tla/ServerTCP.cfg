SPECIFICATION FairSpec
CONSTANTS
  c1 = c1
  c2 = c2
  c3 = c3
  Master = Master
  End = End
  Conns <- ThreeConns
  CLIENTS_LIMIT = 1
  m_maxWaitTime = 1
  BackLog = 1
INVARIANTS
  TypeOK
  DescriptorsAgree
  NeverBlocksInRecv
PROPERTIES
  ClosedForCause
  
  RequestOfC1Served
  C1ExpiresUnlessHung
  StopEndsLoop
CHECK_DEADLOCK FALSE
