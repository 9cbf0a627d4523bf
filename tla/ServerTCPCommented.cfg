SPECIFICATION FairSpec
CONSTANTS
  c1 = c1
  c2 = c2
  c3 = c3
  Master = Master
  End = End
  Conns <- TwoConns
  CLIENTS_LIMIT = 1
  m_maxWaitTime = 1
  BackLog = 1
PROPERTY
  LoopAsCommented
CHECK_DEADLOCK FALSE
