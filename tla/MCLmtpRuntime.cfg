SPECIFICATION FairSpec
CONSTANTS
  Conns = {c1, c2, c3}
  NoConn = noconn
  Closers = {q1, q2}
  MaxConnections = 2
INVARIANTS
  ReadyMeansAccepting
  CleanCloseIsQuiet
  NoneOverlooked
PROPERTIES
  CloseReturns
CHECK_DEADLOCK FALSE
