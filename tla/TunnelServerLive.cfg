SPECIFICATION FairSpec
CONSTANTS
  c1 = c1
  c2 = c2
  c3 = c3
  Conn <- MCTwoConn
  Silent = {c1}
  MaxConnections = 2
  MaxRelays = 1
  MaxStreams = 1
CHECK_DEADLOCK FALSE
PROPERTIES
  RelayPoolFair
  HandshakeEnds
  GoneClientFreed
  ShutdownReturns
