SPECIFICATION Spec
CONSTANTS
  c1 = c1
  c2 = c2
  c3 = c3
  Conn <- MCConn
  Silent = {}
  MaxConnections = 2
  MaxRelays = 1
  MaxStreams = 1
CHECK_DEADLOCK FALSE
SYMMETRY MCSymmetry
INVARIANTS
  IInv
  SocketsBounded
PROPERTIES
  ConnPoolSpec
