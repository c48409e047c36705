SPECIFICATION Spec
CONSTANTS
  p1 = p1
  Profiles <- MCProfiles
  None = None
  MaxGen = 4
  ExitCap = 1
  Cancels <- MCBoth
  MaxConnects = 3
INVARIANT
  DisconnectedIsClosed
CHECK_DEADLOCK FALSE
