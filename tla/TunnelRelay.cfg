SPECIFICATION FairSpec
CONSTANT MaxChunks = 2
INVARIANTS
  TunnelInv
PROPERTIES
  HandlerReturns
  CancelEnds
  GoroutinesEnd
