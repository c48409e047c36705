SPECIFICATION Spec
CONSTANTS
  Parts = {"ring", "queue", "filter", "pacer", "height"}
  Elements = {a, b}
  ZeroValue = zero
  InitSize = 0
  MaxSize = 8
  Packets = {0, 1, 2, 3, 4, 5}
  Entries = {x, y}
  NoEntry = none
  Window = 4
  MaxSample = 3
  MaxTime = 8
  Second = 4
  HalfRange = 64
  maxBurstPackets = 2
  maxBurstPacingDelayMultiplier = 4
  MinPacingDelay = 1
  InitialPacketSize = 3
  minBps = 1
  QuicSizes = {0, 2, 3, 4}
  Mtus = {3, 4}
  PacingRates = {0, 3, 5}
  MaxIdle = 14
  Never = never
  HeightWindow = 2
  Options <- MCOptions
  Bandwidths = {1, 2, 3}
  AckedBytes = {3, 7}
  MaxDelta = 2
  MaxBytes = 16
  MaxRound = 5
CHECK_DEADLOCK FALSE
INVARIANTS
  PartsInv
  FilterInv
PROPERTIES
  IsFifo
  IsPacketMap
  BestKept
  ZeroMeansNewEpoch
