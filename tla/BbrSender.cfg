SPECIFICATION Spec
CONSTANTS
  pacingGain <- Cycle
  Setups <- MCSetups
  MinPackets = 1
  InitialPackets = 2
  MaxPackets = 4
  StartupLossCount = 1
  MinRttExpiry = 1
  ProbeRttTime = 1
  DefaultRtt = 1
  BufferSize = 1
CHECK_DEADLOCK FALSE
INVARIANTS
  SenderInv
  ModeConsistent
  ConservationLastsRound
PROPERTIES
  StartupKept
