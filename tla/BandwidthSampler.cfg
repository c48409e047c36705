SPECIFICATION Spec
CONSTANTS
  Setups <- MCSetups
CHECK_DEADLOCK FALSE
INVARIANTS
  SamplerInv
  NothingForgotten
  AppLimitedRule
