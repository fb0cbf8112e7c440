SPECIFICATION Spec
CONSTANTS
  MaxDuration = 7
  DefaultHandshakeTimeout = 5
  Givens <- MCIdleGivens
  MaxNonce = 5
  MaxRefusals = 0
INVARIANT IdleMeansSilent
