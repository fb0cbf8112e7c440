SPECIFICATION FairSpec
CONSTANTS
  MaxDuration = 7
  DefaultHandshakeTimeout = 5
  Givens <- MCGivens
  MaxNonce = 5
  MaxRefusals = 2
INVARIANTS TimeoutJustified AcknowledgementMatches
PROPERTY SilenceNoticed
