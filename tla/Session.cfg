SPECIFICATION SessionSpec
CONSTANTS
  WindowSize = 2
  Payloads = {p1}
  MaxSequence = 4
  MaxEpoch = 3
  RekeyFrameLimit = 3
  RekeyInterval = 1
  GraceFrames = 2
  GracePeriod = 2
INVARIANTS
  NonceNeverReused RekeyInitEndsEpoch EpochAgreement AcceptedOnce
  InOrderAccepted GraceBudget SequenceHeadroom
PROPERTY NoRevival
CHECK_DEADLOCK FALSE
