\* MaxFrameSize 65535 and MaxUint8 255 of the code, scaled down.
CONSTANTS
  MaxSequenceSize = 143
  MaxUint8 = 8
  Calls <- MCCalls
SPECIFICATION Spec
INVARIANTS
  Delivered
  SizesExact
  DecodeExact
  ReceivedCanBeSent
