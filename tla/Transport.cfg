SPECIFICATION FairSpec
CONSTANTS
  Readers = {r1, r2}
  Writers = {w1, w2}
  CallSets = {{r1, r2}, {w1, w2}, {r1, w1}}
  HeaderUnits = 2
  BodySizes = {0, 1}
  MaxFrames = 2
INVARIANTS NeverPoisoned FramesWhole
PROPERTY CallsReturn
