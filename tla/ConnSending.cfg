SPECIFICATION Spec
CONSTANTS
  p1 = p1
  p2 = p2
  p3 = p3
  c1 = c1
  Producers <- AllProducers
  Mode <- AllModes
  Closers = {c1}
  OutboundQueue = 1
  ControlQueue = 1
  HandlerQueue = 1
  Inbound = {}
  MaxRekeys = 1
  Scenarios <- Sending
  MaxEvents = 1
INVARIANTS AwaitedOnce WrittenInOrder ResultsHonest
