SPECIFICATION Spec
CONSTANTS
  p1 = p1
  p2 = p2
  p3 = p3
  c1 = c1
  Producers <- NoProducers
  Mode <- NoMode
  Closers = {c1}
  OutboundQueue = 1
  ControlQueue = 1
  HandlerQueue = 1
  Inbound = {"close", "other"}
  MaxRekeys = 0
  Scenarios <- Lifecycle
  MaxEvents = 2
INVARIANTS DoneIsFinal CloseHonest
PROPERTIES CauseStable
