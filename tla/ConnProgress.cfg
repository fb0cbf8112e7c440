SPECIFICATION FairSpec
CONSTANTS
  p1 = p1
  p2 = p2
  p3 = p3
  c1 = c1
  Producers <- TwoWaiters
  Mode <- TwoModes
  Closers = {c1}
  OutboundQueue = 1
  ControlQueue = 1
  HandlerQueue = 1
  Inbound = {"data", "ping", "bad"}
  MaxRekeys = 0
  Scenarios <- Progress
  MaxEvents = 2
INVARIANTS HandlersContained
PROPERTIES ShutdownCompletes CallersReturn
