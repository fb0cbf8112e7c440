SPECIFICATION FairSpec
CONSTANTS
  Sockets = {s1, s2}
  Closers = {k1}
  Aborters = {a1}
  MaxConcurrentHandshakes = 1
  MaxActiveConnections = 1
INVARIANTS
  SlotsConserved NothingEscapesClose DisconnectOnce
PROPERTIES StopsReturn
