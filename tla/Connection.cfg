CONSTANTS
  r1 = r1
  r2 = r2
  s1 = s1
  s2 = s2
  None = None
  Requests <- TwoRequests
  Sockets <- TwoSockets
  MaxConnects = 1
  MaxTimers = 1
SPECIFICATION Spec
INVARIANTS
  TypeOK
  PendingIsReachable
PROPERTIES
  ImplementsChannel
SYMMETRY Symmetry
