SPECIFICATION Spec
CONSTANTS
  Clients = {c1, c2, c3}
  Rows = {r1, r2}
  Conns = {k1, k2}
  NoConn = NoConn
  NotJson = {r2}
  Faults = {"connect", "execute", "commit", "acknowledge", "interrupt"}
  MaxCalls = 3
SYMMETRY Interchangeable
INVARIANTS TypeOK ConnsAccounted HandsBackCleanConns AcknowledgedIsVisible
PROPERTIES ImplementsStore
CHECK_DEADLOCK FALSE
