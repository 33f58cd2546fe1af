SPECIFICATION Spec
CONSTANTS
  Clients = {c1, c2}
  Rows = {r1, r2}
  Conns = {k1, k2}
  NoConn = NoConn
  NotJson = {r2}
  Faults = {}
  MaxCalls = 3
INVARIANTS CallsReturn
CHECK_DEADLOCK FALSE
