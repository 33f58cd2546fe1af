SPECIFICATION Spec
CONSTANTS
  Threads = {t1, t2, t3}
  FailureThreshold = 2
  ResetTimeout = 1
  HalfOpenMax = 1
  MaxCount = 3
SYMMETRY Interchangeable
INVARIANTS TypeOK NeverTripsEarly
PROPERTIES SequentialUntilPreempted
