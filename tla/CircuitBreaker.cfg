SPECIFICATION FairSpec
CONSTANTS
  Callers = {c1, c2, c3}
  EscapingCallers = {c3}
  FailureThreshold = 2
  ResetTimeout = 1
  HalfOpenMax = 2
  MaxFailures = 3
  MaxSetBacks = 1
INVARIANTS TypeOK TrippedIsCounted SlotsAreRunning
PROPERTIES FirstOutcomeDecides FailsFast RecoversWithService
