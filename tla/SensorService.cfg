SPECIFICATION Spec
CONSTANTS
  warm = warm  mild = mild  hot = hot  broken = broken  lower = lower
  w1 = w1  w2 = w2
  Workers = {w1, w2}
  Readings = {warm, hot, broken}
  Ids <- MCIds
  SensorOf <- MCSensorOf
  ValueOf <- MCValueOf
  Canonical <- MCCanonical
  WellFormed <- MCWellFormed
  Plausible <- MCPlausible
  Ranges <- MCRanges
  MinSamples = 2
  FaultyPorts = {"get_threshold", "get_stats", "save", "commit", "send_alert",
                 "increment_counter", "observe_histogram"}
  MaxBatch = 2
  MaxCalls = 2
INVARIANTS TypeOK BatchAccounting AnomaliesAreAlerted MetricsAgreeWithStore HistogramFollowsCounter VerdictExplained
SYMMETRY Interchangeable
