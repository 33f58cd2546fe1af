SPECIFICATION Spec
CONSTANTS
  warm = warm  mild = mild  hot = hot  broken = broken  lower = lower
  w1 = w1  w2 = w2
  Workers = {w1, w2}
  Readings = {warm, hot, broken}
  Ids <- MCIds
  SensorOf <- MCSensorOf
  ValueOf <- MCValueOf
  Canonical <- MCCanonical
  WellFormed <- MCWellFormed
  Plausible <- MCPlausible
  Ranges <- MCRanges
  MinSamples = 1
  FaultyPorts = {"save"}
  MaxBatch = 2
  MaxCalls = 2
INVARIANTS BatchIsolatesFailures
