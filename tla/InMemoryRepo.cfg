SPECIFICATION Spec
CONSTANTS
  early = early  late = late  tied = tied  other = other
  temp = temp  pres = pres
  Clients = {c1, c2}
  Rows = {early, late, tied, other}
  SensorOf <- MCSensorOf
  TimeOf <- MCTimeOf
  Anomalous = {tied}
  QueryCalls <- MCQueries
  StatsLimit = 2
  MaxBatch = 2
  MaxCalls = 3
INVARIANTS TypeOK ResultsAreNewest TiesInStoredOrder StatisticsAgree
PROPERTIES ImplementsStore
CHECK_DEADLOCK FALSE
