SPECIFICATION Spec
CONSTANTS
  default = default  selective = selective  never = never
  Callers = {default, selective, never}
  EscapingCallers = {selective}
  Kinds <- MCKinds
  MaxAttempts <- MCMaxAttempts
  Retryable <- MCRetryable
  BaseDelay = 3
  MaxDelay = 3
  Exponential = TRUE
  Jitter = TRUE
  FailureThreshold = 2
  ResetTimeout = 2
  HalfOpenMax = 1
  MaxFailures = 3
INVARIANTS TypeOK GivesUpOnlyWhenSpent SleepIsBounded PatientCallsGetThrough
PROPERTIES CallsEnd
