SPECIFICATION HttpSpec
CONSTANTS
  a1 = a1
  a2 = a2
  d1 = d1
  none = none
  HttpCall <- Calls
  Caller <- Callers
  Describe <- Descriptions
  DEFAULT_IDENTITY_KEY = "<default>"
  maxPoolSize = 1
  LateErrors = FALSE
  MaxFaults = 1
INVARIANTS PinnedIdentity PoolBounded NoDoubleEffect
PROPERTY Recovers
CHECK_DEADLOCK FALSE
