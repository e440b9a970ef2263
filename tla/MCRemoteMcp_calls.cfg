\* Two callers.
SPECIFICATION ServingSpec
CONSTANTS
  None = None
  c1 = c1  c2 = c2
  k1 = k1  k2 = k2  k3 = k3
  i1 = i1  i2 = i2  i3 = i3  i4 = i4
  Call = {c1, c2}
  Child = {k1, k2}
  ReqId = {i1, i2, i3}
  MaxStale = 1
CHECK_DEADLOCK FALSE
INVARIANTS AnswersMatch NobodyForgotten OnlyFailedLinger
PROPERTIES EveryCallSettles HealsAlone
