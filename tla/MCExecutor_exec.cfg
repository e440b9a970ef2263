\* Every way a run and a run it composes may go.
SPECIFICATION FairSpec
CHECK_DEADLOCK FALSE
CONSTANTS
  x = x  Never = Never
  Var = {x}
  Ops <- MCOps
  Body <- MCBody
  Setup <- MCSetup
  CleanupCap = 1
  Absolute = 2
  MaxDepth = 2
  MaxItems = 2
INVARIANTS LendsNothing CutReported CleanMeansComplete
PROPERTIES Uncatchable RunEnds
