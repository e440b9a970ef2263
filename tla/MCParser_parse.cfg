SPECIFICATION Spec
CHECK_DEADLOCK FALSE
CONSTANTS
  none = none
  Line <- MCLine
  Weight <- MCWeight
  MaxWeight = 6
  MaxFaults = 2
INVARIANTS KeptWhereWritten BranchWhereWritten NoCascade
CONSTRAINT FirstLine
