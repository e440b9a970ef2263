\* Skills of every kind the questions need, linted or not, compiled and run.
SPECIFICATION Spec
CONSTANTS
  None = None
  Simple <- MCSimple
  MaxDepth = 4
  Cases <- MCCases
  MaxItems = 2
  MaxNesting = 2
INVARIANTS CleanCompiles OrderSound InlinedStands DispatchChecked UnboundExplained ConditionsAgree
