SPECIFICATION MCSpec
CONSTANTS
  c1 = c1
  c2 = c2
  None = None
  Commands = {c1, c2}
  Holders <- MCHolders
  Workloads <- MCWorkloads
  Sizes = {1, 2, 3}
  MaxPushes = 1
INVARIANTS
  AnswersMatchRuns
PROPERTIES
  NoOvertaking
  EveryWaiterServed
  ShimsReturn
CHECK_DEADLOCK FALSE
