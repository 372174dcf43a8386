SPECIFICATION Spec
CONSTANTS
  Events = {1, 3, 5}
  TurnIds = {2, 4}
  a = a
  b = b
  Roots <- TwoThreads
  None = None
  MaxClock = 1
  MaxCrashes = 1
INVARIANTS
  UnansweredIsReplayed
  DeliveredOnce
CHECK_DEADLOCK FALSE
