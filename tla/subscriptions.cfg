SPECIFICATION MCSpec
CONSTANTS
  channel = channel
  e1 = e1
  e2 = e2
  e3 = e3
  e4 = e4
  Subs = {channel}
  Events = {e1, e2, e3, e4}
  SubOf <- OneChannel
  Skew = 1
  Lag = 1
  RotateAt = 2
  None = None
  MaxClock = 2
  MaxTroubles = 2
  Limits = {1, 2}
  MaxPushes = 1
  TurnClock = 1
SYMMETRY Alike
INVARIANTS
  NothingMissing
  NothingToldTwice

  
CHECK_DEADLOCK FALSE
