SPECIFICATION Spec
CONSTANTS
  e1 = e1
  e2 = e2
  e3 = e3
  e4 = e4
  Events = {e1, e2, e3}
  ThreadRoot <- TwoReplies
  ChannelKey = channel
  None = None
  Permits = 1
  Reports = {}
  Allowed = {"cancel", "prompt_failure", "rotate", "close"}
  MaxDisturbances = 3
INVARIANTS
  PermitFollowsTurn
  OneRun
CHECK_DEADLOCK FALSE
