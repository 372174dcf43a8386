SPECIFICATION FairSpec
CONSTANTS
  e1 = e1
  e2 = e2
  e3 = e3
  e4 = e4
  Events = {e1, e2, e3, e4}
  ThreadRoot <- TwoThreads
  ChannelKey = channel
  None = None
  Permits = 1
  Reports = {"message_end", "agent_end"}
  Allowed = {}
  MaxDisturbances = 0
INVARIANTS
  OutputsFollowTheirTurn

  
  
CHECK_DEADLOCK FALSE
