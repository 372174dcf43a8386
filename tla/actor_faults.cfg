SPECIFICATION Spec
CONSTANTS
  e1 = e1
  e2 = e2
  e3 = e3
  e4 = e4
  Events = {e1, e2, e3}
  ThreadRoot <- ReplyAndOther
  ChannelKey = channel
  None = None
  Permits = 2
  Reports = {"agent_end"}
  Allowed = {"cancel", "rotate", "close", "open_failure", "prompt_failure", "abort_failure", "config_push"}
  MaxDisturbances = 3
INVARIANTS
  Accounted
  DurableMatchesMemory
PROPERTIES
  ImplementsConversationTurns
CHECK_DEADLOCK FALSE
