SPECIFICATION Spec
CONSTANTS
  c1 = c1
  m1 = m1
  Channels = {c1}
  Archived = {}
  Allowlist = {}
  MaxChanges = 2
  Msgs = {m1}
  ChannelOf <- MCChannelOf
  AuthorOf <- MCAuthorOf
  TypeOf <- MCTypeOf
  Pushes = {"anyone"}
  None = None
  MaxTroubles = 1
INVARIANTS
  
  RosterFollowsRows
  LastWordIsOffline
PROPERTIES
  StopFinishes
CHECK_DEADLOCK FALSE
