SPECIFICATION Spec
CONSTANTS
  None = None
  NoSession = NoSession
  Tombstone = Tombstone
  Base <- EnvConfig
  Documents <- Docs
  Provisioned <- Records
  Creds = {c1, c2}
  TracingKeys = {pk}
  Keys = {k1}
  MaxTime = 2
  MaxPushes = 2
  MaxRefreshes = 1
  MaxStamp = 3
  MaxFaults = 1
INVARIANTS
  
  ConfigFollowsRecord
  SessionsFollowConfig
CHECK_DEADLOCK FALSE
