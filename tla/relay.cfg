SPECIFICATION Spec
CONSTANTS
  sub = sub
  event = event
  Subs = {sub}
  Events = {event}
  Query = query
  None = None
  StartupAttempts = 2
  MaxSockets = 2
  MaxUnread = 2
  MaxTroubles = 2
INVARIANTS
  AuthAnswersOwnChallenge
  ReadyServesAll
PROPERTIES
  CallsAnswered
CHECK_DEADLOCK FALSE
