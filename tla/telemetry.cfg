SPECIFICATION StreamSpec
CONSTANTS
  Unknown = Unknown
  s1 = s1
  s2 = s2
  Sessions = {s1, s2}
  Budget = 2
  MaxQueued = 2
  Rate = 1
  Samples <- Usages
  Reasons = {"owner_cancel"}
  Workloads <- Loads
INVARIANTS
  TranscriptIsHonest
  FramesAccounted
  MetricsAddUp
CHECK_DEADLOCK FALSE
