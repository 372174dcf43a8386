SPECIFICATION OutboxFairSpec
CONSTANTS
  m1 = m1
  m2 = m2
  m3 = m3
  t1 = t1
  t2 = t2
  Messages = {m1, m2}
  Turn <- TwoTurns
  Chunks <- FirstIsLong
  NoPart = NoPart
  MaxAttempts = 2
  MaxOrdinal = 4
  MaxCrashes = 1
INVARIANTS
  EffectivelyOnce
  DurableFirst
  OrderedUnlessFailed
PROPERTIES
  EveryOutputSettles
