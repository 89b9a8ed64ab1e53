CONSTANTS
  a1 = a1
  a2 = a2
  a3 = a3
  Agents = {a1, a2, a3}
  Continuous = {a1}
  Promotable = {a2}
  Restorable = {}
  Limit = 1
  InitMaxStanding = 1
  StandingBounds = {0}
  Retained = 3
  None = None
SPECIFICATION FairSpec
INVARIANT PoolSound
PROPERTIES QueuedStarts CancelledEnds
