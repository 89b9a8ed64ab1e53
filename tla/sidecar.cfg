CONSTANTS
  Callers = {t1, t2}
  Modes = {"tools", "prewarm"}
  MaxRestarts = 1
  MaxPolls = 1
  MaxSpawns = 2
  MaxCalls = 4
SPECIFICATION FairSpec
INVARIANTS StateIsTrue RestartsBounded NothingEscapes
PROPERTY EnsureReturns
CHECK_DEADLOCK FALSE
