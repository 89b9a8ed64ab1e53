CONSTANTS
  Drivers = {"worker", "repl"}
  Says = {1, 2}
  KeepLast = 1
  MaxToolTurns = 2
  MaxCalls = 2
  MaxRejected = 1
  MaxCompacted = 1
  MaxFaults = 1
  MaxRuns = 2
SPECIFICATION FairSpec
INVARIANTS RequestIsPaired TranscriptIsTrue MemoryIsDurable
PROPERTIES ActsOnce TurnEnds
CHECK_DEADLOCK FALSE
