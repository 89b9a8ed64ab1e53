CONSTANTS
  Agents = {main, a1}
  Nameless = {main}
  Cap = 1
  GzipAt = 1
  MaxOpens = 2
  MaxSessions = 2
  MaxMessages = 2
  MaxClock = 2
  MaxFaults = 2
SPECIFICATION Spec
INVARIANTS AckedIsOnDisk FoundAgain ListsAll
CHECK_DEADLOCK FALSE
