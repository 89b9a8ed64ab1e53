CONSTANTS
  Tools = {t1}
  Commands = {c1}
  Main = main
  Kinds = {"stdio", "sse"}
  MaxRequests = 2
SPECIFICATION FairSpec
INVARIANTS PendingIsWaiting
PROPERTIES ResolvedOnce RequestReturns StopEnds
CHECK_DEADLOCK FALSE
