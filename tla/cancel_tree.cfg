CONSTANTS
  Tokens = {t1, t2, t3}
SPECIFICATION FairSpec
INVARIANTS NoHopMissed HeldChainFires
PROPERTY CallbackRuns
CHECK_DEADLOCK FALSE
