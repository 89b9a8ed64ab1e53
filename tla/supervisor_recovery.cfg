CONSTANTS
  a1 = a1
  a2 = a2
  a3 = a3
  Agents = {a1, a2, a3}
  Continuous = {a1}
  Promotable = {}
  Restorable = {a1, a2, a3}
  Limit = 1
  InitMaxStanding = 0
  StandingBounds = {0, 1}
  Retained = 0
  None = None
SPECIFICATION Spec
SYMMETRY Symm
INVARIANTS SlotInv WaitAllSound
PROPERTY PermitsArePool
