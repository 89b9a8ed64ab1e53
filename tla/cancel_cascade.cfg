CONSTANTS
  Tokens = {t1, t2, t3}
SPECIFICATION Spec
SYMMETRY Symm
INVARIANT CancelCascades
CHECK_DEADLOCK FALSE
