SPECIFICATION Spec
CONSTANTS
  w1 = w1
  w2 = w2
  k1 = k1
  k2 = k2
  None = None
  Works = {w1, w2}
  Callers = {k1}
  NCPU = 1
  MaxDepth = 2
INVARIANTS PendingHasOneOwner
PROPERTIES FlushReturns
