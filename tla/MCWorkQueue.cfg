SPECIFICATION Spec
CONSTANTS
  w1 = w1
  w2 = w2
  k1 = k1
  k2 = k2
  None = None
  Works = {w1}
  Callers = {k1, k2}
  NCPU = 2
  MaxDepth = 1
INVARIANTS TypeOK PendingHasOneOwner CancelledIsIdle
PROPERTIES FlushWaits
