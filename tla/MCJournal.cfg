SPECIFICATION Spec
CONSTANTS
  b1 = b1
  b2 = b2
  Blocks = {b1, b2}
  Allocated = {b1, b2}
  L = 10
  Starts = {9}
  MaxTid = 3
  MaxBuffers = 2
  Reserved = 7
  Windows = {}
INVARIANTS TypeOK CrashRecovers WriteAhead
SYMMETRY Symmetry
