SPECIFICATION Spec
CONSTANTS
  b1 = b1
  b2 = b2
  Blocks = {b1}
  Allocated = {b1}
  L = 13
  Starts = {1}
  MaxTid = 3
  MaxBuffers = 2
  Reserved = 7
  Windows = {"forget"}
INVARIANTS CrashRecovers
