SPECIFICATION Spec
CONSTANTS
  b1 = b1
  b2 = b2
  Blocks = {b1}
  Allocated = {b1}
  L = 12
  Starts = {1}
  MaxTid = 5
  MaxBuffers = 1
  Reserved = 7
  Windows = {"tail"}
INVARIANTS CrashRecovers
