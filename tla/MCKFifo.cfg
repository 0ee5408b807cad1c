SPECIFICATION Spec
CONSTANTS
  Bytes = {0, 1}
  W = 3
  LogSize = 2
  MaxLen = 3
INVARIANTS TypeOK
PROPERTIES ImplementsFifo
