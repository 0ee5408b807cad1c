SPECIFICATION Spec
CONSTANTS
  c1 = c1
  c2 = c2
  Callbacks = {c1, c2}
  NCPU = 2
  W = 2
INVARIANTS TypeOK GracePeriodElapsed BatchWillRun
