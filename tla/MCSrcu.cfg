SPECIFICATION Spec
CONSTANTS
  r1 = r1
  r2 = r2
  u1 = u1
  u2 = u2
  NoTask = NoTask
  Readers = {r1, r2}
  Updaters = {u1, u2}
  NCPU = 2
  MaxFlips = 3
  MaxRef = 1
INVARIANTS TypeOK GracePeriodElapsed OldRankOnlyDrains CountersAddUp
PROPERTIES GracePeriodEnds
