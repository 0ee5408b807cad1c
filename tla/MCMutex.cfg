SPECIFICATION Spec
CONSTANTS
  t1 = t1
  t2 = t2
  t3 = t3
  NoTask = NoTask
  Tasks = {t1, t2, t3}
  Arch = {"dec", "dec_nocmpxchg", "xchg", "null"}
  LockModes = {"INTERRUPTIBLE", "KILLABLE", "UNINTERRUPTIBLE"}
  Signals = {"ordinary", "fatal"}
INVARIANTS TypeOK MutualExclusion CountAgrees SleepersCovered
PROPERTIES FreeMutexIsTaken ImplementsLock
