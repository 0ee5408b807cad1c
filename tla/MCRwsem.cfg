SPECIFICATION Spec
CONSTANTS
  t1 = t1
  t2 = t2
  t3 = t3
  NoTask = NoTask
  Irq = Irq
  Tasks = {t1, t2, t3}
  MaxOrphans = 2
INVARIANTS TypeOK ActivityAgrees QueueBehindReaders NoStaleWaiter GrantedIsWoken
PROPERTIES WaitersServed ImplementsLock
