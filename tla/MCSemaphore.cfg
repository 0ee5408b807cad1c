SPECIFICATION Spec
CONSTANTS
  t1 = t1
  t2 = t2
  t3 = t3
  NoTask = NoTask
  Tasks = {t1, t2, t3}
  Permits = 1
  MaxExtra = 1
  DownModes = {"INTERRUPTIBLE", "KILLABLE", "UNINTERRUPTIBLE"}
  Signals = {"ordinary", "fatal"}
INVARIANTS TypeOK PermitsConserved NoFreePermitWhileWaiting QueueIsLive GrantedIsAwake
PROPERTIES ServedInOrder WaitersLeave
