SPECIFICATION FairSpec
CONSTANTS
  Task = {t1, t2}
  kRingSize = 2
INVARIANTS
  PopFindsTask
  NoLostWakeUp
PROPERTIES
  IsQueue
  TaskArrives
  WorkerExits
