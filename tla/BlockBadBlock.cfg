SPECIFICATION FairDriverSpec
CONSTANTS
  disk_task = disk_task
  user = user
  t1 = t1
  t2 = t2
  NULL = NULL
  TaskKernel = TaskKernel
  Disk = disk_task
  User = user
  Tasks = {disk_task, user}
  QUANTUM = 2
  MaxSleep = 1
  KernelPreemption = FALSE
  InterruptInWalk = FALSE
  BadBlocks = TRUE
  Codes = {7}
  MayWait = {}
PROPERTY
  EveryRequestAnswered
