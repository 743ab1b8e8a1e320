SPECIFICATION Spec
CONSTANTS
  disk_task = disk_task
  user = user
  t1 = t1
  t2 = t2
  NULL = NULL
  TaskKernel = TaskKernel
  Disk = disk_task
  User = user
  Tasks = {disk_task, user, t1}
  QUANTUM = 1
  MaxSleep = 1
  KernelPreemption = TRUE
  Codes = {7}
  MayWait <- UserWaits
INVARIANT
  WaitGuarantee
