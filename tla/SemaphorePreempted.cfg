SPECIFICATION Spec
CONSTANTS
  disk_task = disk_task
  user = user
  t1 = t1
  t2 = t2
  NULL = NULL
  TaskKernel = TaskKernel
  Disk = disk_task
  User = user
  Tasks = {disk_task, user, t1, t2}
  QUANTUM = 1
  MaxSleep = 0
  KernelPreemption = TRUE
  Initial = 1
  MaxUps = 1
SYMMETRY Created2
INVARIANTS
  TypeOK
  NeverOversold
  ValueCountsWaiters
  LockIsExclusive
PROPERTIES
  Implements
