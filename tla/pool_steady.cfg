SPECIFICATION FairSpec
CONSTANTS
  WorkerCount = 2
  Types = {"cpu", "memory"}
  Limit <- OneCpuTwoMemory
  ConcurrentTasks = 2
  ColdStart = FALSE
  MaxTasks = 4
  MaxFailures = 0
  MaxHangs = 0
  MaxPostFailures = 0
INVARIANTS
  AssignmentsExact
  RunningWithinLimit
  NoIdleWorkerWithWork
PROPERTY PoolEventuallySettles
