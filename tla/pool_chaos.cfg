SPECIFICATION Spec
CONSTANTS
  WorkerCount = 2
  Types = {"cpu", "memory"}
  Limit <- OneCpuTwoMemory
  ConcurrentTasks = 2
  ColdStart = TRUE
  MaxTasks = 3
  MaxFailures = 1
  MaxHangs = 1
  MaxPostFailures = 1
INVARIANTS
  SettledOnce
  SlotsHeld
