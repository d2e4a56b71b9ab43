SPECIFICATION FairSpec
CONSTANTS
  Categories = {"a"}
  Kinds <- LiveKinds
  MaxSize = 1
  ConcurrentTasks = 1
  MaxConcurrentRequests = 1
  QueueOverflowThreshold = 2
  BatchSizeThreshold = 2
  BatchMaxSize = 3
  BatchEligibleSizeMax = 1
  ForceReduceBatchSize = 1
  TaskTimeout = 1
  CleanupMaxAge = 1
  BatchMaxAge = 1
  WorkersEnabled = FALSE
  GcExposed = FALSE
  Punctual = FALSE
  MaxTasks = 2
  MaxRefused = 1
PROPERTY QueueProgress
