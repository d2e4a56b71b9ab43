SPECIFICATION Spec
CONSTANTS
  Categories = {"a", "b"}
  Kinds <- MixedKinds
  MaxSize = 2
  ConcurrentTasks = 2
  MaxConcurrentRequests = 2
  QueueOverflowThreshold = 2
  BatchSizeThreshold = 2
  BatchMaxSize = 3
  BatchEligibleSizeMax = 1
  ForceReduceBatchSize = 1
  TaskTimeout = 1
  CleanupMaxAge = 1
  BatchMaxAge = 1
  WorkersEnabled = TRUE
  GcExposed = TRUE
  Punctual = FALSE
  MaxTasks = 3
  MaxRefused = 0
PROPERTY ImplementsLifecycle
INVARIANTS
  TypeOK
  ActiveBound
  ActiveAccounting
  NoLostWakeup
  SignalScheduled
  SinglePlace
  StatsAccounting
  QueueBound
  BatchSizeExact
