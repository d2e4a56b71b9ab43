CONSTANTS
  Tasks = {1, 2, 8}
  Sync = {8}
  Priority <- Priorities
  Workers = 1
  MaxQueue = 1
  MaxRetries = 1
SPECIFICATION FairSpec
INVARIANTS
  WorkersExact
  QueueDiscipline
  HonestCounts
  QuietAfterStop
PROPERTY PoolProgress
CHECK_DEADLOCK FALSE
