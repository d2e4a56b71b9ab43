CONSTANTS
  Requests = {1, 2}
  Bodies <- AllRoutes
  Settings <- AllSettings
  MAX_COUNT = 2
  Partitions = {0, 1}
  Hash <- TwoPartitions
  MaxDisturbances = 1
SPECIFICATION FairSpec
INVARIANTS
  QueueConsistent
  EventsFollowFlow
  HonestReports
  ResetIsClean
PROPERTY FlowProgress
CHECK_DEADLOCK FALSE
