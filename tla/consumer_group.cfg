SPECIFICATION FairSpec
CONSTANTS
  Pids = {1, 2}
  Partitions = {0}
  Options <- LabOptions
  MAX_INSTANCES = 2
  MaxEvents = 2
  MaxConsumers = 2
  MaxDisturbances = 2
INVARIANTS
  RepeatsExplained
  LossExplained
  ManagerConsistent
PROPERTIES
  AtLeastOnceFromBeginning
  EventuallyRead
  NoOrphans
CHECK_DEADLOCK FALSE
