SPECIFICATION FairSpec
CONSTANTS
  Pids = {1, 2}
  Partitions = {0}
  Options <- DefaultOptions
  MAX_INSTANCES = 1
  MaxEvents = 2
  MaxConsumers = 2
  MaxDisturbances = 0
PROPERTY AtLeastOnce
CHECK_DEADLOCK FALSE
