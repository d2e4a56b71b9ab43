CONSTANTS
  MaxTasks = 2
  MaxSaves = 3
  MaxStarts = 3
  MaxFaults = 2
SPECIFICATION FairSpec
INVARIANTS
  SnapshotSound
  LatestSaveKept
  RestoredOnce
PROPERTY HooksReturn
CHECK_DEADLOCK FALSE
