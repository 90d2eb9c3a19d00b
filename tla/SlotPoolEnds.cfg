SPECIFICATION FairSpec
CONSTANTS
  SlotLimit = 3
  Warmup = TRUE
  InitialLimit = 1
  MinLimit = 0
  Threshold = 30
  WindowSize = 3
  RecoveryStreak = 2
  TaskCount = 5
  MaxPauses = 1
PROPERTY PoolEnds
CHECK_DEADLOCK FALSE
