SPECIFICATION FairSpec
CONSTANTS
  Rows = {1, 2}
  MaxSlots = 2
  Jobs = {j1}
  NoJob = NoJob
  NoRow = NoRow
  MaxCalls = 3
  MaxCrashes = 0
  Clients = "wait"
PROPERTY CancelEndsJob
CHECK_DEADLOCK FALSE
