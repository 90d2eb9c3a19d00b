SPECIFICATION Spec
CONSTANTS
  Rows = {1, 2}
  MaxSlots = 2
  Jobs = {j1, j2}
  NoJob = NoJob
  NoRow = NoRow
  MaxCalls = 0
  MaxCrashes = 1
  Clients = "wait"
SYMMETRY JobSymmetry
INVARIANT CompletedRan
CHECK_DEADLOCK FALSE
