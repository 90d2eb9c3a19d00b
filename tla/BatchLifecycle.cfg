SPECIFICATION Spec
CONSTANTS
  Rows = {1, 2}
  MaxSlots = 2
  Jobs = {j1, j2}
  NoJob = NoJob
  NoRow = NoRow
  MaxCalls = 2
  MaxCrashes = 1
  Clients = "wait"
SYMMETRY JobSymmetry
INVARIANTS
  TypeOK
  ControlReachesJob
  SettledTasks
  CompletedEarned
  RowsRunOnce
PROPERTIES
  ResultsStand
  CancelledOnRequest
CHECK_DEADLOCK FALSE
