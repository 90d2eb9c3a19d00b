SPECIFICATION Spec
CONSTANTS
  Rows = {1, 2}
  MaxSlots = 2
  Jobs = {j1, j2}
  NoJob = NoJob
  NoRow = NoRow
  MaxCalls = 1
  MaxCrashes = 0
  Clients = "serial"
SYMMETRY JobSymmetry
INVARIANT OneLiveJob
CHECK_DEADLOCK FALSE
