SPECIFICATION FairSpec
CONSTANTS
  Firings = {f1}
  Requests = {q1}
  Batches = {b1, b2}
  NoBatch = NoBatch
  Exprs = {daily, weekly, broken}
  BadExprs = {broken}
  Unborn = Unborn
  Gone = Gone
  NoJob = NoJob
  Serial = TRUE
  DetailRaises = TRUE
INVARIANTS
  RegisteredIffEnabled
PROPERTIES
  GuardReleased
CHECK_DEADLOCK FALSE
