SPECIFICATION Spec
CONSTANTS
  Firings = {f1, f2}
  Requests = {q1, q2}
  Batches = {b1, b2}
  NoBatch = NoBatch
  Exprs = {daily}
  BadExprs = {}
  Unborn = Unborn
  Gone = Gone
  NoJob = NoJob
  Serial = FALSE
  DetailRaises = FALSE
SYMMETRY Symmetry
INVARIANTS
  TypeOK
  OneFiredBatch
  GuardExact
CHECK_DEADLOCK FALSE
