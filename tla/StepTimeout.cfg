SPECIFICATION StepSpec
CONSTANTS
  Selectors = {"a", "b"}
  Workflows <- MCWorkflows
  Doms <- MCDoms
  LoopCap = 2
  ClickCap = 2
  SampleCap = 2
  NavAttempts = 2
  Candidates = {1, 2}
  MaxChanges = 1
INVARIANT TimeoutForgiven
CHECK_DEADLOCK FALSE
