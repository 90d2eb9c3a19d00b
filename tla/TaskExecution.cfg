SPECIFICATION FairSpec
CONSTANTS
  StepCount = 2
  OpenAttempts = 3
  AttachAttempts = 2
  KeepOn = {"SUCCEEDED", "FAILED"}
  MaxCancels = 2
INVARIANTS
  TypeOK
  WindowReleased
  LayoutForgets
  SuccessIsComplete
  RunDecided
PROPERTIES
  OpensAlternate
  SlotFreed
  ImplementsLifecycle
CHECK_DEADLOCK FALSE
