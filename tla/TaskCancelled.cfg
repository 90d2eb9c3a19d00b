SPECIFICATION FairSpec
CONSTANTS
  StepCount = 2
  OpenAttempts = 3
  AttachAttempts = 2
  KeepOn = {"SUCCEEDED", "FAILED"}
  MaxCancels = 2
INVARIANT CancelReleases
CHECK_DEADLOCK FALSE
