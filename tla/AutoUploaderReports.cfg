CONSTANTS
  f1 = f1
  f2 = f2
  NoItem = NoItem
  Files = {f1, f2}
  Vanishing = {}
  SyncErrors = FALSE
  UsbMode = TRUE
  Notifications = TRUE
  Levels = {20, 60}
SPECIFICATION FairServiceSpec
INVARIANTS
  ProgressIsHonest
  FailuresAreShown
  ErrorIffIncomplete
PROPERTIES
  ServiceQuits
\* Every report has been uploaded and the service is idle.
CHECK_DEADLOCK FALSE
