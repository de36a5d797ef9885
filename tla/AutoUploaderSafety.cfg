CONSTANTS
  f1 = f1
  f2 = f2
  NoItem = NoItem
  Files = {f1, f2}
  Vanishing = {f2}
  SyncErrors = TRUE
  UsbMode = TRUE
  Notifications = TRUE
  Levels = {20, 60}
SPECIFICATION ServiceSpec
INVARIANTS
  ServiceTypeOK
  SuccessIsNotInflated
\* Every report has been uploaded and the service is idle.
CHECK_DEADLOCK FALSE
