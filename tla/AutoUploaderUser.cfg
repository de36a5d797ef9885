CONSTANTS
  f1 = f1
  f2 = f2
  NoItem = NoItem
  Files = {f1, f2}
  Vanishing = {}
  SyncErrors = FALSE
  UsbMode = FALSE
  Notifications = TRUE
  Levels = {20, 60}
SPECIFICATION ServiceSpec
PROPERTIES
  UserUploadsGoOn
\* Every report has been uploaded and the service is idle.
CHECK_DEADLOCK FALSE
