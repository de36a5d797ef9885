CONSTANTS
  f1 = f1
  f2 = f2
  f3 = f3
  f4 = f4
  f5 = f5
  d1 = d1
  d2 = d2
  segv = segv
  Levels = {20, 60}
  NoClass = NoClass
  Files = {f1, f2}
  Dirs = {d1}
  DirOf <- InOneDir
  Classes = {segv}
  ClassOf <- BySignal
  Max = 2
  Day = 1
  MaxTime = 1
  AutoDelete = TRUE
  AutoSend = TRUE
  Reachable = TRUE
  Restarts = FALSE
  Toggles = FALSE
  Removable = {}
SPECIFICATION FairSpec
PROPERTY
  EveryCoreRequested
\* Every report has come and gone.
CHECK_DEADLOCK FALSE
