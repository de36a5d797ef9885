CONSTANTS
  f1 = f1
  f2 = f2
  f3 = f3
  f4 = f4
  f5 = f5
  d1 = d1
  d2 = d2
  segv = segv
  Levels = {20, 60}
  NoClass = NoClass
  Files = {f1, f2, f3, f4}
  Dirs = {d1, d2}
  DirOf <- InTwoDirs
  Classes = {segv}
  ClassOf <- BySignal
  Max = 2
  Day = 1
  MaxTime = 3
  AutoDelete = TRUE
  AutoSend = TRUE
  Reachable = TRUE
  Restarts = FALSE
  Toggles = FALSE
  Removable = {}
SYMMETRY Alike
SPECIFICATION Spec
INVARIANTS
  LessThanTwiceMax
  NoCoreForgotten
\* Every report has come and gone.
CHECK_DEADLOCK FALSE
