CONSTANTS
  f1 = f1
  f2 = f2
  NoItem = NoItem
  Files = {f1, f2}
  Vanishing = {f2}
  SyncErrors = FALSE
  UsbMode = FALSE
SPECIFICATION FairSpec
PROPERTIES
  BatchEnds
