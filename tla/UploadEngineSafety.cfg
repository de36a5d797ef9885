CONSTANTS
  f1 = f1
  f2 = f2
  f3 = f3
  NoItem = NoItem
  Files = {f1, f2, f3}
  Vanishing = {f2}
  SyncErrors = TRUE
  UsbMode = TRUE
SPECIFICATION Spec
INVARIANTS
  TypeOK
  CurrentItemAlive
  OneRequestAtATime
  NoItemForgotten
  AnsweredOrKept
PROPERTIES
  FinishedAtTheEnd
  ImplementsBatch
  KeepsItemContract
