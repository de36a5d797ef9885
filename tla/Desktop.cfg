CONSTANTS
  r1 = r1
  r2 = r2
  r3 = r3
  Files = {r1, r2, r3}
  Created <- MCCreated
  Size <- MCSize
  Arguments <- MCArguments
  MaxKills = 1
  MaxId = 2
  MaxExits = 1
  MaxFailures = 2
  MaxCrashId = 3
  MaxCount = 1
SPECIFICATION DesktopSpec
INVARIANTS
  DesktopTypeOK
  ShowsWhatIsThere
  OneNotification
  NoBusyRestart
  OneCrashNotification
  CountsWhatIsShown
PROPERTIES
  RowsStay
  FullIsNoticed
  DBusChoiceSurvives
