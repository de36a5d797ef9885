CONSTANTS
  Fields = {"MESSAGE", "UNIT"}
  Patterns = {"crash"}
  Invalid = "("
  Levels = {20, 60}
  Silent = 1
  MaxLines = 4
  MaxHits = 5
  MaxTime = 6
  SnapshotsToPack = 4
  MinSessionLength = 2
  MaxBoots = 4
  MaxSnapshots = 6
  MaxQueue = 2
SPECIFICATION ServicesSpec
INVARIANTS
  ServicesTypeOK
  SilentIffRecent
  StaysAwake
  LetsSleep
  OneSession
  QuietMeansRight
  ShownIsTrue
  SwitchAgrees
  RunsAsMarked
PROPERTIES
  LoadsWhatIsWritten
  SnapshotsGoOn
  ClickSettles
\* Time is bounded, and the page may stay as it is.
CHECK_DEADLOCK FALSE
