CONSTANTS
  Pid = {p1}
  None = None
  NoConn = NoConn
  MaxBirths = 2
  MaxSockets = 2
  MaxTime = 4
SPECIFICATION RecordingSpec
INVARIANTS RecordingTypeOK ScopedCopyIsOurs ClaimHasOneLifetime
CHECK_DEADLOCK FALSE
