CONSTANTS
  Pid = {p1, p2}
  None = None
  NoConn = NoConn
  MaxBirths = 2
  MaxSockets = 2
  MaxTime = 3
SPECIFICATION Spec
INVARIANT OnlySocketIsNotDisputed
CHECK_DEADLOCK FALSE
