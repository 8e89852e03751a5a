CONSTANTS
  Pid = {p1, p2}
  None = None
  NoConn = NoConn
  MaxBirths = 2
  MaxSockets = 2
  MaxTime = 3
SYMMETRY Symmetry
SPECIFICATION Spec
INVARIANTS TypeOK LiveOwnerIsCurrent NewSocketClaimsNothingOld
PROPERTY OwnerIsFinal
CHECK_DEADLOCK FALSE
