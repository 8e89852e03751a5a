CONSTANTS
  Instance = {i1, i2}
  Name = {n1, n2}
  Free = Free
  Torn = Torn
SPECIFICATION Spec
SYMMETRY Symmetry
INVARIANTS TypeOK FileIsWhole ExitIsKept
PROPERTY SavesInOrder
CHECK_DEADLOCK FALSE
