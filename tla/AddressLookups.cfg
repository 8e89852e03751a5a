CONSTANTS
  a1 = a1
  a2 = a2
  c1 = c1
  c2 = c2
  Addr = {a1, a2}
  Public = {a1}
  Name = {n1, n2, n3}
  None = None
  Conn = {c1, c2}
  Remote <- RemoteDef
  Ttl = {0, 1, 2}
  Day = 1
  MaxValid = 2
  MaxNames = 1
  KeepNames = 0
  MaxTime = 1
  Batch = 1
  MaxRetries = 2
  RetryAfter = 1
SPECIFICATION Spec
SYMMETRY Symmetry
INVARIANTS TypeOK SniIsShown
PROPERTIES DnsNameWasUnique DnsNameStays PollGivesBestName
CHECK_DEADLOCK FALSE
