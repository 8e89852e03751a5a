CONSTANTS
  None = None
  MaxPid = 2
  MaxBirths = 3
  FullEvery = 2
  MaxDumpProcs = 2
  c1 = c1
  c2 = c2
  Tcp = {c1, c2}
  Isn <- IsnDef
  SeqSpace = 18
  HelloLen = 4
  NoName = NoName
  RecordLen = 4
  MaxStream = 5
  MaxPending = 2
  Half = 2
  NumberSpace = 12
  MaxHello = 4
  MaxPacket = 11
  Stream = {s1, s2}
  Grace = 3
  Ping = 2
  Search = 3
  Adopting = 2
  Frame = {f1, f2}
  NoDump = NoDump
  QueueSize = 2
  SeenSize = 1
  MaxEvents = 3
SPECIFICATION PartsSpec
SYMMETRY Symmetry
INVARIANTS
  PartsTypeOK MembersDescend GroupIsOfSelected
  TlsHelloIsNamed QuicHelloIsNamed NearPacketIsOpened
  GoneWindowEnds ClosingServerReturns
  SavedIsWhole RequestsAreAnswered
PROPERTIES GroupEndIsSeen NameIsOfItsConnection ReloadDoesNotEnd
CHECK_DEADLOCK FALSE
