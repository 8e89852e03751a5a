SPECIFICATION Spec
CONSTANTS
  QueueCapacity = 2
  BatchMax = 2
  MaxPackets = 3
  Request = {r1}
  Poller = Poller
  Main = Main
  File = {f1}
  NoFile = NoFile
  NoMeta = NoMeta
  LiveMayDie = FALSE
INVARIANTS
  TypeOK
  OkMeansComplete
  FilteredMeansComplete
  AcceptedBeforeMerge
