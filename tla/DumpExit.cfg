SPECIFICATION FairSpec
CONSTANTS
  QueueCapacity = 1
  BatchMax = 1
  MaxPackets = 0
  Request = {r1}
  Poller = Poller
  Main = Main
  File = {f1}
  NoFile = NoFile
  NoMeta = NoMeta
  LiveMayDie = FALSE
PROPERTY ExitFinalizes
