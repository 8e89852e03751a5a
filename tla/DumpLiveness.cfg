SPECIFICATION FairSpec
CONSTANTS
  QueueCapacity = 1
  BatchMax = 1
  MaxPackets = 1
  Request = {r1}
  Poller = Poller
  Main = Main
  File = {f1}
  NoFile = NoFile
  NoMeta = NoMeta
  LiveMayDie = TRUE
PROPERTIES
  OperationsEnd
  BrokenRecordingEnds
  QuitLeads
