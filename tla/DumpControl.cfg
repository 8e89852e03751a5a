SPECIFICATION Spec
CONSTANTS
  QueueCapacity = 1
  BatchMax = 1
  MaxPackets = 0
  Request = {r1, r2}
  Poller = Poller
  Main = Main
  File = {f1, f2}
  NoFile = NoFile
  NoMeta = NoMeta
  LiveMayDie = FALSE
SYMMETRY Symmetry
INVARIANTS
  EveryChildHasOneOwner
  OneCapture
  UnfilteredIsAnnounced
PROPERTY ImplementsRecorder
