SPECIFICATION MCSpec
CONSTANTS
  ServerRetained = 2
  Retentions = {1, 2}
  RetiredCap = 1
  MaxEpoch = 2
  MaxGen = 3
  MaxLaterGen = 2
  MaxNet = 2
  MaxUp = 2
  Modes = {"ack", "independent", "legacy"}
  EventCap = 2
  OutCap = 2
  MaxDown = 1
  AttachEpochs = 2
  AttachGens = 2
  ChunkBytes = 2
  MinInput = 4
  MinSaving = 2
  MaxWorkingBytes = 65535
  MaxFragments = 32
  MaxBodies = 3
  NoFile = NoFile
  Foreign = Foreign
  FileSize = 2
  MaxEdits = 3
  MaxBreaks = 1
  MaxKills = 2
INVARIANTS
  LastOutputShown
  
  PayloadsWhole
  OneVersion
PROPERTIES
  ImplementsView
  AttachImplementsView
  
  AttachEnds
