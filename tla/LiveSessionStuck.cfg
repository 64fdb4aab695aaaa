SPECIFICATION FairSpec
CONSTANTS
  Sizes = {1, 2}
  AttachmentLimit = 3
  MaxFaults = 1
  MaxTyped = 0
  MaxResizes = 0
  EventLimit = 2
PROPERTIES
  RecoveryEnds
CHECK_DEADLOCK FALSE
