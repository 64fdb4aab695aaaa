SPECIFICATION FairSpec
CONSTANTS
  Modes = {"ack", "independent", "legacy"}
  EventCap = 2
  OutCap = 2
  MaxDown = 1
  MaxEpoch = 1
  MaxGen = 1
CHECK_DEADLOCK FALSE
PROPERTY
  InitiatedAttachEnds
