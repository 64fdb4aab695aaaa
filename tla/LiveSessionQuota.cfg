SPECIFICATION FairSpec
CONSTANTS
  Sizes = {1, 2}
  AttachmentLimit = 1
  MaxFaults = 1
  MaxTyped = 0
  MaxResizes = 0
  EventLimit = 2
INVARIANTS
  QuotaIsRetried
CHECK_DEADLOCK FALSE
