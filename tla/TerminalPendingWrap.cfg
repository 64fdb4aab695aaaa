SPECIFICATION Spec
CONSTANTS
  Sizes <- MCSizes
  Chunks <- MCChunks
  HistoryRows = 2
  MaxIncludedRows = 6
  MaxPageRows = 2
  MaxSequence = 5
INVARIANTS
  PendingWrapShown
CHECK_DEADLOCK FALSE
