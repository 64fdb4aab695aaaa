SPECIFICATION HostSpec
CONSTANTS
  Sizes <- MCSizes
  Chunks <- MCChunks
  HistoryRows = 2
  MaxIncludedRows = 6
  MaxPageRows = 2
  MaxSequence = 5
  Callers = {p1}
  WorkspaceNames = {"Default", "work"}
  TerminalIds = {t1}
  MaxId = 2
  MaxRevision = 2
  MaxCrashes = 2
  Files = {"file"}
  Directories = {"dir"}
  MaxWatchedFiles = 2
  MaxRecursiveRoots = 1
  QueueLimit = 2
  BatchLimit = 2
  MaxFileChanges = 4
  EntryNames = {1, 2, 3, 4}
  Limits = {0, 1, 3}
  DefaultPage = 2
  MaxPage = 2
  MaxEntryChanges = 2
INVARIANTS
  StatesExact
  DrawnExact
  HistoryWhole
  CatalogSurvives
  CatalogConsistent
  NothingSilentlyLost
  ListingComplete
CHECK_DEADLOCK FALSE
