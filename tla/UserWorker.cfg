SPECIFICATION MCSpec
CONSTANTS
  s1 = s1
  s2 = s2
  s3 = s3
  c1 = c1
  c2 = c2
  Streams <- MCStreams
  Connections <- MCConnections
  Carrier <- MCCarrier
  MaxRequests = 2
  MaxWorkers = 2
  MaxCrashes = 1
  MaxRestarts = 1
  Clients = {"a", "b"}
  Overwriters = {"b"}
  Size = 2
  MaxInodes = 3
CHECK_DEADLOCK FALSE
INVARIANTS
  OneReachableWorker
  IdleExitLosesNothing
  StreamsKeepTheirWorker
  PublishedWhole
  SuccessIsTrue
PROPERTIES
  NoClobber
  RequestsEnd
