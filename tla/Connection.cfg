SPECIFICATION MCSpec
CONSTANTS
  c1 = c1
  c2 = c2
  r1 = r1
  r2 = r2
  Conns <- MCConns
  Requests <- MCRequests
  ConnOf <- MCConnOf
  Commands <- MCCommands
  Profiles <- MCProfiles
  Servers <- MCServers
  Epochs = {7}
  ConnectionLimit = 1
  StreamLimit = 1
  FileLimit = 1
  MaxBytes = 3
  Clients = {p1, p2}
  Hosts = {h1, h2}
  Certificates = {a, b}
  MaxConnects = 3
  Initializers = {q1, q2}
  Daemons = {q3, q4}
CHECK_DEADLOCK FALSE
INVARIANTS
  WelcomeIsReserved
  NoProtocolError
  SelectionSound
  RelayWhole
  AddedIsKept
  OneIdentity
PROPERTIES
  ConnectionSettles
