SPECIFICATION Spec
CONSTANTS
  device = device
  legacy = legacy
  streamBound = streamBound
  a1 = a1
  a2 = a2
  NoPeer = NoPeer
  Peers = {device, legacy, streamBound}
  Resumable = {device}
  Expiring = {device, legacy}
  Attachments = {a1, a2}
  MaxAttachments = 2
  MaxGeneration = 2
  MaxLeases = 3
  MaxSeq = 1
  EventCap = 2
SYMMETRY Symmetry
INVARIANTS
  NoOrphanLease
  NoReplay
  RoleFollowsLease
PROPERTIES
  NoResurrection
  ImplementsAuthority
