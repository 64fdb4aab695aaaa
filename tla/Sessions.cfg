SPECIFICATION MCSpec
CONSTANTS
  t1 = t1
  t2 = t2
  t3 = t3
  u1 = u1
  u2 = u2
  Tasks <- MCTasks
  Users <- MCUsers
  Dims <- MCDims
  Claims <- MCClaims
  GlobalLimit <- MCGlobalLimit
  UserLimit <- MCUserLimit
  MaxWord <- MCMaxWord
  Sizes = {1, 2}
  AttachmentLimit = 3
  MaxFaults = 2
  MaxTyped = 2
  MaxResizes = 1
  EventLimit = 2
  MaxEvents = 3
INVARIANTS
  InputOnceInOrder
  InputMeetsItsScreen
PROPERTIES
  ImplementsAdmission
  PeerKeepsLease
  SizeSettles
  
