SPECIFICATION Spec
CONSTANTS
  ServerRetained = 3
  Retentions = {2}
  RetiredCap = 1
  MaxEpoch = 2
  MaxGen = 4
  MaxLaterGen = 2
  MaxNet = 2
  MaxUp = 3
INVARIANT
  RepairAnswered
