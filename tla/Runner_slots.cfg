SPECIFICATION FairSpec
CONSTANTS
  s1 = s1
  s2 = s2
  WinrateFloor = TRUE
  Allocated = TRUE
  NumSlots = 2
  Symbols <- OneSymbol
  Commands <- AllCommands
  MaxRequests = 1
  MaxBuys = 2
  MaxCrashes = 1
INVARIANTS Exclusive HaltedIdle RiskStands Recorded
