SPECIFICATION Spec
CONSTANTS
  s1 = s1
  s2 = s2
  WinrateFloor = TRUE
  Allocated = TRUE
  NumSlots = 2
  Symbols <- TwoSymbols
  Commands <- NoCommands
  MaxRequests = 0
  MaxBuys = 2
  MaxCrashes = 1
PROPERTY HandedBack
