SPECIFICATION Spec
CONSTANTS
  a = a
  b = b
  Symbols <- AB
  SymbolSeq <- ABSeq
  P <- Parameters
  Tapes <- TapesOf
  Dailies <- DailyBars
  Modes <- BothModes
  Plays <- AllPlays
  Slip = 1
  LastMinute = 4
  Days = 2
  Cash = 1000
  Base = 100
  Reinvest = 50
  Floor = 50
  SlotPct = 60
  MaxPositions = 1
INVARIANTS Accounts SellsTracked EndsFlat
PROPERTY NoLookAhead
