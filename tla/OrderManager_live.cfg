SPECIFICATION FairSpec
CONSTANTS
  s1 = s1
  s2 = s2
  NoSymbol = NoSymbol
  Symbols <- OneSymbol
  Quantities <- TwoShares
  MaxOrders = 5
  max_positions = 1
  max_entries = 2
  STOP_SETTLE_CHECKS = 2
  verify_holdings = TRUE
  Faults <- SlowVenue
PROPERTIES EntryResolves ExitResolves TradeReported
