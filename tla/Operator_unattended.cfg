SPECIFICATION FairSpec
CONSTANTS
  Tasks <- Nightly
  At <- AtNight
  Watchdog = TRUE
  Horizon = 7
  MaxUpsets = 1
CHECK_DEADLOCK FALSE
PROPERTIES RetriedIfLost StoppedStays RerunIfLost Recovered
