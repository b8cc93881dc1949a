SPECIFICATION Spec
CONSTANTS
  Tasks <- Nightly
  At <- AtNight
  Watchdog = TRUE
  Horizon = 2
  MaxUpsets = 1
CHECK_DEADLOCK FALSE
INVARIANT StartedOnce
