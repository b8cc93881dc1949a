SPECIFICATION Spec
CONSTANTS
  Tasks <- Nightly
  At <- AtNight
  Watchdog = TRUE
  Horizon = 6
  MaxUpsets = 0
CHECK_DEADLOCK FALSE
PROPERTY DeadBotNoticed
