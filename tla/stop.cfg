CONSTANTS
  Extra = {}
  Pwm = FALSE
  Inverted = FALSE
  BootTime = 2
  NegativeTime = 1
  PrechargeTime = 1
  CompletedTime = 1
  EStopTimeout = 2
  MaxFaultTicks = 3
  MaxDelay = 1
  MaxWraps = 0
  Horizon = 3
  RestartPaused = 1
  RestartAlways = 2
  OtherFaults = TRUE
SPECIFICATION StopFairSpec
INVARIANTS PauseCoherent StopSurvivesBoot StopHolds
PROPERTY RestartHappens
