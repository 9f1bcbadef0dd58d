CONSTANTS
  Extra = {b2}
  Pwm = TRUE
  Inverted = FALSE
  BootTime = 2
  NegativeTime = 1
  PrechargeTime = 2
  CompletedTime = 2
  EStopTimeout = 2
  MaxFaultTicks = 1
  MaxDelay = 2
  MaxWraps = 1
  Horizon = 3
  LastTick = 10
SPECIFICATION TimedFairSpec
INVARIANTS FaultOpens EngagedTruthful TimingInv
PROPERTIES ImplementsSwitch ExtraFollowsMain PrechargedBeforePositive EventuallyClosed EStopOpens
