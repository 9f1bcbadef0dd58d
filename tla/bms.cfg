CONSTANTS
  Periodic = TRUE
  Remote = TRUE
  DeferLowSoc = TRUE
  SkipBalancing = TRUE
  Interval = 4
  Duration = 5
  Warmup = 2
  WaitLow = 1
  GiveUp = 2
  StillAlive = 4
  Horizon = 6
  StepTimeout = 2
  PidTimeout = 2
  MaxRetries = 1
  PidMaxRetries = 2
  ScanLength = 2
  Backoff = 2
  PostResetPause = 2
SPECIFICATION ResetsSpec
INVARIANT ResetsInv
PROPERTIES AliveDuringReset OffLongEnough PowerReturns ResetNotSuppressed
  ResetsApart StepsEnd ScanGoesOn
