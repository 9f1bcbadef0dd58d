SPECIFICATION InvertersSpec
CONSTANTS
  T1 = 1
  T2 = 1
  T3 = 1
  MaxSboxFaultTicks = 1
  MinimumInput = 250
  Inputs = {0, 400}
  Outputs = {0, 396, 400}
  CanStillAlive = 2
  StartupGrace = 4
  FrameTimeout = 2
  TestTime = 2
  InfoRequests = 1
INVARIANT InverterInv
PROPERTIES PositiveAfterPrecharge SboxTruthful RevokeOpens LossNoticed ReplayHappens
  TestHeld
