SPECIFICATION DriversSpec
CONSTANTS
  MaxPrechargeTime = 1
  MaxPwmFreq = 11000
  FreqModulus = 100000
  PackVoltage = 3500
  NormallyOpen = FALSE
  SystemStatus = {"ACTIVE", "FAULT"}
  LinkVoltages = {0, 3400, 6000}
  MebLinks = {0, 3400}
  Modes = {"HV_ACTIVE", "HV_OFF", "ERROR", "INIT"}
  CanTimeout = 2
  Settled = 1
  PauseTimeout = 1
  HvOffTimeout = 1
  BmsSilent = 2
  SilenceTimeout = 2
  SleepTime = 1
  SkippedFrames = 2
  FrameCountModulus = 5
INVARIANTS MebInv SessionSafe
PROPERTIES ResetEnds NoToggling StartHappens
