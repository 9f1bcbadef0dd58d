SPECIFICATION LimitsSpec
CONSTANTS
  Extra = {2}
  Readings <- MCReadings
  PowerOn <- MCPowerOn
  SyncBand = 1
  OutOfSyncLimit = 1
  FullSoc = 10
  BlendStart = 8
  SocWindow <- MCWindow
  MaxDesign = 6
  MinDesign = 2
  UserLimits = TRUE
  UserTarget <- MCUserTarget
  Hysteresis = 2
  Cap = 3
  TaperBand = 2
  TaperFloor = 1
  LowPass = TRUE
  FilterPercent = 50
  RecoveryPower = 2
  RecoveryTime = 1
PROPERTIES StopReachesInverter PacksRespected RecoveryEnds PackSeparated
