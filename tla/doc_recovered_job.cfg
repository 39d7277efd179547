SPECIFICATION LiveSpec
CONSTANTS
  LeaseDuration = 30
  RenewThreshold = 15
  Reported = {}
  ScanInterval = 5
  MaxScan = 1
  MaxDelay = 1
  MaxCrash = 1
PROPERTY HeldJobMovesOn
