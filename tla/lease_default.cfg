SPECIFICATION LiveSpec
CONSTANTS
  LeaseDuration = 30
  RenewThreshold = 15
  Reported = {25}
  ScanInterval = 5
  MaxScan = 3
  MaxDelay = 2
  MaxCrash = 2
INVARIANTS
  TypeOK
  LeaseOutlivesWork
PROPERTY
  WorkedJobMovesOn
