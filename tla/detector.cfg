SPECIFICATION LiveSpec
CONSTANTS
  Observer = {o1, o2}
  Subject = s
  HeartbeatInterval = 1
  SuspectAfter = 4
  DeadReportsNeeded = 2
  GossipFanout = 3
  MaxSend = 0
  MaxDelay = 1
  MaxLoss = 1
  MaxCrash = 1
  MaxReboot = 1
INVARIANTS
  TypeOK
  NoFalseAlarm
  SuspectedIsSilent
  DeadIsReported
PROPERTY
  CrashNoticed
