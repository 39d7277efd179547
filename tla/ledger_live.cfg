SPECIFICATION LiveSpec
CONSTANTS
  Node = {n1, n2}
  NoNode = NoNode
  LeaseDuration = 1
  RenewThreshold = 0
  Task = {t1}
  P2PTask = {}
  ThresholdTask = {t1}
  GossipHops = 1
  Faults = {"crash"}
  MaxFaults = 1
  FaultsUntil = 1
  MaxRelease = 1
  MaxTime = 3
CHECK_DEADLOCK FALSE
INVARIANT LeaseHasWorker
 
