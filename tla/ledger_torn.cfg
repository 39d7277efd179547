SPECIFICATION Spec
CONSTANTS
  Node = {n1, n2}
  NoNode = NoNode
  LeaseDuration = 1
  RenewThreshold = 0
  Task = {t1}
  P2PTask = {t1}
  ThresholdTask = {}
  GossipHops = 2
  Faults = {"crash", "torn_persist", "restart", "shutdown"}
  MaxFaults = 1
  FaultsUntil = 1
  MaxRelease = 0
  MaxTime = 1
SYMMETRY Symmetry
CHECK_DEADLOCK FALSE
PROPERTY PeerResultsSafe
