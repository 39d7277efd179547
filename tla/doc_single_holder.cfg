SPECIFICATION Spec
CONSTANTS
  Node = {n1, n2, n3}
  NoNode = NoNode
  LeaseDuration = 30
  RenewThreshold = 15
  Task = {t1}
  P2PTask = {}
  ThresholdTask = {}
  GossipHops = 8
  Faults = {}
  MaxFaults = 0
  FaultsUntil = 0
  MaxRelease = 0
  MaxTime = 0
SYMMETRY Symmetry
CHECK_DEADLOCK FALSE
INVARIANT SingleHolder
