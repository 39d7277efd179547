SPECIFICATION Spec
CONSTANTS
  Node = {n1, n2}
  NoNode = NoNode
  LeaseDuration = 1
  RenewThreshold = 0
  Task = {t1}
  P2PTask = {t1}
  ThresholdTask = {t1}
  GossipHops = 1
  Faults = {"crash", "restart"}
  MaxFaults = 1
  FaultsUntil = 1
  MaxRelease = 1
  MaxTime = 2
SYMMETRY Symmetry
CHECK_DEADLOCK FALSE
INVARIANTS
  TypeOK
  OwnerFrontier
  VersionIdentifiesUpdate
  ProducerKeepsResult
  PushedIsFinal
  LedgersAgree
PROPERTIES
  CompletedSticky
  LedgerMonotone
  ImplementsJobBoard
