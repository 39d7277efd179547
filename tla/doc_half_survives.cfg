SPECIFICATION LiveSpec
CONSTANTS
  n1 = n1
  n2 = n2
  n3 = n3
  n4 = n4
  search = search
  summarize = summarize
  reason = reason
  Node = {n1, n2, n3, n4}
  NumShards = 6
  ShardOf <- LocalShards
  Caps <- LocalCaps
  JobShards = {2}
  ClusterSize = 4
  DeadReportsNeeded = 2
  GossipHops = 3
  Sides = {}
  CutCost = 1
  MaxFaults = 2
CHECK_DEADLOCK FALSE
PROPERTY HalfSurvives
