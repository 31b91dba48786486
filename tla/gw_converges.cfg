CONSTANTS
  c1 = c1
  c2 = c2
  c3 = c3
  NoCluster = none
  Cluster <- Two
  ClusterLists <- JoinLists
  Workers = {}
  EagerWorkers = FALSE
  MaxClusters = 3
  Modes = {"single-network"}
  MaxEdits = 2
  MaxForced = 0
  MaxErrors = 0
  MaxCrashes = 0
  MaxEvents = 2
  MaxForcedGw = 0
SPECIFICATION GFairSpec
PROPERTY GatewaysConverge
CHECK_DEADLOCK FALSE
