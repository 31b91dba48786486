CONSTANTS
  c1 = c1
  c2 = c2
  c3 = c3
  NoCluster = none
  Cluster <- Two
  ClusterLists <- JoinLists
  Workers = {}
  EagerWorkers = FALSE
  MaxClusters = 3
  Modes = {"single-network"}
  MaxEdits = 3
  MaxForced = 0
  MaxErrors = 0
  MaxCrashes = 0
  MaxEvents = 3
  MaxForcedGw = 0
SPECIFICATION GSpec
INVARIANTS GTypeOK QuietIsConnected QuietIsClean
CHECK_DEADLOCK FALSE
