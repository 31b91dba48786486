CONSTANTS
  c1 = c1
  c2 = c2
  c3 = c3
  NoCluster = none
  Cluster <- Two
  ClusterLists <- OneList
  Workers = {}
  EagerWorkers = FALSE
  MaxClusters = 3
  Modes = {"single-network"}
  MaxEdits = 2
  MaxForced = 0
  MaxErrors = 1
  MaxCrashes = 1
  MaxEvents = 4
  MaxForcedGw = 1
SPECIFICATION GSpec
INVARIANTS NoGatewayOrphans PairsAgree
CONSTRAINT OneFault
CHECK_DEADLOCK FALSE
