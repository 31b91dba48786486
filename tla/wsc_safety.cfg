CONSTANTS
  c1 = c1
  c2 = c2
  c3 = c3
  NoCluster = none
  Cluster <- Three
  ClusterLists <- SomeLists
  Workers = {}
  EagerWorkers = FALSE
  MaxClusters = 3
  Modes = {"no-network", "single-network"}
  MaxEdits = 2
  MaxForced = 1
  MaxErrors = 1
  MaxCrashes = 0
  MaxEvents = 4
SPECIFICATION Spec
INVARIANTS TypeOK OctetsUnique MapAgrees OctetsBelowMax NoOrphans QuietIsSettled
PROPERTIES OctetAllocation OctetStable
CHECK_DEADLOCK FALSE
