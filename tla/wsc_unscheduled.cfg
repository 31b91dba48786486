CONSTANTS
  c1 = c1
  c2 = c2
  c3 = c3
  NoCluster = none
  Cluster <- Three
  ClusterLists <- SwapLists
  Workers = {c2}
  EagerWorkers = FALSE
  MaxClusters = 3
  Modes = {"single-network"}
  MaxEdits = 2
  MaxForced = 1
  MaxErrors = 1
  MaxCrashes = 0
  MaxEvents = 4
SPECIFICATION Spec
INVARIANT DeletionScheduled
CHECK_DEADLOCK FALSE
