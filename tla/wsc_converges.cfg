CONSTANTS
  c1 = c1
  c2 = c2
  c3 = c3
  NoCluster = none
  Cluster <- Three
  ClusterLists <- SwapLists
  Workers = {c2}
  EagerWorkers = FALSE
  MaxClusters = 3
  Modes = {"single-network"}
  MaxEdits = 3
  MaxForced = 1
  MaxErrors = 0
  MaxCrashes = 1
  MaxEvents = 3
SPECIFICATION FairSpec
INVARIANT DeletionScheduled
PROPERTIES Converges Recreated
CHECK_DEADLOCK FALSE
