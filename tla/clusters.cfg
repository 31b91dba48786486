CONSTANTS
  c1 = c1
  c2 = c2
  n1 = n1
  Cluster <- Clusters
  Namespace <- Namespaces
  DefaultSliceCreation = TRUE
  Selections <- TakesAll
  Events <- AllEvents
  MaxEvents = 3
SPECIFICATION FairSpec
INVARIANTS TypeOK NoCredentialsLeft QuietIsRegistered
PROPERTIES Deregistered Registered NamespacesSettle
CHECK_DEADLOCK FALSE
