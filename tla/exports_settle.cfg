CONSTANTS
  c1 = c1
  c2 = c2
  e1 = e1
  e2 = e2
  NoExport = none
  NoCluster = nowhere
  Cluster <- Two
  Export <- OneExport
  Sources <- Alone
  Exported <- OneExport
  Lists <- LosesSource
  Events <- All
  MaxEvents = 2
SPECIFICATION FairSpec
INVARIANT TypeOK
PROPERTY Settles
CHECK_DEADLOCK FALSE
