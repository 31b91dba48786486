CONSTANTS
  c1 = c1
  c2 = c2
  e1 = e1
  e2 = e2
  NoExport = none
  NoCluster = nowhere
  Cluster <- Two
  Export <- Exports
  Sources <- Apart
  Exported <- OneExport
  Lists <- Shrinking
  Events <- Faults
  MaxEvents = 2
SYMMETRY Symmetry
SPECIFICATION Spec
INVARIANTS QuietIsExact NoOrphanImports
CHECK_DEADLOCK FALSE
