CONSTANTS
  MinMaxClusters = 2
  MaxMaxClusters = 32
  Cluster = {c1, c2, c3}
  MaxOctet = 3
  Absent = absent
SPECIFICATION Spec
INVARIANTS SubnetsDisjoint VpnNetworkMeets AgreesWithLoop MapInjective
CHECK_DEADLOCK FALSE
