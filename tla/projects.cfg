CONSTANTS
  u1 = u1
  u2 = u2
  User <- Users
  Specs <- TwoSpecs
  Foreign <- Clash
  Events <- AllEvents
  MaxEvents = 6
SPECIFICATION FairSpec
INVARIANTS TypeOK NamespaceFollows QuietIsGranted
PROPERTIES Deleted Provisioned
CHECK_DEADLOCK FALSE
