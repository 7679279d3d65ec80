SPECIFICATION FairSpec
CONSTANTS
  Claims = {c1, c2}
  Instances = {i1}
  Foreign = {}
  Overriding = {}
  NoClaim = NoClaim
  NoInstance = NoInstance
  AcceptedStatuses = {204}
  RecordInWindow = TRUE
  PassInWindow = TRUE
  NodeClassMayGo = FALSE
  MaxCrashes = 2
INVARIANTS
  OwnedInstanceUp
PROPERTIES
  ImplementsOwnership
  NoInstanceLeaks
  NodesCollected
