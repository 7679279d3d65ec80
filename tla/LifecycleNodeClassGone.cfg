SPECIFICATION FairSpec
CONSTANTS
  Claims = {c1}
  Instances = {i1}
  Foreign = {}
  Overriding = {}
  NoClaim = NoClaim
  NoInstance = NoInstance
  AcceptedStatuses = {204}
  RecordInWindow = TRUE
  PassInWindow = TRUE
  NodeClassMayGo = TRUE
  MaxCrashes = 0
CHECK_DEADLOCK FALSE
PROPERTIES
  NoInstanceLeaks
