SPECIFICATION Spec
CONSTANTS
  Claims = {c1, c2}
  Instances = {i1, i2, f1}
  Foreign = {f1}
  Overriding = {c2}
  NoClaim = NoClaim
  NoInstance = NoInstance
  AcceptedStatuses = {200, 204}
  RecordInWindow = FALSE
  PassInWindow = FALSE
  NodeClassMayGo = TRUE
  MaxCrashes = 0
CHECK_DEADLOCK FALSE
SYMMETRY InstanceSymmetry
INVARIANTS
  TypeOK
  ForeignUntouched
  ReleasedWhenDown
PROPERTIES
  VisibleSurvives
