SPECIFICATION FairSpec
CONSTANTS
  Claims = {"any", "flex"}
  Types <- AllTypes
  Zones <- TwoZones
  OfferedIn <- FixedInOne
  Price <- PriceList
  PreemptibleShapes <- FlexOnly
  Request <- MixedRequests
  MaxExpiries = 1
  MaxChanges = 1
  MaxErrors = 1
CHECK_DEADLOCK FALSE
INVARIANTS
  TypeOK
  RefusedNotRepeated
  RequestHonoured
PROPERTIES
  OnDemandLaunched
