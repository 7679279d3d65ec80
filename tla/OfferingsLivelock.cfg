SPECIFICATION FairSpec
CONSTANTS
  Claims = {"any"}
  Types <- TwoTypes
  Zones <- OneZone
  OfferedIn <- Everywhere
  Price <- PriceList
  PreemptibleShapes <- FlexOnly
  Request <- EitherRequests
  MaxExpiries = 0
  MaxChanges = 0
  MaxErrors = 0
CHECK_DEADLOCK FALSE
PROPERTIES
  EventuallyLaunched
