SPECIFICATION FairSpec
CONSTANTS
  NodeClasses = {"nc1", "nc2", "nc3"}
  Family <- TwoFamilies
  Selector <- Shared
  Images <- ThreeImages
  NameOf <- ImageNames
  Matches <- Selected
  MaxFailures = 1
INVARIANTS
  UndisturbedMatch
PROPERTIES
  NewImageSeen
