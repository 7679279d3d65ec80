SPECIFICATION Spec
CONSTANTS
  Nothing = Nothing
  Deployments <- SomeDeployments
  Metadata <- TheMetadata
  NodeClaims <- TwoClaims
  Assignments <- UbuntuAndOther
  Family <- Families
  UserData <- UserDatas
  PreInstallScript <- Scripts
  Requests <- Pods
  Subnets <- TwoSubnets
  HostBits <- Bits
  Others <- InUse
  Blocks <- Reported
  Tags <- TwoTags
  FirstTags <- OneTag
  MaxAttempts = 2
  MaxEvents = 2
CHECK_DEADLOCK FALSE
INVARIANTS
  TypeOK
  ScriptOfOverlap
  TaggedComplete
PROPERTIES
  EventuallyUp
  EventuallyPlaced
  EventuallyTagged
