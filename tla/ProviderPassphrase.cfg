SPECIFICATION Spec
CONSTANTS
  Nothing = Nothing
  Deployments <- PassphraseDeployments
  Metadata <- TheMetadata
  NodeClaims <- TwoClaims
  Assignments <- UbuntuAndOther
  Family <- Families
  UserData <- UserDatas
  PreInstallScript <- Scripts
  Requests <- Pods
  Subnets <- TwoSubnets
  HostBits <- Bits
  Others <- InUse
  Blocks <- Reported
  Tags <- TwoTags
  FirstTags <- OneTag
  MaxAttempts = 2
  MaxEvents = 0
CHECK_DEADLOCK FALSE
PROPERTIES
  EventuallyUp
