SPECIFICATION FairSpec
CONSTANTS
  Claims = {c1}
  Specs = {s1, s2}
  NoSGSpecs = {}
  FirstSpec = s1
  Kinds <- SubnetOnly
  Nothing = Nothing
  MaxEdits = 1
  MaxWorld = 1
CHECK_DEADLOCK FALSE
INVARIANTS
  TypeOK
  OutlivesInstances
PROPERTIES
  StatusOfCurrentSpec
  Converges
  DeletionCompletes
  DriftDetected
  DriftOfLaunched
