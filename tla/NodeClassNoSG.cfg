SPECIFICATION FairSpec
CONSTANTS
  Claims = {c1}
  Specs = {s1, s2}
  NoSGSpecs = {s1, s2}
  FirstSpec = s1
  Kinds <- ImageAndSG
  Nothing = Nothing
  MaxEdits = 1
  MaxWorld = 0
CHECK_DEADLOCK FALSE
PROPERTIES
  DriftDetected
