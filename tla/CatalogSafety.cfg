SPECIFICATION Spec
CONSTANTS
  Callers = {c1, c2}
  ADs = {ad1, ad2}
  Shapes <- ThreeShapes
  CpuList <- Cpus
  Ratios <- OneFourEight
  Kubelets <- SixKubelets
  VMMemoryOverhead = 75
  BootVolume = 50
  NoCaller = NoCaller
  MaxChanges = 1
  MaxFailures = 1
SYMMETRY CatalogSymmetry
INVARIANTS
  TypeOK
  NoZoneLost
  LaunchesWithinLimits
  PromiseKept
  SizesUsable
