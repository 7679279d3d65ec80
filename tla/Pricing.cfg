SPECIFICATION FairSpec
CONSTANTS
  Listers = {l1, l2}
  Shapes <- TestedShapes
  MaxVersion = 2
  MaxFailures = 2
INVARIANTS
  TypeOK
  PricesReal
  PricedAsTested
PROPERTIES
  PricesGoForward
  ListsComplete
  CatalogueFresh
