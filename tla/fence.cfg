SPECIFICATION Spec
CONSTANTS
  Worker = {w1, w2}
  Publisher = {w1, w2}
  Free = Free
  Operator = Operator
  MaxContent = 2
  MaxGrant = 2
  MaxVaultRestore = 0
  MaxCatalogRestore = 0
  MaxBuild = 2
SYMMETRY WorkerSymmetry
INVARIANTS TypeOK
PROPERTIES FenceIsSound PublishesUnderCapturedGrant
CHECK_DEADLOCK FALSE
