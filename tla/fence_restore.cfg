SPECIFICATION Spec
CONSTANTS
  Worker = {w1, w2}
  Publisher = {w1}
  Free = Free
  Operator = Operator
  MaxContent = 0
  MaxGrant = 2
  MaxVaultRestore = 1
  MaxCatalogRestore = 1
  MaxBuild = 1
PROPERTIES PublishesUnderLiveGrant
CHECK_DEADLOCK FALSE
