SPECIFICATION Spec
CONSTANTS
  p1 = p1
  p2 = p2
  l1 = l1
  l2 = l2
  x = x
  y = y
  Plan <- TwoProviders
  Listing = {l1, l2}
  From <- OneEach
  Text = {x, y}
  Nothing = Nothing
  MaxPhase1 = 2
  MaxGrant = 2
  MaxRun = 3
INVARIANTS LatestSeenIsCurrent
SYMMETRY Wording
CHECK_DEADLOCK FALSE
