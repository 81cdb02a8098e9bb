SPECIFICATION Spec
CONSTANTS
  a1 = a1
  a2 = a2
  f1 = f1
  f2 = f2
  Attempt <- TwoAttempts
  Fact <- TwoFacts
  Facts <- OneFactEach
  FactBudget = 1
  MaxEpoch = 2
INVARIANTS TypeOK BudgetHolds PublishedAtMostOnce
PROPERTIES ImplementsOneUse
SYMMETRY Exchange
