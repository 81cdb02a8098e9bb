\* One attempt; a consumed attempt is settled while its launch is remembered.
SPECIFICATION FairSpec
CONSTANTS
  a1 = a1
  a2 = a2
  f1 = f1
  f2 = f2
  Attempt <- OneAttempt
  Fact <- TwoFacts
  Facts <- OneFact
  FactBudget = 1
  MaxEpoch = 1
PROPERTIES RememberedAttemptsAreSettled
