SPECIFICATION Spec
CONSTANTS
  c1 = c1
  c2 = c2
  v1 = v1
  v2 = v2
  own = own
  Claim = {c1}
  Value = {v1, v2, own}
  Absent = Absent
  Places <- OneClaim
  Occurrence <- TwoSources
  Private = {v2}
  LowRisk = {v1}
  MaxVersion = 4
INVARIANTS EligibleIsRuledOn
CHECK_DEADLOCK FALSE
