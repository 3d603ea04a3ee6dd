SPECIFICATION QuotaSpec
CONSTANTS
  Workers = {w1}
  ta = ta
  tb = tb
  Tenants = {ta, tb}
  Underway = {u1, u2}
  Limits = {0, 2}
  ImageLimits <- MCImageLimits
  DefaultLimit = 1
  Ceiling = 2
  MaxCost = 1
  Retries = 1
  LastDay = 2
  MaxChanges = 2
  MaxAnswers = 3
SYMMETRY UnderwaySymmetry
INVARIANT QuotaTypeOK
INVARIANT OvershootBounded
INVARIANT CounterWithinLedger
PROPERTY OneTenantAtATime
CHECK_DEADLOCK FALSE
