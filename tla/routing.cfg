SPECIFICATION MCFairSpec
CONSTANTS
  Workers = {w1}
  Reloaders = {d1}
  Editors = {a1, a2}
  Requests = {r1}
  Intents = {i1}
  Services = {s1, s2}
  Protected = {s2}
  Configs = {c1, c2}
  None = None
  MaxChanges = 2
  MaxMishaps = 1
INVARIANT TypeOK
INVARIANT ReloadTakesEffect
INVARIANT AuditReplays
INVARIANT ServiceOutlivesRequest
INVARIANT DispatchedAsJudged
PROPERTY RoutesCatchUp
