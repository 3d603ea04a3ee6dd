SPECIFICATION MCFairSpec
CONSTANTS
  Workers = {w1}
  Reloaders = {d1}
  Editors = {a1}
  Requests = {}
  Intents = {i1}
  Services = {s1, s2}
  Protected = {s2}
  Configs = {c1}
  None = None
  MaxChanges = 1
  MaxMishaps = 1
PROPERTY RefreshedUntilCancelled
