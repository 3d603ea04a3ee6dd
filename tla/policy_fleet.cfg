SPECIFICATION Spec
CONSTANTS
  Workers = {w1, w2}
  Opas = {o1, o2}
  Policies = {p1}
  Bootstrap <- MCBootstrap
  Syncs = {s1, s2}
  Evals = {}
  StrictSync = FALSE
  LocalFallback = FALSE
  FailClosed = TRUE
  MaxChanges = 1
  MaxRestarts = 1
INVARIANT LoneSyncHeals
SYMMETRY Symmetry
