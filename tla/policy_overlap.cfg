SPECIFICATION Spec
CONSTANTS
  Workers = {w1}
  Opas = {o1}
  Policies = {p1}
  Bootstrap <- MCBootstrap
  Syncs = {s1, s2}
  Evals = {e1}
  StrictSync = TRUE
  LocalFallback = FALSE
  FailClosed = TRUE
  MaxChanges = 1
  MaxRestarts = 0
INVARIANT StandingPolicyEnforced
