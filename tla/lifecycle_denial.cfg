SPECIFICATION Spec
CONSTANTS
  Requests = {r1}
  Modes = {"stream", "json"}
  PoolSize = 2
  DBFaults = {}
  MaxTokens = 1
  MaxPolicies = 2
  MaxCrashes = 0
INVARIANTS DenialAudited
CHECK_DEADLOCK FALSE
