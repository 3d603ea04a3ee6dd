SPECIFICATION MCFairSpec
CONSTANTS
  Requests = {r1, r2}
  Modes = {"stream", "json"}
  PoolSize = 2
  DBFaults = {"fail", "lost"}
  MaxTokens = 3
  MaxPolicies = 2
  MaxCrashes = 1
INVARIANT TypeOK
INVARIANT ProviderGated
INVARIANT ResultMatchesRow
INVARIANT Metered
INVARIANT FrameOrder
PROPERTY ImplementsContract
PROPERTY EveryRequestEnds
CHECK_DEADLOCK FALSE
