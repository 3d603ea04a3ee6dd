SPECIFICATION PlatformSpec
CONSTANTS
  Workers = {w1}
  Opas = {o1}
  Policies = {p1, p2}
  Bootstrap <- MCBootstrap
  Syncs = {s1}
  Evals = {e1}
  StrictSync = TRUE
  LocalFallback = TRUE
  FailClosed = FALSE
  MaxChanges = 2
  MaxRestarts = 0
  Fleet = {f1, f2}
  SeedFile = {q1, q2}
  Blockers = {b1}
  Contributing = {}
  Broken = {x1}
  Reloads = {r1, r2}
  Scans = {n1}
  MaxFailures = 1
  MaxEdits = 1
  Users = {u1, u2}
  Kids = {k1, k2}
  Admins = {a1, a2}
  PluginNames = {g1}
  BackendPaths <- MCBackendPaths
  OtherPaths <- MCOtherPaths
  MaxEdgeChanges = 3
  MaxChats = 2
  MaxSends = 2
  MaxMoves = 2
  MaxPieces = 1
  Signed = {m1}
  Attempts = {1, 2, 3}
  MaxSkew = 1
  MinLife = 3
  Drift = 1
  MaxStall = 1
  LastTick = 9
  Pods = {d1, d2}
  Calls = {i1}
  Texts = {t1}
  Versions = {v1, v2}
  Taxonomy <- MCTaxonomy
  LruMax = 1
  MaxStarts = 2
  CarrySize = 3
  PieceSize = 4
  MaxAnswer = 6
  MaxToken = 4
  CardDigits = {0, 1, 5, 8, 9}
  CardLength = 4
  IbanChars = {0, 3, 10, 35}
  IbanLength = 6
  ChunkLength = 3
  MaxFound = 3
  RateMax = 2
  RateWindow = 3
  LastTime = 5
  MaxChars = 5
  FileLength = 6
SYMMETRY PlatformSymmetry
CHECK_DEADLOCK FALSE
INVARIANT PartsTypeOK
INVARIANT StandingPolicyEnforced
INVARIANT DenialJustified
INVARIANT InSyncHonest
INVARIANT ServesSeeded
INVARIANT StandingPatternBlocks
INVARIANT RefusedOnce
INVARIANT ReportSound
INVARIANT AnswerInPlace
INVARIANT AcceptedOnce
INVARIANT AnswerFitsPod
INVARIANT ColdCache
INVARIANT ShownIsGuarded
INVARIANT ChecksMatchReference
