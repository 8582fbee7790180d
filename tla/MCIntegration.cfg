SPECIFICATION Spec
CONSTANTS
  Runs = {p1, p2}
  Closers = {}
  Promoters = {}
  Repos = {1, 2}
  Strategy = "rebase"
  MaxVersion = 2
  MaxMoves = 1
  MaxChecks = 2
  None = None
CHECK_DEADLOCK FALSE
SYMMETRY RunSymmetry
INVARIANTS IntegrationInv
PROPERTIES ImplementsLedger OnlyTheCheckedCandidateLands
