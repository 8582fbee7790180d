SPECIFICATION FairSpec
CONSTANTS
  Runs = {p1, p2}
  Closers = {c}
  Promoters = {m}
  Repos = {1, 2}
  Strategy = "squash"
  MaxVersion = 1
  MaxMoves = 0
  MaxChecks = 1
  None = None
CHECK_DEADLOCK FALSE
INVARIANTS IntegratedIsReceipted
PROPERTIES EveryRunEnds
