SPECIFICATION FairSpec
CONSTANTS
  Runs = {p1, p2}
  Repos = {1, 2}
  MaxVersion = 2
  MaxPulls = 2
  MaxDeeds = 2
  None = None
CHECK_DEADLOCK FALSE
INVARIANTS PullRequestsInv FreshMeansCarried
PROPERTIES PassingReceiptIsFinal EveryRunEnds
