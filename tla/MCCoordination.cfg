SPECIFICATION FairSpec
CONSTANTS
  s1 = s1
  s2 = s2
  out = out
  cli = cli
  k1 = k1
  k2 = k2
  ko = ko
  kc = kc
  claude = claude
  omp = omp
  f = f
  Callers <- MCCallers
  Owner <- MCOwner
  Session <- MCSession
  Provider <- MCProvider
  Feature <- MCFeature
  Terminals = {cli}
  Offers <- MCOffers
  Ids = {1}
  Hall = Hall
  Lifetime = 2
  Retention = 1
  MaxClock = 5
  MaxKills = 2
  Unset = Unset
  Gone = Gone
CHECK_DEADLOCK FALSE
INVARIANTS CoordinationInv
PROPERTIES LoserLost EveryRowEnds
