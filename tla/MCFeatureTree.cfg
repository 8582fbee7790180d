SPECIFICATION Spec
CONSTANTS
  p1 = p1
  p2 = p2
  FeatureCount = 3
  Procs = {p1, p2}
  Workloads <- TearDowns
  Halls <- SmallHalls
  MaxBegins = 2
  MaxTouches = 1
  MaxMishaps = 1
  None = None
SYMMETRY Symmetric
CHECK_DEADLOCK FALSE
INVARIANTS FeatureTreeInv
PROPERTIES WorktreeFirst OnlyWhatWasSeenGoes PruneComplete
