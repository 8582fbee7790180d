SPECIFICATION Spec
CONSTANTS
  p1 = p1
  p2 = p2
  Procs = {p1, p2}
  Workloads <- Locked
  MaxRuns = 3
  MaxMarks = 3
  MaxPlans = 1
  MaxDeaths = 2
  None = None
CHECK_DEADLOCK FALSE
INVARIANTS NoRunLost OneTruth PinnedPlanWasApproved
PROPERTIES OverIsFinal
