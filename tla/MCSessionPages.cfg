SPECIFICATION PagesSpec
CONSTANTS
  ConvCount = 2
  MaxObs = 2
  MaxTime = 3
  Idle = 1
  Ttl = 2
  Tended = {1}
  Dates <- MCDates
  MaxMishaps = 1
  Absent = Absent
CHECK_DEADLOCK FALSE
INVARIANTS SessionPagesInv PassLeavesNothing
PROPERTIES ExpiredStaysGone OnlyOldPagesAge
