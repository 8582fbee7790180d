SPECIFICATION Spec
CONSTANTS
  Landers = {p1, p2}
  RepoCount = 2
  MaxCommits = 1
  MaxDeaths = 1
SYMMETRY LanderSymmetry
CHECK_DEADLOCK FALSE
INVARIANTS LandInv 
PROPERTIES DefaultOnlyMovesForward
