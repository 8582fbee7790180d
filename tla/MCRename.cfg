SPECIFICATION RenameFairSpec
CONSTANTS
  Runs = {p1}
  RepoCount = 2
  KidCount = 2
  SessionCount = 1
  Foreign = {"dir", "branch", "remote"}
  MaxPushes = 1
  MaxCrashes = 2
  MaxFaults = 1
  Nothing = Nothing
CHECK_DEADLOCK FALSE
INVARIANTS RenameInv
PROPERTIES NothingUnpublished MarkerGoes
