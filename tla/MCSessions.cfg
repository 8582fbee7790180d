SPECIFICATION Spec
CONSTANTS
  Sids = {s1, s2}
  Topics = {f, g}
  Procs = {p1, p2}
  Outside = Outside
  MaxBegun = 5
  None = None
SYMMETRY Symmetric
CHECK_DEADLOCK FALSE
INVARIANTS SessionsInv HalfMovedResumes DocsKept
PROPERTIES PruneSparesTheLiving
