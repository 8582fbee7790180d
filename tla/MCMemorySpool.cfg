SPECIFICATION Spec
CONSTANTS
  h1 = h1 h2 = h2 h3 = h3
  k1 = k1 e1 = e1 e3 = e3
  d1 = d1 d2 = d2
  Hooks = {h1, h2, h3}
  Drainers = {d1, d2}
  Keys = {k1}
  Events = {e1, e3}
  KeyOf <- MCKeyOf
  EventOf <- MCEventOf
  Unparsable = {e3}
  Cap = 1
  Chunk = 1
  MaxCrashes = 1
  None = None
SYMMETRY Symmetry
CHECK_DEADLOCK FALSE
INVARIANTS NoWrittenLineLost DrainedTotalHonest DropsCounted
PROPERTIES CapHeldUnlessRaced
