SPECIFICATION Spec
CONSTANTS
  Millisecond = 2
  Requests = {r1, r2}
  Routes <- Limited
  Keys = {k1}
  Projects = {"shop", "blog"}
  Null = Null
  KeyLife = {3}
  Configured = {"auth"}
  MaxTime = 4
SYMMETRY Symmetry
INVARIANT FailsOpen
CHECK_DEADLOCK FALSE
