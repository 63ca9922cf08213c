SPECIFICATION Spec
CONSTANTS
  Millisecond = 2
  Requests = {r1, r2, r3}
  Routes <- SomeRoutes
  Keys = {k1}
  Projects = {"shop", "blog"}
  Null = Null
  KeyLife = {3}
  Configured = {"auth", "redis"}
  MaxTime = 4
SYMMETRY Symmetry
INVARIANTS TypeOK OnlyAuthorized WithinLimit RefusedOverLimit
CHECK_DEADLOCK FALSE
