SPECIFICATION AuthSpec
CONSTANTS
  Users = {u1}
  Tokens = {t1, t2, t3}
  LoginTokens = {t1}
  Requests = {r1, r2}
  Calls = {c1}
  Null = Null
  TTL = 2
  AccessTTL = 2
  Second = 2
  BatchSize = 1
  Ahead = 1
  MaxTime = 2
SYMMETRY Symmetry
INVARIANTS TypeOK OneLiveToken ServesCurrentUsers
PROPERTY SessionStaysEnded
CHECK_DEADLOCK FALSE
