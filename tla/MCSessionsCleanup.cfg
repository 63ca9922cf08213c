SPECIFICATION Spec
CONSTANTS
  Users = {u1}
  Tokens = {t1, t2}
  LoginTokens = {t1, t2}
  Requests = {r1}
  Null = Null
  TTL = 2
  BatchSize = 1
  Ahead = 3
  MaxTime = 3
PROPERTY CleanupOnlyEnded
CHECK_DEADLOCK FALSE
