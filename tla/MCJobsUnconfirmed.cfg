\* One submission, nothing fails, the client may go away.
CONSTANTS
  Jobs = {j1}
  Foreign = {}
  Workers = {}
  NoJob = NoJob
  NoWorker = NoWorker
  Requested = {0}
  DefaultMaxAttempts = 2
  MaxMaxAttempts = 3
  Prefetch = 2
  MaxFaults = 0
SPECIFICATION Spec
INVARIANTS UnconfirmedIsMarked
CHECK_DEADLOCK FALSE
