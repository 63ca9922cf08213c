\* Two submissions that share the publisher; no worker takes part.
CONSTANTS
  Jobs = {j1, j2}
  Foreign = {}
  Workers = {}
  NoJob = NoJob
  NoWorker = NoWorker
  Requested = {0, 4}
  DefaultMaxAttempts = 2
  MaxMaxAttempts = 3
  Prefetch = 2
  MaxFaults = 2
SPECIFICATION FairSpec
INVARIANTS OnePublisher
PROPERTIES RequestsAnswered
CHECK_DEADLOCK FALSE
