\* A submitted and a foreign job, one worker that prefetches both.
CONSTANTS
  Jobs = {j1, j2}
  Foreign = {j2}
  Workers = {w1}
  NoJob = NoJob
  NoWorker = NoWorker
  Requested = {0}
  DefaultMaxAttempts = 2
  MaxMaxAttempts = 3
  Prefetch = 2
  MaxFaults = 1
SPECIFICATION FairSpec
PROPERTIES StatusFollowsDiagram QueuedIsSettled
CHECK_DEADLOCK FALSE
