\* One job, two workers: redelivery while the first worker still runs.
CONSTANTS
  Jobs = {j1}
  Foreign = {}
  Workers = {w1, w2}
  NoJob = NoJob
  NoWorker = NoWorker
  Requested = {0, 1, 4}
  DefaultMaxAttempts = 2
  MaxMaxAttempts = 3
  Prefetch = 2
  MaxFaults = 2
SYMMETRY Symmetry
SPECIFICATION Spec
INVARIANTS TypeOK SettledAsRecorded AcceptedNotLost FinishedNotRerun RunsWithinBudget
PROPERTY ImplementsLifecycle
CHECK_DEADLOCK FALSE
