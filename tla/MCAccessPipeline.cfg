SPECIFICATION FairSpec
CONSTANTS
  Hour = 2
  MaxRange = 4
  Gateways = {g1}
  Consumers = {c1, c2}
  Partitions = {1, 2}
  Events <- Requests
  Traffic <- Mixed
  Unstorable <- Refused
  PartitionOf <- ByProject
  Nobody = Nobody
  Malformed = Malformed
  MaxBuffered = 2
  MaxAttempts = 2
  RetryMin = 2
  RetryMax = 3
  Filters <- Intervals
  PageLimit = 3
  MaxFaults = 2
INVARIANTS TypeOK CountedOnce CommittedStored SummaryExact
PROPERTIES EventuallyConsumed ImplementsLedger
CHECK_DEADLOCK FALSE
