SPECIFICATION Spec
CONSTANTS
  Workers = {w1, w2}
  JobSets <- Scenarios
  Projects = {"p"}
  Events <- TwoEvents
  AllowedHosts = {"inside"}
  Literal <- Loopback
  DnsAnswers <- Answers
  Respelled = {"idn"}
  Statuses = {42, 101, 200, 301, 404, 408, 429, 500, 600}
  MaxStarts = 3
  MaxCrashes = 2
  Hour = 3
  MaxRange = 12
INVARIANTS TypeOK ReportWhole SucceededHasReport NoStrayTemps DialsChecked GivenUpForAReason
SYMMETRY AnyWorker
CHECK_DEADLOCK FALSE
