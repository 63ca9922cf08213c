SPECIFICATION FairSpec
CONSTANTS
  Gateways = {g1}
  Projects = {"shop"}
  Services <- Twins
  Inputs <- Overlapping
  Static <- Yaml
  Paths <- SomePaths
  MaxRoutes = 3
  MaxFaults = 0

PROPERTY PickedUp
CHECK_DEADLOCK FALSE
