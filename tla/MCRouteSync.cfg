SPECIFICATION FairSpec
CONSTANTS
  Gateways = {g1}
  Projects = {"shop", "blog"}
  Services <- TwoServices
  Inputs <- Mixed
  Static <- Yaml
  Paths <- SomePaths
  MaxRoutes = 2
  MaxFaults = 2
INVARIANTS TypeOK WholeSnapshot Unambiguous RewritesNames
PROPERTIES KeepsServing PickedUpIfWellKept
CHECK_DEADLOCK FALSE
