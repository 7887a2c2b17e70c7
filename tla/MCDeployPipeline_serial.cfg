SPECIFICATION Spec
CONSTANTS
  p1 = p1
  p2 = p2
  r1 = r1
  r2 = r2
  MaxDeployments = 4
  Projects = {p1, p2}
  ProjectOf <- TwoProjects
  Requests = {r1}
  Concurrency = 2
  Slots = 1
  MaxRetry = 1
  MaxFaults = 0
  Kinds = {"manual"}
  SlowHandlers = FALSE
  StuckQueryRuns = FALSE
INVARIANTS
  CapacityBound
PROPERTY
  NewestWins
