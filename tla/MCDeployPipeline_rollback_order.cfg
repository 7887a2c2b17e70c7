SPECIFICATION Spec
CONSTANTS
  p1 = p1
  p2 = p2
  r1 = r1
  r2 = r2
  MaxDeployments = 3
  Projects = {p1}
  ProjectOf <- OneProject
  Requests = {r1}
  Concurrency = 2
  Slots = 2
  MaxRetry = 1
  MaxFaults = 0
  Kinds = {"manual", "rollback"}
  SlowHandlers = FALSE
  StuckQueryRuns = FALSE
PROPERTY
  CancelledNeverTakesOver
