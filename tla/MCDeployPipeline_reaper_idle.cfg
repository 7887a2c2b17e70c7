SPECIFICATION FairSpec
CONSTANTS
  p1 = p1
  p2 = p2
  r1 = r1
  r2 = r2
  MaxDeployments = 1
  Projects = {p1}
  ProjectOf <- OneProject
  Requests = {r1}
  Concurrency = 2
  Slots = 1
  MaxRetry = 1
  MaxFaults = 2
  Kinds = {"manual"}
  SlowHandlers = FALSE
  StuckQueryRuns = FALSE
PROPERTY
  StuckIsReaped
