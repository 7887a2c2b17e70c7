SPECIFICATION OpsSpec
CONSTANTS
  p1 = p1
  r1 = r1
  MaxDeployments = 2
  Projects = {p1}
  ProjectOf <- OneProject
  Requests = {r1}
  Concurrency = 2
  Slots = 2
  MaxRetry = 1
  MaxFaults = 0
  Kinds = {"manual", "rollback"}
  SlowHandlers = FALSE
  StuckQueryRuns = FALSE
  Ops = {"prune"}
  MaxOps = 0
  Retention = 1
PROPERTY
  PrunedIsNotLive
