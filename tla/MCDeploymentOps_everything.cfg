SPECIFICATION OpsSpec
CONSTANTS
  p1 = p1
  r1 = r1
  MaxDeployments = 2
  Projects = {p1}
  ProjectOf <- OneProject
  Requests = {r1}
  Concurrency = 2
  Slots = 2
  MaxRetry = 0
  MaxFaults = 1
  Kinds = {"manual", "webhook", "rollback"}
  SlowHandlers = FALSE
  StuckQueryRuns = TRUE
  Ops = {"stop", "delete", "monitor", "prune"}
  MaxOps = 1
  Retention = 1
INVARIANTS
  AccountedFor
  OpsSafetyInv
