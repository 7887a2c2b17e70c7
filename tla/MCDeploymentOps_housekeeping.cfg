SPECIFICATION OpsFairSpec
CONSTANTS
  p1 = p1
  r1 = r1
  MaxDeployments = 3
  Projects = {p1}
  ProjectOf <- OneProject
  Requests = {r1}
  Concurrency = 2
  Slots = 2
  MaxRetry = 0
  MaxFaults = 0
  Kinds = {"manual", "webhook"}
  SlowHandlers = FALSE
  StuckQueryRuns = FALSE
  Ops = {"monitor", "prune"}
  MaxOps = 0
  Retention = 1
INVARIANTS
  LiveIsServed
  RollbackTargetsExist
PROPERTIES
  MonitorSparesRunning
  CrashIsNoticed
