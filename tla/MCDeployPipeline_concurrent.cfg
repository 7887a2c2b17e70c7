SPECIFICATION FairSpec
CONSTANTS
  p1 = p1
  p2 = p2
  r1 = r1
  r2 = r2
  MaxDeployments = 2
  Projects = {p1}
  ProjectOf <- OneProject
  Requests = {r1, r2}
  Concurrency = 2
  Slots = 1
  MaxRetry = 1
  MaxFaults = 1
  Kinds = {"manual", "webhook", "rollback"}
  SlowHandlers = FALSE
  StuckQueryRuns = FALSE
INVARIANTS
  OneLive
  NoOrphan
  LiveIsServed
PROPERTY
  EveryTaskEnds
