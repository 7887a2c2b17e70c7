SPECIFICATION FairSpec
CONSTANTS
  Services = {"build"}
  MaxOutput = 4
  PipeCapacity = 2
  MaxToken = 2
  Viewers = {v1}
  MaxLines = 2
  MaxRetry = 1
  MaxFaults = 1
  States = {s1, s2}
  Accounts = {a1, a2}
  RowIds = {1, 2, 3}
  NoUser = 0
  Callbacks = {c1, c2}
  Pipelines = {x1}
  Scores = {70, 85, 95}
  MaxRefusals = 1
  EnvProjects = {p1}
  EnvIds = {1, 2}
  Keys = {"PORT", "k"}
  Values = {"8080", "w"}
  Inserts <- EnvInserts
  Updates <- EnvUpdates
  PortKey = "PORT"
  DefaultPort = "8080"
  Editors = {e1, e2}
  HookProjects = {q1}
  Deletions = {r1, r2}
  MaxAttempts = 2
  MaxHookFaults = 2
  MaxLogLines = 3
  MaxLogBytes = 5
  MaxLog = 8
PROPERTY
  BuildAlwaysReturns
CHECK_DEADLOCK FALSE
