SPECIFICATION ProjectsSpec
CONSTANTS
  Users <- ProjectUsers
  GitHubName <- GitHubNames
  LaterNames <- NewGitHubNames
  NamesOf <- AskedNames
  MaxProjects = 2
  MaxBuilds = 2
  Callers = {c1, c2}
  MaxMishaps = 1
SYMMETRY CallerSymmetry
INVARIANTS
  DeletedLeavesNothing
  NoRouteClash
CHECK_DEADLOCK FALSE
