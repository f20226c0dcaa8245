\* One script, one worker killed.
SPECIFICATION LogSpec
CONSTANTS
  Clients = {c1}
  Params = {p1, p2}
  FreshSecond = TRUE
  MaxRuns = 3
  MaxCrashes = 1
  Post = post
  MaxBeside = 0
  FreshLog = TRUE
  MaxKills = 0
SYMMETRY Symmetry
INVARIANTS AlreadyBuilt
CHECK_DEADLOCK FALSE
