\* Two scripts that may log in the same second, and postprocess.py, beside the
\* first two runs or not; a worker may be killed, and a logger.
SPECIFICATION LogSpec
CONSTANTS
  Clients = {c1, c2}
  Params = {p1, p2}
  FreshSecond = TRUE
  MaxRuns = 3
  MaxCrashes = 1
  Post = post
  FreshLog = FALSE
  MaxBeside = 2
  MaxKills = 1
SYMMETRY Symmetry
INVARIANTS RegisteredReadable LoadedMatches LoggedIsSaved MetricsOfABuild VisitedComplete
PROPERTIES MetricsTaken
CHECK_DEADLOCK FALSE
