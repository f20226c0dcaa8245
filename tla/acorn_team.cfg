\* Two threads, weakly fair, one vector each, two layers; then any query on
\* the graph they leave, whose node numbers are any permutation of the ids.
SPECIFICATION FairTeamSpec
CONSTANTS
  Threads = {t1, t2}
  Points = {0, 1, 3}
  Dist <- LineDist
  M = 2
  gamma = 1
  Mbeta = 1
  efConstruction = 2
  TopLayer = 1
  Chunk = 1
  BatchSizes = {2}
  MaxVecs = 2
  efSearch = 2
  Ks = {2}
INVARIANTS OnlyEntryEscapes
PROPERTIES KeepsPromise AddTerminates SearchReturns
