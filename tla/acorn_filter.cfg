\* As acorn_search, against what Index.h:88 says of SearchParameters::sel.
SPECIFICATION SearchSpec
CONSTANTS
  Threads = {t1}
  Points = {0, 1, 3, 7}
  Dist <- LineDist
  M = 2
  gamma = 1
  Mbeta = 1
  efConstruction = 2
  TopLayer = 1
  Chunk = 2
  BatchSizes = {1, 3}
  MaxVecs = 4
  efSearch = 2
  Ks = {2}
INVARIANTS FilterRespected
