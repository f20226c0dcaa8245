SPECIFICATION Spec
CONSTANTS
  Threads = {t1, t2}
  Points = {0, 1, 3}
  Dist <- LineDist
  M = 2
  gamma = 1
  Mbeta = 1
  efConstruction = 2
  TopLayer = 1
  Chunk = 1
  BatchSizes = {1, 2}
  MaxVecs = 3
SYMMETRY Symmetry
INVARIANTS CandidatesFitNode
