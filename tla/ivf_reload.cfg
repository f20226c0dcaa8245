\* As ivf, with a metric that is a similarity, against what HNSW.h:159 asks
\* of whoever loads a graph.
SPECIFICATION Spec
CONSTANTS
  Points = {0, 1, 3}
  Dist <- LineDist
  Batches <- MCBatches
  NumTags = 2
  cut_off = 3
  cluster_size = 1
  cut_off_bitvector = 3
  is_similarity = TRUE
  QueryPoints = {0}
  Ks = {2}
  CutOffsTiny = {1, 2, 4}
  Targets = {1}
  MaxAdds = 2
  MaxStored = 4
INVARIANTS ComparatorRestored
