\* One thread, two layers, and caps that no list and no answer reaches.
SPECIFICATION SearchSpec
CONSTANTS
  Threads = {t1}
  Points = {0, 1, 3, 7}
  Dist <- LineDist
  M = 4
  gamma = 1
  Mbeta = 4
  efConstruction = 4
  TopLayer = 1
  Chunk = 4
  BatchSizes = {1, 3}
  MaxVecs = 4
  efSearch = 4
  Ks = {3}
INVARIANTS LayersConnected WideSearchExact
