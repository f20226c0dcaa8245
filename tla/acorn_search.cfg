\* One thread, two layers, caps that bind: M * gamma = 2, Mbeta = 1 and a
\* two-hop cutoff of 1 prune layer 0, so that a search needs the second hop.
SPECIFICATION FairSearchSpec
CONSTANTS
  Threads = {t1}
  Points = {0, 1, 3, 7}
  Dist <- LineDist
  M = 2
  gamma = 1
  Mbeta = 1
  efConstruction = 2
  TopLayer = 1
  Chunk = 2
  BatchSizes = {1, 3}
  MaxVecs = 4
  efSearch = 2
  Ks = {2}
INVARIANTS Bidirectional ListsSorted DegreeBound ComponentsCounted OnlyEntryEscapes
PROPERTIES KeepsPromise SearchReturns
