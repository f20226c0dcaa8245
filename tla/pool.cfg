\* Two threads, three queries of which two are warm-up, and an index of three
\* rows of which a post-filter sees any three and returns two.
SPECIFICATION Spec
CONSTANTS
  base_attributes <- MCAttributes
  base_tags <- MCTags
  Workers = {w1, w2}
  Batches <- MCBatches
  Ranking <- MCRanking
  k = 2
  initial_k = 4
  WarmUp = 2
INVARIANTS TypeOK FiltersAgree RowsMatch PaddingHarmless RaisesFirst PoolsApart
PROPERTIES QueryReturns
CHECK_DEADLOCK FALSE
