\* Two tags over four vectors, added in two calls; saved and reloaded.  A label
\* or pair of three is large, one of two is small, and cut_off_tiny is below,
\* at and above these sizes.  Two of the vectors are equal.
SPECIFICATION Spec
CONSTANTS
  Points = {0, 1, 3}
  Dist <- LineDist
  Batches <- MCBatches
  NumTags = 2
  cut_off = 3
  cluster_size = 1
  cut_off_bitvector = 3
  is_similarity = FALSE
  QueryPoints = {0}
  Ks = {2}
  CutOffsTiny = {1, 2, 4}
  Targets = {1}
  MaxAdds = 2
  MaxStored = 4
INVARIANTS TypeOK AnswersCarryTags ExactWhenSmall PairsCurrent MembershipExact DelegatesBound
PROPERTIES KeepsPromise
