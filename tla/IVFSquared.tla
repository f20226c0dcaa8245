------------------------------ MODULE IVFSquared ------------------------------
(***************************************************************************)
(* IndexIVFSquared: vectors that carry tags, one index per tag (small: the *)
(* ids; large: a graph and an inverted file), a bit vector per frequent    *)
(* tag, a graph per frequent pair of tags, and the dispatch of a query     *)
(* with no tag, one or two.  All indexes share the vectors of storage.     *)
(*                                                                         *)
(* Ids and tags count from 1 where the code counts from 0.  The k-means    *)
(* lists and the walk of a graph are approximate: their results are any    *)
(* the code can give for some clustering and some graph.                   *)
(***************************************************************************)
EXTENDS Integers, FiniteSets, SequencesExt

CONSTANTS
  Points, Dist,          \* vectors, and how far apart they are
  Batches,               \* the vectors of one add_tags_c, in id order
  NumTags,               \* num_tags of every add_tags_c
  cut_off, cluster_size, cut_off_bitvector,
  is_similarity,         \* the metric is a similarity
  QueryPoints, Ks,       \* what a query may name: a vector, k,
  CutOffsTiny, Targets,  \*   cut_off_tiny and n_target
  MaxAdds, MaxStored     \* bounds: calls of add_tags_c, and vectors

Tags == 1 .. NumTags

ASSUME DistAssumption == Dist \in [Points -> [Points -> Nat]]
ASSUME BatchesAssumption == Batches \subseteq Seq(Points) \ {<<>>}
ASSUME ParametersAssumption ==
  /\ NumTags \in Nat /\ MaxAdds \in Nat /\ MaxStored \in Nat
  /\ cut_off \in Nat \ {0} /\ cluster_size \in Nat \ {0}
  /\ cut_off_bitvector \in Nat \ {0} /\ is_similarity \in BOOLEAN
ASSUME QueryAssumption ==
  /\ QueryPoints \subseteq Points /\ Ks \subseteq Nat \ {0}
  /\ CutOffsTiny \subseteq Nat /\ Targets \subseteq Nat

VARIABLES
  storage,                \* the vectors, in id order
  tagged,                 \* ghost: the ids of each tag, as passed so far
  label_indexes,          \* per tag: [kind, ids, storage, comparator]
  membership_bitvector,   \* per tag: a BOOLEAN per id, or <<>>
  two_label_indexes,      \* per pair of tags: [ids, comparator]
  disk,                   \* what writeToFile wrote, or NoFiles
  query, labels,          \* the query in progress and its answer
  adds

index == <<storage, tagged, label_indexes, membership_bitvector, two_label_indexes>>
vars  == <<index, disk, query, labels, adds>>

NO_TAG  == 0
NoLabel == 0
NoQuery == [state |-> "idle", q |-> 0, tag1 |-> NO_TAG, tag2 |-> NO_TAG, k |-> 0,
            n_target |-> 0, cut_off_tiny |-> 0]
NoFiles == <<>>

Init ==
  /\ storage = <<>> /\ tagged = <<>> /\ label_indexes = <<>>
  /\ membership_bitvector = <<>> /\ two_label_indexes = <<>>
  /\ disk = NoFiles /\ query = NoQuery /\ labels = <<>> /\ adds = 0

-----------------------------------------------------------------------------
(* Building                                                                 *)

\* The kind of a label's index is decided by its frequency.
Small(ids) == Cardinality(ids) < cut_off

\* What the walk of a graph takes for nearer; a small label has no graph.
Comparator == IF is_similarity THEN "similarity" ELSE "distance"

LabelIndex(ids) ==
  IF Small(ids)
  THEN [kind |-> "small", ids |-> ids, storage |-> TRUE, comparator |-> "none"]
  ELSE [kind |-> "large", ids |-> ids, storage |-> TRUE, comparator |-> Comparator]

Frequent(ids) == Cardinality(ids) >= cut_off_bitvector

\* A bit vector is as long as the index is now; one of a tag that is not
\* frequent is left as it was.  Mutant: an existing one is kept.
KeptBits(T, n) ==
  [t \in Tags |->
     IF t \in DOMAIN membership_bitvector /\ membership_bitvector[t] # <<>>
     THEN membership_bitvector[t]
     ELSE IF Frequent(T[t]) THEN [id \in 1 .. n |-> id \in T[t]] ELSE <<>>]
Bits(T, n) ==
  [t \in Tags |->
     IF Frequent(T[t]) THEN [id \in 1 .. n |-> id \in T[t]]
     ELSE IF t \in DOMAIN membership_bitvector THEN membership_bitvector[t]
     ELSE <<>>]

\* The pairs of large labels that meet often enough.
Common(T, p) == {id \in UNION {T[t] : t \in p} : \A t \in p : id \in T[t]}
Joined(T) ==
  {p \in SUBSET Tags : Cardinality(p) = 2 /\ (\A t \in p : ~Small(T[t]))
                                          /\ ~Small(Common(T, p))}

PairIndex(ids) == [ids |-> ids, comparator |-> Comparator]

\* operator[] replaces an older index of the pair.  Mutant: emplace does not.
Emplaced(T) ==
  [p \in DOMAIN two_label_indexes \cup Joined(T) |->
     IF p \in DOMAIN two_label_indexes THEN two_label_indexes[p]
     ELSE PairIndex(Common(T, p))]
PairIndexes(T) ==
  [p \in DOMAIN two_label_indexes \cup Joined(T) |->
     IF p \in Joined(T) THEN PairIndex(Common(T, p)) ELSE two_label_indexes[p]]

\* The arrays of ids per tag cover all vectors stored so far: the label
\* indexes are built anew from them.
add_tags_c ==
  /\ query.state = "idle" /\ adds < MaxAdds
  /\ \E batch \in {b \in Batches : Len(storage) + Len(b) <= MaxStored} :
       LET n == Len(storage) + Len(batch)
       IN \E new \in [Tags -> SUBSET (Len(storage) + 1 .. n)] :
            LET T == [t \in Tags |-> IF t \in DOMAIN tagged
                                     THEN tagged[t] \cup new[t] ELSE new[t]]
            IN /\ storage' = storage \o batch
               /\ tagged' = T
               /\ label_indexes' = [t \in Tags |-> LabelIndex(T[t])]
               /\ membership_bitvector' = Bits(T, n)
               /\ two_label_indexes' = PairIndexes(T)
  /\ adds' = adds + 1
  /\ UNCHANGED <<disk, query, labels>>

reset ==
  /\ query.state = "idle" /\ storage # <<>>
  /\ storage' = <<>> /\ tagged' = <<>> /\ label_indexes' = <<>>
  /\ membership_bitvector' = <<>> /\ two_label_indexes' = <<>>
  /\ UNCHANGED <<disk, query, labels, adds>>

writeToFile ==
  /\ query.state = "idle" /\ storage # <<>>
  /\ disk' = index
  /\ UNCHANGED <<index, query, labels, adds>>

\* The file constructor: neither the storage of a small label nor the
\* comparator of a graph is read back, and that of a new graph is a distance.
Reread(i) == IF i.kind = "small" THEN [i EXCEPT !.storage = FALSE]
             ELSE [i EXCEPT !.comparator = "distance"]
RereadPair(p) == [p EXCEPT !.comparator = "distance"]

readFromFile ==
  /\ query.state = "idle" /\ storage = <<>> /\ disk # NoFiles
  /\ storage' = disk[1] /\ tagged' = disk[2]
  /\ label_indexes' = [t \in DOMAIN disk[3] |-> Reread(disk[3][t])]
  /\ membership_bitvector' = disk[4]
  /\ two_label_indexes' = [p \in DOMAIN disk[5] |-> RereadPair(disk[5][p])]
  /\ UNCHANGED <<disk, query, labels, adds>>

-----------------------------------------------------------------------------
(* What a query asks of the indexes                                         *)

Known(t) == t \in DOMAIN label_indexes
Size(t)  == Cardinality(label_indexes[t].ids)

check_membership(t, id) ==
  /\ Known(t)
  /\ IF membership_bitvector[t] # <<>>
     THEN id <= Len(membership_bitvector[t]) /\ membership_bitvector[t][id]
     ELSE id \in label_indexes[t].ids

\* get_candidates: nearest lists first, until they hold n_target ids; 0 asks
\* for all of them, and a small label or a single list has no choice.
nlist(ids) == Max({1, Cardinality(ids) \div cluster_size})
Candidates(label, n_target) ==
  IF label.kind = "small" \/ n_target = 0 \/ nlist(label.ids) = 1
  THEN {label.ids}
  ELSE {ids \in SUBSET label.ids : ids = label.ids \/ Cardinality(ids) >= n_target}

\* A walk of the graph over ids finds some of them, at most k.
Walks(ids, k) ==
  {found \in SUBSET ids : Cardinality(found) <= k /\ (ids # {} => found # {})}
\* search of a label's index: the small one compares the query with all ids.
LabelSearch(label, k) == IF label.kind = "small" THEN {label.ids} ELSE Walks(label.ids, k)

\* What stands in place i if before[id] are the ids that precede id.
Ranked(before, i) ==
  LET there == {id \in DOMAIN before : Cardinality(before[id]) = i - 1}
  IN IF there = {} THEN NoLabel ELSE CHOOSE id \in there : TRUE

Nearer(ids) ==
  LET far(id) == Dist[query.q][storage[id]]
  IN [id \in ids |-> {o \in ids : far(o) < far(id) \/ (far(o) = far(id) /\ o < id)}]

\* rerank_candidates: the k nearest, and no label where ids run out.  Mutants:
\* the heap is left unsorted, and no label is filled in.
InIdOrder(ids) ==
  [i \in 1 .. query.k |-> Ranked([id \in ids |-> {o \in ids : o < id}], i)]
Unfilled(ids) ==
  [i \in 1 .. Min({query.k, Cardinality(ids)}) |-> Ranked(Nearer(ids), i)]
rerank_candidates(ids) == [i \in 1 .. query.k |-> Ranked(Nearer(ids), i)]

\* LabelPairHash and LabelPairEqual make no difference of the order of two
\* tags.  Mutant: they do.
AsGiven(t1, t2) == IF t1 < t2 THEN {t1, t2} ELSE {t1}
PairKey(t1, t2) == {t1, t2}

-----------------------------------------------------------------------------
(* Searching                                                                *)

search ==
  /\ query.state = "idle"
  /\ \E q \in QueryPoints, k \in Ks, n_target \in Targets, cut_off_tiny \in CutOffsTiny,
        tag1 \in Tags \cup {NO_TAG, NumTags + 1}, tag2 \in Tags \cup {NO_TAG, NumTags + 1} :
       query' = [state |-> "asked", q |-> q, tag1 |-> tag1,
                 tag2 |-> IF tag2 = tag1 THEN NO_TAG ELSE tag2, k |-> k,
                 n_target |-> n_target, cut_off_tiny |-> cut_off_tiny]
  /\ UNCHANGED <<index, disk, labels, adds>>

Answer(ids) ==
  /\ labels' = rerank_candidates(ids)
  /\ query' = [query EXCEPT !.state = "answered"]
  /\ UNCHANGED <<index, disk, adds>>

Unfiltered ==
  /\ query.state = "asked" /\ query.tag1 = NO_TAG /\ query.tag2 = NO_TAG
  /\ Answer(DOMAIN storage)

\* search_single_tag
Single == /\ query.state = "asked"
          /\ query.tag1 # NO_TAG /\ query.tag2 = NO_TAG /\ Known(query.tag1)

\* Mutant: the scan stops one id short of where labels become large.
ScansFewer(t) == Size(t) < cut_off - 1
Scans(t)      == Size(t) < cut_off

SingleScan ==
  /\ Single /\ Scans(query.tag1)
  /\ Answer(label_indexes[query.tag1].ids)

SingleSearch ==
  /\ Single /\ ~Scans(query.tag1)
  /\ \E found \in LabelSearch(label_indexes[query.tag1], query.k) : Answer(found)

\* A tag out of range, or a second tag without a first.
UnknownTag ==
  /\ query.state = "asked" /\ {query.tag1, query.tag2} # {NO_TAG}
  /\ ~Known(query.tag1) \/ (query.tag2 # NO_TAG /\ ~Known(query.tag2))
  /\ Answer({})

\* search_dual_tag
Dual == /\ query.state = "asked"
        /\ query.tag2 # NO_TAG /\ Known(query.tag1) /\ Known(query.tag2)

Tiny == \E t \in {query.tag1, query.tag2} : Size(t) < query.cut_off_tiny

tiny_tag  == IF Size(query.tag1) <= Size(query.tag2) THEN query.tag1 ELSE query.tag2
large_tag == IF Size(query.tag1) <= Size(query.tag2) THEN query.tag2 ELSE query.tag1

\* Mutant: the tiny label gives no more ids than n_target asks for.
JoinSome ==
  {{id \in ids : check_membership(large_tag, id)} :
     ids \in {C \in SUBSET label_indexes[tiny_tag].ids :
                C = label_indexes[tiny_tag].ids \/ Cardinality(C) = query.n_target}}
Join == {{id \in ids : check_membership(large_tag, id)} :
           ids \in Candidates(label_indexes[tiny_tag], 0)}

DualTiny == Dual /\ Tiny /\ \E common_ids \in Join : Answer(common_ids)

HasPair == PairKey(query.tag1, query.tag2) \in DOMAIN two_label_indexes

DualPair ==
  /\ Dual /\ ~Tiny /\ HasPair
  /\ \E found \in Walks(two_label_indexes[PairKey(query.tag1, query.tag2)].ids, query.k) :
       Answer(found)

\* Mutant: ids that are candidates of one of the tags.
EitherCandidates(c1, c2) == c1 \cup c2
common_ids(c1, c2)       == c1 \cap c2

DualGeneral ==
  /\ Dual /\ ~Tiny /\ ~HasPair
  /\ \E cands1 \in Candidates(label_indexes[query.tag1], query.n_target),
        cands2 \in Candidates(label_indexes[query.tag2], query.n_target) :
       Answer(common_ids(cands1, cands2))

Return ==
  /\ query.state = "answered"
  /\ query' = NoQuery /\ labels' = <<>>
  /\ UNCHANGED <<index, disk, adds>>

Next ==
  \/ add_tags_c \/ reset \/ writeToFile \/ readFromFile
  \/ search \/ Unfiltered \/ SingleScan \/ SingleSearch \/ UnknownTag
  \/ DualTiny \/ DualPair \/ DualGeneral \/ Return

Spec == Init /\ [][Next]_vars

-----------------------------------------------------------------------------
(* Properties                                                               *)

IdSets    == SUBSET DOMAIN storage
Comparators  == {"none", "distance", "similarity"}
LabelIndexes == [kind : {"small", "large"}, ids : IdSets, storage : BOOLEAN,
                 comparator : Comparators]

\* The tables of the labels have the same tags, the pair indexes join two of
\* them, and an answer has a place for each of the k labels.
TypeOK ==
  /\ storage \in Seq(Points) /\ adds \in 0 .. MaxAdds
  /\ DOMAIN label_indexes \in {{}, Tags}
  /\ DOMAIN tagged = DOMAIN label_indexes
  /\ DOMAIN membership_bitvector = DOMAIN label_indexes
  /\ tagged \in [DOMAIN tagged -> IdSets]
  /\ label_indexes \in [DOMAIN label_indexes -> LabelIndexes]
  /\ membership_bitvector \in [DOMAIN membership_bitvector -> Seq(BOOLEAN)]
  /\ DOMAIN two_label_indexes \subseteq SUBSET Tags
  /\ two_label_indexes \in [DOMAIN two_label_indexes ->
                              [ids : IdSets, comparator : Comparators]]
  /\ query.state \in {"idle", "asked", "answered"}
  /\ query.state = "answered" => labels \in [1 .. query.k -> DOMAIN storage \cup {NoLabel}]

\* The ids that carry every tag of the query.
Asked    == {query.tag1, query.tag2} \ {NO_TAG}
Carriers == {id \in DOMAIN storage :
               \A t \in Asked : t \in DOMAIN tagged /\ id \in tagged[t]}

\* Whatever branch answers a query, no vector without its tags is listed.
AnswersCarryTags ==
  query.state = "answered" => ToSet(labels) \subseteq Carriers \cup {NoLabel}

\* A label too small for a graph, or small enough for cut_off_tiny to force
\* the join, is searched exhaustively: the answer is the k nearest carriers.
Exhaustive ==
  LET Below(t, limit) == t \in DOMAIN tagged /\ Cardinality(tagged[t]) < limit
  IN \/ query.tag2 = NO_TAG /\ (query.tag1 = NO_TAG \/ Below(query.tag1, cut_off))
     \/ /\ NO_TAG \notin {query.tag1, query.tag2} /\ Asked \subseteq DOMAIN tagged
        /\ \/ \E t \in Asked : Below(t, query.cut_off_tiny)
           \/ \A t \in Asked : Below(t, cut_off)
ExactWhenSmall ==
  query.state = "answered" /\ Exhaustive => labels = rerank_candidates(Carriers)

\* Two tags, named in either order, have a graph exactly if the vectors that
\* carry both reach the cut-off, and it is over these vectors, whatever was
\* added after it was first built.
PairsCurrent ==
  \A t1, t2 \in DOMAIN tagged :
    t1 # t2 =>
      LET both == tagged[t1] \cap tagged[t2]
          key  == PairKey(t1, t2)
      IN /\ key \in DOMAIN two_label_indexes <=> Cardinality(both) >= cut_off
         /\ key \in DOMAIN two_label_indexes => two_label_indexes[key].ids = both

\* A bit vector, whichever call of add_tags_c has built it, and the search of
\* the label's index that stands in for it tell the vectors of a tag from the
\* rest.
MembershipExact ==
  \A t \in DOMAIN tagged : \A id \in DOMAIN storage :
    check_membership(t, id) <=> id \in tagged[t]

\* The search of a label's index, which reads its storage, is called only if
\* the index has one: a small index read from a file has none.
DelegatesBound ==
  \A t \in DOMAIN label_indexes : ~Scans(t) => label_indexes[t].storage

\* HNSW.h:159-161: whether the metric is a similarity is not serialized and
\* "must be re-set by the owning Index after loading", here for the graphs of
\* the large labels and of the pairs.
ComparatorRestored ==
  /\ \A t \in DOMAIN label_indexes :
       label_indexes[t].kind = "large" => label_indexes[t].comparator = Comparator
  /\ \A p \in DOMAIN two_label_indexes : two_label_indexes[p].comparator = Comparator

\* The index is an AnnIndex whose filter is the set of carriers of the tags.
Promise ==
  INSTANCE AnnIndex WITH Stray <- 0, stored <- storage, answer <- labels,
    asked <- [state |-> query.state, q |-> query.q, k |-> query.k,
              sel |-> IF query.state = "idle" THEN {} ELSE Carriers]
KeepsPromise == Promise!Spec
===============================================================================
