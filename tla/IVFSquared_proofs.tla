--------------------------- MODULE IVFSquared_proofs ---------------------------
(* The tables of IVFSquared and the answers it draws from them, for any       *)
(* vectors, tags, cut-offs and queries, and any number of add_tags_c, reset,  *)
(* writeToFile and reloads.                                                   *)
EXTENDS IVFSquared, FiniteSetTheorems, TLAPS

-----------------------------------------------------------------------------
(* The inductive invariant                                                  *)

BitsOf(T, n) ==
  [t \in Tags |-> IF Frequent(T[t]) THEN [id \in 1 .. n |-> id \in T[t]] ELSE <<>>]

LabelRecords(n) == [kind : {"small", "large"}, ids : SUBSET (1 .. n), storage : BOOLEAN,
                    comparator : Comparators]
PairRecords(n)  == [ids : SUBSET (1 .. n), comparator : Comparators]

\* The tables L, B and P are those of the vectors S with tags T, up to what a
\* reload forgets.
Current(S, T, L, B, P) ==
  /\ S \in Seq(Points) /\ T \in [Tags -> SUBSET (1 .. Len(S))]
  /\ L \in [Tags -> LabelRecords(Len(S))]
  /\ \A t \in Tags : /\ L[t].ids = T[t]
                     /\ L[t].kind = IF Small(T[t]) THEN "small" ELSE "large"
                     /\ L[t].kind = "large" => L[t].storage
  /\ B = BitsOf(T, Len(S))
  /\ P \in [Joined(T) -> PairRecords(Len(S))]
  /\ \A p \in Joined(T) : P[p].ids = Common(T, p)

Blank == /\ storage = <<>> /\ tagged = <<>> /\ label_indexes = <<>>
         /\ membership_bitvector = <<>> /\ two_label_indexes = <<>>

IndexSound ==
  \/ Blank
  \/ Current(storage, tagged, label_indexes, membership_bitvector, two_label_indexes)

DiskSound == disk # NoFiles => Current(disk[1], disk[2], disk[3], disk[4], disk[5])

\* A query names different tags; its answer lists carriers, all of them taken
\* into account if the search is exhaustive.
QuerySound ==
  /\ query \in [state : {"idle", "asked", "answered"}, q : Points \cup {0},
                tag1 : 0 .. NumTags + 1, tag2 : 0 .. NumTags + 1, k : Nat,
                n_target : Nat, cut_off_tiny : Nat]
  /\ query.tag1 = query.tag2 => query.tag2 = NO_TAG
  /\ query.state = "answered" =>
       /\ labels \in [1 .. query.k -> Carriers \cup {NoLabel}]
       /\ Exhaustive => labels = rerank_candidates(Carriers)

IInv == IndexSound /\ DiskSound /\ QuerySound /\ adds \in 0 .. MaxAdds

-----------------------------------------------------------------------------
(* Sets of ids                                                              *)

LEMMA Sizes ==
  ASSUME NEW n \in Nat, NEW big \in SUBSET (1 .. n), NEW ids \in SUBSET big
  PROVE  /\ Cardinality(ids) \in Nat /\ Cardinality(big) \in Nat
         /\ Cardinality(ids) <= Cardinality(big)
         /\ Cardinality(ids) = Cardinality(big) => ids = big
<1>1. IsFiniteSet(1 .. n)
  BY FS_Interval
<1>2. IsFiniteSet(big)
  BY <1>1, FS_Subset
<1> QED BY <1>2, FS_Subset, FS_CardinalityType

\* A frequent label stays frequent and a pair joined, as ids are added.
LEMMA Growth ==
  ASSUME NEW n \in Nat, NEW T, NEW U \in [Tags -> SUBSET (1 .. n)],
         \A t \in Tags : T[t] \subseteq U[t]
  PROVE  /\ \A t \in Tags : Frequent(T[t]) => Frequent(U[t])
         /\ Joined(T) \subseteq Joined(U)
<1>1. \A t \in Tags : /\ Cardinality(T[t]) \in Nat /\ Cardinality(U[t]) \in Nat
                      /\ Cardinality(T[t]) <= Cardinality(U[t])
  BY Sizes
<1>2. \A t \in Tags : Frequent(T[t]) => Frequent(U[t])
  BY <1>1, ParametersAssumption DEF Frequent
<1>3. ASSUME NEW p \in Joined(T) PROVE p \in Joined(U)
  <2>1. p \subseteq Tags /\ Cardinality(p) = 2 /\ \A t \in p : ~Small(T[t])
    BY <1>3 DEF Joined
  <2>2. \A t \in p : ~Small(U[t])
    BY <1>1, <2>1, ParametersAssumption DEF Small
  <2>3. Common(T, p) \subseteq Common(U, p) /\ Common(U, p) \subseteq 1 .. n
    <3>1. \A t \in p : T[t] \subseteq U[t] /\ U[t] \subseteq 1 .. n
      BY <2>1
    <3> QED BY <3>1 DEF Common
  <2>4. Cardinality(Common(T, p)) <= Cardinality(Common(U, p))
        /\ Cardinality(Common(T, p)) \in Nat /\ Cardinality(Common(U, p)) \in Nat
    BY <2>3, Sizes
  <2>5. ~Small(Common(U, p))
    BY <1>3, <2>4, ParametersAssumption DEF Joined, Small
  <2> QED BY <2>1, <2>2, <2>5 DEF Joined
<1> QED BY <1>2, <1>3

\* The graph of a pair is over the ids that carry both tags.
LEMMA PairsTyped ==
  ASSUME NEW n, NEW T \in [Tags -> SUBSET (1 .. n)]
  PROVE  [p \in Joined(T) |-> PairIndex(Common(T, p))] \in [Joined(T) -> PairRecords(n)]
<1>1. \A p \in Joined(T) : Common(T, p) \subseteq 1 .. n
  BY DEF Joined, Common
<1> QED BY <1>1, ParametersAssumption DEF PairIndex, PairRecords, Comparator, Comparators

\* The place of an id is held by one of the ids or by nobody.
LEMMA RankedIsOne ==
  ASSUME NEW ids
  PROVE  rerank_candidates(ids) \in [1 .. query.k -> ids \cup {NoLabel}]
<1>1. \A i : Ranked(Nearer(ids), i) \in ids \cup {NoLabel}
  BY DEF Ranked, Nearer
<1> QED BY <1>1 DEF rerank_candidates

-----------------------------------------------------------------------------
(* The tables                                                               *)

\* Whatever was there before, the tables are those of all vectors after
\* add_tags_c: a bit vector or a pair it leaves alone has none to replace.
LEMMA AddCurrent ==
  ASSUME IndexSound, NEW batch \in Batches, NEW n, n = Len(storage) + Len(batch),
         NEW new \in [Tags -> SUBSET (Len(storage) + 1 .. n)],
         NEW T, T = [t \in Tags |-> IF t \in DOMAIN tagged
                                    THEN tagged[t] \cup new[t] ELSE new[t]]
  PROVE  Current(storage \o batch, T, [t \in Tags |-> LabelIndex(T[t])],
                 Bits(T, n), PairIndexes(T))
<1>1. storage \in Seq(Points) /\ batch \in Seq(Points)
  <2>1. batch \in Seq(Points)
    BY BatchesAssumption
  <2>2. CASE Blank
    BY <2>1, <2>2 DEF Blank
  <2>3. CASE Current(storage, tagged, label_indexes, membership_bitvector, two_label_indexes)
    BY <2>1, <2>3 DEF Current
  <2> QED BY <2>2, <2>3 DEF IndexSound
<1>2. storage \o batch \in Seq(Points) /\ Len(storage \o batch) = n
      /\ n \in Nat /\ Len(storage) \in Nat /\ Len(storage) <= n
  BY <1>1
<1>3. T \in [Tags -> SUBSET (1 .. n)]
  <2>1. ASSUME NEW t \in Tags PROVE T[t] \in SUBSET (1 .. n)
    <3>1. new[t] \subseteq 1 .. n
      BY <1>2
    <3>2. t \in DOMAIN tagged => tagged[t] \subseteq 1 .. n
      BY <1>2 DEF IndexSound, Blank, Current
    <3> QED BY <3>1, <3>2
  <2> QED BY <2>1
<1>4. [t \in Tags |-> LabelIndex(T[t])] \in [Tags -> LabelRecords(n)]
  BY <1>3, ParametersAssumption DEF LabelIndex, LabelRecords, Comparator, Comparators
<1> DEFINE L == [t \in Tags |-> LabelIndex(T[t])]
           P == [p \in Joined(T) |-> PairIndex(Common(T, p))]
<1>5. \A t \in Tags : /\ L[t].ids = T[t]
                      /\ L[t].kind = IF Small(T[t]) THEN "small" ELSE "large"
                      /\ L[t].storage
  BY DEF LabelIndex
<1>6. P \in [Joined(T) -> PairRecords(n)] /\ \A p \in Joined(T) : P[p].ids = Common(T, p)
  BY <1>3, PairsTyped DEF PairIndex
<1>7. Current(storage \o batch, T, L, BitsOf(T, n), P)
  <2> HIDE DEF L, P
  <2> QED BY <1>2, <1>3, <1>4, <1>5, <1>6 DEF Current, L
<1>8. CASE Blank
  <2>1. DOMAIN membership_bitvector = {} /\ DOMAIN two_label_indexes = {}
    BY <1>8 DEF Blank
  <2>2. Bits(T, n) = BitsOf(T, n)
    BY <2>1 DEF Bits, BitsOf
  <2>3. PairIndexes(T) = [p \in Joined(T) |-> PairIndex(Common(T, p))]
    BY <2>1 DEF PairIndexes
  <2> QED BY <1>7, <2>2, <2>3
<1>9. CASE Current(storage, tagged, label_indexes, membership_bitvector, two_label_indexes)
  <2>1. \A t \in Tags : tagged[t] \subseteq T[t]
    BY <1>9 DEF Current
  <2>2. (\A t \in Tags : Frequent(tagged[t]) => Frequent(T[t])) /\ Joined(tagged) \subseteq Joined(T)
    BY <1>2, <1>3, <2>1, Growth
  <2>3. Bits(T, n) = BitsOf(T, n)
    <3>1. membership_bitvector = BitsOf(tagged, Len(storage))
      BY <1>9 DEF Current
    <3>2. \A t \in Tags : ~Frequent(T[t]) => membership_bitvector[t] = <<>>
      BY <2>2, <3>1 DEF BitsOf
    <3> QED BY <3>2 DEF Bits, BitsOf
  <2>4. DOMAIN two_label_indexes = Joined(tagged)
    BY <1>9 DEF Current
  <2>5. PairIndexes(T) = [p \in Joined(T) |-> PairIndex(Common(T, p))]
    BY <2>2, <2>4 DEF PairIndexes
  <2> QED BY <1>7, <2>3, <2>5
<1> QED BY <1>8, <1>9 DEF IndexSound

\* What is read back from the files is as good as what was written.
LEMMA RereadCurrent ==
  ASSUME NEW S, NEW T, NEW L, NEW B, NEW P, Current(S, T, L, B, P)
  PROVE  Current(S, T, [t \in DOMAIN L |-> Reread(L[t])], B,
                 [p \in DOMAIN P |-> RereadPair(P[p])])
<1>1. DOMAIN L = Tags /\ DOMAIN P = Joined(T)
  BY DEF Current
<1>2. \A t \in Tags : /\ Reread(L[t]) \in LabelRecords(Len(S))
                      /\ Reread(L[t]).ids = L[t].ids /\ Reread(L[t]).kind = L[t].kind
                      /\ Reread(L[t]).kind = "large" => Reread(L[t]).storage
  BY DEF Current, Reread, LabelRecords, Comparators
<1>3. \A p \in Joined(T) : /\ RereadPair(P[p]) \in PairRecords(Len(S))
                           /\ RereadPair(P[p]).ids = P[p].ids
  BY DEF Current, RereadPair, PairRecords, Comparators
<1> QED BY <1>1, <1>2, <1>3 DEF Current

\* check_membership asks either the bit vector or the label's index.
LEMMA Members ==
  ASSUME IndexSound, NEW t \in Tags, t \in DOMAIN label_indexes, NEW id \in DOMAIN storage
  PROVE  check_membership(t, id) <=> id \in tagged[t]
<1>1. CASE Blank
  BY <1>1 DEF Blank
<1>2. CASE Current(storage, tagged, label_indexes, membership_bitvector, two_label_indexes)
  <2>1. id \in 1 .. Len(storage) /\ Len(storage) \in Nat
        /\ label_indexes[t].ids = tagged[t] /\ tagged[t] \subseteq 1 .. Len(storage)
        /\ membership_bitvector[t] = IF Frequent(tagged[t])
                                     THEN [i \in 1 .. Len(storage) |-> i \in tagged[t]] ELSE <<>>
    BY <1>2 DEF Current, BitsOf
  <2>2. CASE Frequent(tagged[t])
    <3>1. membership_bitvector[t] = [i \in 1 .. Len(storage) |-> i \in tagged[t]]
          /\ membership_bitvector[t] # <<>> /\ Len(membership_bitvector[t]) = Len(storage)
      BY <2>1, <2>2
    <3>2. id <= Len(membership_bitvector[t]) /\ membership_bitvector[t][id] = (id \in tagged[t])
      BY <2>1, <3>1
    <3> QED BY <3>1, <3>2, Zenon DEF check_membership, Known
  <2>3. CASE ~Frequent(tagged[t])
    BY <2>1, <2>3 DEF check_membership, Known
  <2> QED BY <2>2, <2>3
<1> QED BY <1>1, <1>2 DEF IndexSound

-----------------------------------------------------------------------------
(* The answers                                                              *)

\* An order among the carriers is one of the query and the vectors.
LEMMA RerankStays ==
  ASSUME Carriers' = Carriers, query'.q = query.q, query'.k = query.k, storage' = storage
  PROVE  rerank_candidates(Carriers)' = rerank_candidates(Carriers)
<1>1. Nearer(Carriers)' = Nearer(Carriers)
  BY DEF Nearer
<1>2. \A i : Ranked(Nearer(Carriers), i)' = Ranked(Nearer(Carriers), i)
  BY <1>1 DEF Ranked, NoLabel
<1> QED BY <1>2 DEF rerank_candidates

\* What every branch of the dispatch has to show of the ids it reranks.
LEMMA Answered ==
  ASSUME IInv, query.state = "asked", NEW ids, ids \subseteq Carriers,
         Exhaustive => ids = Carriers, Answer(ids)
  PROVE  QuerySound'
<1>1. /\ query' = [query EXCEPT !.state = "answered"] /\ labels' = rerank_candidates(ids)
      /\ storage' = storage /\ tagged' = tagged
  BY DEF Answer, index
<1>2. /\ query'.state = "answered" /\ query'.q = query.q /\ query'.k = query.k
      /\ query'.tag1 = query.tag1 /\ query'.tag2 = query.tag2
      /\ query'.cut_off_tiny = query.cut_off_tiny
  BY <1>1 DEF IInv, QuerySound
<1>3. Carriers' = Carriers /\ Exhaustive' = Exhaustive
  BY <1>1, <1>2 DEF Carriers, Exhaustive, Asked
<1>4. rerank_candidates(Carriers)' = rerank_candidates(Carriers)
  BY <1>1, <1>2, <1>3, RerankStays
<1>5. labels' \in [1 .. query'.k -> Carriers' \cup {NoLabel}]
  BY <1>1, <1>2, <1>3, RankedIsOne
<1>6. Exhaustive' => labels' = rerank_candidates(Carriers)'
  BY <1>1, <1>3, <1>4
<1>7. query' \in [state : {"idle", "asked", "answered"}, q : Points \cup {0},
                  tag1 : 0 .. NumTags + 1, tag2 : 0 .. NumTags + 1, k : Nat,
                  n_target : Nat, cut_off_tiny : Nat]
      /\ (query'.tag1 = query'.tag2 => query'.tag2 = NO_TAG)
  BY <1>1 DEF IInv, QuerySound
<1> QED BY <1>5, <1>6, <1>7 DEF QuerySound

\* The tables under a query that names tags the index knows.
LEMMA TablesOf ==
  ASSUME IndexSound, NEW t, Known(t)
  PROVE  /\ t \in Tags /\ t \in DOMAIN tagged
         /\ Current(storage, tagged, label_indexes, membership_bitvector, two_label_indexes)
         /\ label_indexes[t].ids = tagged[t] /\ tagged[t] \subseteq DOMAIN storage
         /\ label_indexes[t].kind = IF Small(tagged[t]) THEN "small" ELSE "large"
         /\ Size(t) = Cardinality(tagged[t]) /\ Size(t) \in Nat
<1>1. Current(storage, tagged, label_indexes, membership_bitvector, two_label_indexes)
  BY DEF IndexSound, Blank, Known
<1>2. /\ t \in Tags /\ t \in DOMAIN tagged /\ label_indexes[t].ids = tagged[t]
      /\ tagged[t] \subseteq 1 .. Len(storage) /\ Len(storage) \in Nat
      /\ DOMAIN storage = 1 .. Len(storage)
      /\ label_indexes[t].kind = IF Small(tagged[t]) THEN "small" ELSE "large"
  BY <1>1 DEF Current, Known
<1>3. Cardinality(tagged[t]) \in Nat
  BY <1>2, Sizes
<1> QED BY <1>1, <1>2, <1>3 DEF Size

LEMMA NextAnswer ==
  ASSUME IInv, Unfiltered \/ SingleScan \/ SingleSearch \/ UnknownTag
               \/ DualTiny \/ DualPair \/ DualGeneral
  PROVE  QuerySound'
<1> USE DEF IInv
<1>0. /\ NO_TAG = 0 /\ NO_TAG \notin Tags /\ NumTags \in Nat
  BY ParametersAssumption DEF NO_TAG, Tags
<1>1. CASE Unfiltered
  <2>1. Carriers = DOMAIN storage
    BY <1>1 DEF Unfiltered, Carriers, Asked
  <2> QED BY <1>1, <2>1, Answered DEF Unfiltered
<1>2. CASE SingleScan \/ SingleSearch
  <2> DEFINE t == query.tag1
  <2>1. query.state = "asked" /\ t # NO_TAG /\ query.tag2 = NO_TAG /\ Known(t)
    BY <1>2 DEF SingleScan, SingleSearch, Single
  <2>2. Asked = {t}
    BY <2>1 DEF Asked
  <2>3. Carriers = tagged[t] /\ label_indexes[t].ids = tagged[t]
    BY <2>1, <2>2, TablesOf DEF Carriers
  <2>4. CASE SingleScan
    BY <2>1, <2>3, <2>4, Answered DEF SingleScan
  \* A label searched by its index is too large for an exhaustive search.
  <2>5. CASE SingleSearch
    <3>1. PICK found \in LabelSearch(label_indexes[t], query.k) : Answer(found)
      BY <2>5 DEF SingleSearch
    <3>2. found \subseteq tagged[t]
      BY <2>3, <3>1 DEF LabelSearch, Walks
    <3>3. ~(Cardinality(tagged[t]) < cut_off)
      BY <2>1, <2>5, TablesOf DEF SingleSearch, Scans
    <3>4. ~Exhaustive
      BY <2>1, <3>3, Zenon DEF Exhaustive
    <3> QED BY <2>1, <2>3, <3>1, <3>2, <3>4, Answered
  <2> QED BY <1>2, <2>4, <2>5
<1>3. CASE UnknownTag
  <2>1. /\ query.state = "asked" /\ {query.tag1, query.tag2} # {NO_TAG} /\ Answer({})
        /\ ~Known(query.tag1) \/ (query.tag2 # NO_TAG /\ ~Known(query.tag2))
    BY <1>3 DEF UnknownTag
  <2>2. DOMAIN tagged = DOMAIN label_indexes
    BY DEF IndexSound, Blank, Current
  <2>3. ASSUME Exhaustive PROVE Carriers = {}
    <3>1. PICK t \in Asked : ~Known(t)
      BY <2>1, <2>2, <2>3 DEF Exhaustive, Asked, Known
    <3> QED BY <2>2, <3>1 DEF Carriers, Known
  <2> QED BY <2>1, <2>3, Answered
<1>4. CASE DualTiny \/ DualPair \/ DualGeneral
  <2> DEFINE t1 == query.tag1
             t2 == query.tag2
  <2>1. /\ query.state = "asked" /\ t2 # NO_TAG /\ Known(t1) /\ Known(t2)
    BY <1>4 DEF DualTiny, DualPair, DualGeneral, Dual
  <2>2. /\ t1 \in Tags /\ t2 \in Tags /\ t1 # NO_TAG /\ t1 # t2
        /\ label_indexes[t1].ids = tagged[t1] /\ label_indexes[t2].ids = tagged[t2]
        /\ tagged[t1] \subseteq DOMAIN storage /\ tagged[t2] \subseteq DOMAIN storage
        /\ Size(t1) = Cardinality(tagged[t1]) /\ Size(t2) = Cardinality(tagged[t2])
        /\ t1 \in DOMAIN tagged /\ t2 \in DOMAIN tagged
    BY <1>0, <2>1, TablesOf DEF QuerySound
  <2>3. Asked = {t1, t2} /\ Carriers = tagged[t1] \cap tagged[t2]
    BY <2>1, <2>2 DEF Asked, Carriers
  <2>4. CASE DualTiny
    <3>1. PICK ids \in Join : Answer(ids)
      BY <2>4 DEF DualTiny
    <3>2. ids = {id \in label_indexes[tiny_tag].ids : check_membership(large_tag, id)}
      BY <3>1 DEF Join, Candidates
    <3>3. \/ tiny_tag = t1 /\ large_tag = t2
          \/ tiny_tag = t2 /\ large_tag = t1
      BY DEF tiny_tag, large_tag
    <3>4. ids = Carriers
      BY <2>1, <2>2, <2>3, <3>2, <3>3, Members DEF Known
    <3> QED BY <2>1, <3>1, <3>4, Answered
  \* Neither of the others is taken if a tag is below cut_off_tiny.
  <2>5. ASSUME DualPair \/ DualGeneral, Exhaustive
        PROVE  Cardinality(tagged[t1]) < cut_off /\ Cardinality(tagged[t2]) < cut_off
    <3>1. ~(Size(t1) < query.cut_off_tiny) /\ ~(Size(t2) < query.cut_off_tiny)
      BY <2>5 DEF DualPair, DualGeneral, Tiny
    <3> QED BY <2>1, <2>2, <2>3, <2>5, <3>1, Zenon DEF Exhaustive
  <2>6. CASE DualPair
    <3>1. PairKey(t1, t2) \in Joined(tagged)
          /\ two_label_indexes[PairKey(t1, t2)].ids = Common(tagged, PairKey(t1, t2))
      BY <2>1, <2>6, TablesOf DEF DualPair, HasPair, Current
    <3>2. Common(tagged, PairKey(t1, t2)) = Carriers
      BY <2>3 DEF Common, PairKey
    <3>3. PICK found \in Walks(Carriers, query.k) : Answer(found)
      BY <2>6, <3>1, <3>2 DEF DualPair
    <3>4. found \subseteq Carriers
      BY <3>3 DEF Walks
    <3>5. ~Small(tagged[t1])
      BY <3>1 DEF Joined, PairKey
    <3>6. ~Exhaustive
      BY <2>5, <2>6, <3>5 DEF Small
    <3> QED BY <2>1, <3>3, <3>4, <3>6, Answered
  <2>7. CASE DualGeneral
    <3>1. PICK cands1 \in Candidates(label_indexes[t1], query.n_target),
               cands2 \in Candidates(label_indexes[t2], query.n_target) :
                 Answer(cands1 \cap cands2)
      BY <2>7 DEF DualGeneral, common_ids
    <3>2. cands1 \subseteq tagged[t1] /\ cands2 \subseteq tagged[t2]
      BY <2>2, <3>1 DEF Candidates
    <3>3. ASSUME Exhaustive PROVE cands1 = tagged[t1] /\ cands2 = tagged[t2]
      <4>1. Small(tagged[t1]) /\ Small(tagged[t2])
        BY <2>5, <2>7, <3>3 DEF Small
      <4>2. label_indexes[t1].kind = "small" /\ label_indexes[t2].kind = "small"
        BY <2>1, <4>1, TablesOf
      <4> QED BY <2>2, <3>1, <4>2 DEF Candidates
    <3> QED BY <2>1, <2>3, <3>1, <3>2, <3>3, Answered
  <2> QED BY <1>4, <2>4, <2>6, <2>7
<1> QED BY <1>1, <1>2, <1>3, <1>4

-----------------------------------------------------------------------------
(* The induction                                                            *)

LEMMA InitInv == Init => IInv
<1> SUFFICES ASSUME Init PROVE IInv
  OBVIOUS
<1>1. IndexSound /\ DiskSound /\ adds \in 0 .. MaxAdds
  BY ParametersAssumption DEF Init, IndexSound, Blank, DiskSound
<1>2. QuerySound
  BY ParametersAssumption DEF Init, QuerySound, NoQuery, NO_TAG
<1> QED BY <1>1, <1>2 DEF IInv

\* An idle query stands for nothing.
LEMMA StillIdle ==
  ASSUME QuerySound, query.state = "idle", UNCHANGED query
  PROVE  QuerySound'
BY DEF QuerySound

LEMMA NextInv == ASSUME IInv, [Next]_vars PROVE IInv'
<1> USE DEF IInv
<1>1. CASE add_tags_c
  <2>1. query.state = "idle" /\ UNCHANGED <<query, disk>> /\ adds < MaxAdds /\ adds' = adds + 1
    BY <1>1 DEF add_tags_c
  <2> DEFINE Added(new) == [t \in Tags |-> IF t \in DOMAIN tagged
                                           THEN tagged[t] \cup new[t] ELSE new[t]]
  <2>2. PICK batch \in Batches :
          \E new \in [Tags -> SUBSET (Len(storage) + 1 .. Len(storage) + Len(batch))] :
            /\ storage' = storage \o batch /\ tagged' = Added(new)
            /\ label_indexes' = [t \in Tags |-> LabelIndex(Added(new)[t])]
            /\ membership_bitvector' = Bits(Added(new), Len(storage) + Len(batch))
            /\ two_label_indexes' = PairIndexes(Added(new))
    BY <1>1 DEF add_tags_c
  <2>3. IndexSound'
    <3>1. PICK new \in [Tags -> SUBSET (Len(storage) + 1 .. Len(storage) + Len(batch))] :
            /\ storage' = storage \o batch /\ tagged' = Added(new)
            /\ label_indexes' = [t \in Tags |-> LabelIndex(Added(new)[t])]
            /\ membership_bitvector' = Bits(Added(new), Len(storage) + Len(batch))
            /\ two_label_indexes' = PairIndexes(Added(new))
      BY <2>2
    <3> DEFINE T == Added(new)
    <3>2. Current(storage \o batch, T, [t \in Tags |-> LabelIndex(T[t])],
                  Bits(T, Len(storage) + Len(batch)), PairIndexes(T))
      BY AddCurrent
    <3> HIDE DEF T
    <3>3. Current(storage, tagged, label_indexes, membership_bitvector, two_label_indexes)'
      BY <3>1, <3>2 DEF T, Current
    <3> QED BY <3>3 DEF IndexSound
  <2>4. adds' \in 0 .. MaxAdds
    BY <2>1, ParametersAssumption
  <2> QED BY <2>1, <2>3, <2>4, StillIdle DEF DiskSound
<1>2. CASE reset
  <2>1. query.state = "idle" /\ UNCHANGED <<query, disk, adds>> /\ Blank'
    BY <1>2 DEF reset, Blank
  <2> QED BY <2>1, StillIdle DEF DiskSound, IndexSound
\* An index that holds vectors is not blank.
<1>3. CASE writeToFile
  <2>1. query.state = "idle" /\ UNCHANGED <<index, query, adds>> /\ ~Blank
        /\ disk' = <<storage, tagged, label_indexes, membership_bitvector, two_label_indexes>>
    BY <1>3 DEF writeToFile, Blank, index
  <2>2. Current(storage, tagged, label_indexes, membership_bitvector, two_label_indexes)
    BY <2>1 DEF IndexSound
  <2>3. DiskSound'
    BY <2>1, <2>2 DEF DiskSound
  <2>4. IndexSound'
    BY <2>1 DEF IndexSound, Blank, index
  <2> QED BY <2>1, <2>3, <2>4, StillIdle
<1>4. CASE readFromFile
  <2>1. query.state = "idle" /\ UNCHANGED <<query, disk, adds>> /\ disk # NoFiles
        /\ storage' = disk[1] /\ tagged' = disk[2] /\ membership_bitvector' = disk[4]
        /\ label_indexes' = [t \in DOMAIN disk[3] |-> Reread(disk[3][t])]
        /\ two_label_indexes' = [p \in DOMAIN disk[5] |-> RereadPair(disk[5][p])]
    BY <1>4 DEF readFromFile
  <2>2. IndexSound'
    BY <2>1, RereadCurrent DEF IndexSound, DiskSound
  <2> QED BY <2>1, <2>2, StillIdle DEF DiskSound
<1>5. CASE search
  <2>1. UNCHANGED <<storage, tagged, label_indexes, membership_bitvector, two_label_indexes,
                    disk, adds>>
    BY <1>5 DEF search, index
  <2>2. PICK q \in QueryPoints, k \in Ks, n_target \in Targets, cut_off_tiny \in CutOffsTiny,
             tag1 \in Tags \cup {NO_TAG, NumTags + 1}, tag2 \in Tags \cup {NO_TAG, NumTags + 1} :
          query' = [state |-> "asked", q |-> q, tag1 |-> tag1,
                    tag2 |-> IF tag2 = tag1 THEN NO_TAG ELSE tag2, k |-> k,
                    n_target |-> n_target, cut_off_tiny |-> cut_off_tiny]
    BY <1>5 DEF search
  <2>3. /\ q \in Points /\ k \in Nat /\ n_target \in Nat /\ cut_off_tiny \in Nat
        /\ tag1 \in 0 .. NumTags + 1 /\ tag2 \in 0 .. NumTags + 1
    BY QueryAssumption, ParametersAssumption DEF Tags, NO_TAG
  <2>4. QuerySound'
    BY <2>2, <2>3, ParametersAssumption DEF QuerySound, NO_TAG
  <2> QED BY <2>1, <2>4 DEF IndexSound, DiskSound, Blank
<1>6. CASE Unfiltered \/ SingleScan \/ SingleSearch \/ UnknownTag
           \/ DualTiny \/ DualPair \/ DualGeneral
  <2>1. QuerySound'
    BY <1>6, NextAnswer
  <2>2. UNCHANGED <<storage, tagged, label_indexes, membership_bitvector, two_label_indexes,
                    disk, adds>>
    BY <1>6 DEF Unfiltered, SingleScan, SingleSearch, UnknownTag, DualTiny, DualPair,
                DualGeneral, Answer, index
  <2> QED BY <2>1, <2>2 DEF IndexSound, DiskSound, Blank
<1>7. CASE Return
  <2>1. UNCHANGED <<storage, tagged, label_indexes, membership_bitvector, two_label_indexes,
                    disk, adds>>
    BY <1>7 DEF Return, index
  <2>2. QuerySound'
    BY <1>7, ParametersAssumption DEF Return, QuerySound, NoQuery, NO_TAG
  <2> QED BY <2>1, <2>2 DEF IndexSound, DiskSound, Blank
<1>8. CASE UNCHANGED vars
  <2>1. UNCHANGED <<storage, tagged, label_indexes, membership_bitvector, two_label_indexes,
                    disk, adds, query, labels>>
    BY <1>8 DEF vars, index
  <2>2. IndexSound' /\ DiskSound' /\ adds' \in 0 .. MaxAdds
    BY <2>1 DEF IndexSound, DiskSound, Blank
  <2>3. Carriers' = Carriers /\ Exhaustive' = Exhaustive
    BY <2>1 DEF Carriers, Exhaustive, Asked
  <2>4. rerank_candidates(Carriers)' = rerank_candidates(Carriers)
    BY <2>1, <2>3, RerankStays
  <2>5. QuerySound'
    BY <2>1, <2>3, <2>4 DEF QuerySound
  <2> QED BY <2>2, <2>5
<1> QED BY <1>1, <1>2, <1>3, <1>4, <1>5, <1>6, <1>7, <1>8 DEF Next

\* However often the index is filled, reset, written and reloaded between
\* queries, its tables are those of the vectors it holds.
THEOREM IndexInvariant == Spec => []IInv
BY InitInv, NextInv, PTL DEF Spec

-----------------------------------------------------------------------------
(* What follows                                                             *)

\* Every variable keeps its type: the tables have the same tags, and an answer
\* a label or -1 for each of its k places (rerank_candidates).
THEOREM TypeCorrect == Spec => []TypeOK
<1>1. ASSUME IInv PROVE TypeOK
  <2>1. /\ storage \in Seq(Points) /\ adds \in 0 .. MaxAdds
        /\ query.state \in {"idle", "asked", "answered"}
    <3>1. storage \in Seq(Points)
      <4>1. CASE Blank
        BY <4>1 DEF Blank
      <4>2. CASE Current(storage, tagged, label_indexes, membership_bitvector, two_label_indexes)
        BY <4>2 DEF Current
      <4> QED BY <1>1, <4>1, <4>2 DEF IInv, IndexSound
    <3> QED BY <1>1, <3>1 DEF IInv, QuerySound
  <2>2. query.state = "answered" => labels \in [1 .. query.k -> DOMAIN storage \cup {NoLabel}]
    BY <1>1 DEF IInv, QuerySound, Carriers
  <2>3. CASE Blank
    BY <2>1, <2>2, <2>3 DEF TypeOK, Blank
  <2>4. CASE Current(storage, tagged, label_indexes, membership_bitvector, two_label_indexes)
    <3>1. /\ DOMAIN storage = 1 .. Len(storage) /\ Len(storage) \in Nat
      BY <2>1
    <3>2. /\ DOMAIN label_indexes = Tags /\ DOMAIN tagged = Tags
          /\ tagged \in [Tags -> IdSets] /\ label_indexes \in [Tags -> LabelIndexes]
      BY <2>4, <3>1 DEF Current, IdSets, LabelIndexes, LabelRecords
    <3>3. membership_bitvector \in [Tags -> Seq(BOOLEAN)]
      <4>1. \A t \in Tags : [id \in 1 .. Len(storage) |-> id \in tagged[t]] \in Seq(BOOLEAN)
        BY <3>1
      <4>2. <<>> \in Seq(BOOLEAN)
        OBVIOUS
      <4>3. membership_bitvector = BitsOf(tagged, Len(storage))
        BY <2>4 DEF Current
      <4> QED BY <4>1, <4>2, <4>3 DEF BitsOf
    <3>4. /\ DOMAIN two_label_indexes \subseteq SUBSET Tags
          /\ two_label_indexes \in [DOMAIN two_label_indexes -> [ids : IdSets, comparator : Comparators]]
      BY <2>4, <3>1 DEF Current, IdSets, PairRecords, Joined
    <3> QED BY <2>1, <2>2, <3>2, <3>3, <3>4 DEF TypeOK
  <2> QED BY <1>1, <2>3, <2>4 DEF IInv, IndexSound
<1> QED BY <1>1, IndexInvariant, PTL

\* For every clustering, graph and cut-off: no branch of the dispatch answers
\* with a vector that lacks a tag of the query (search_single_tag,
\* search_dual_tag).
THEOREM AllAnswersCarryTags == Spec => []AnswersCarryTags
<1>1. IInv => AnswersCarryTags
  BY DEF IInv, QuerySound, AnswersCarryTags, ToSet
<1> QED BY <1>1, IndexInvariant, PTL

\* Whenever the size limits send a query to a scan or to the join of the tiny
\* label, the answer is the nearest of all carriers.
THEOREM SmallSearchesAreExact == Spec => []ExactWhenSmall
<1>1. IInv => ExactWhenSmall
  BY DEF IInv, QuerySound, ExactWhenSmall
<1> QED BY <1>1, IndexInvariant, PTL

\* check_membership knows a tag's vectors from the others, by whichever of its
\* two tables it asks.
THEOREM MembershipAlwaysExact == Spec => []MembershipExact
<1>1. IInv => MembershipExact
  <2>1. IndexSound => DOMAIN tagged = DOMAIN label_indexes /\ DOMAIN tagged \subseteq Tags
    BY DEF IndexSound, Blank, Current
  <2> QED BY <2>1, Members DEF IInv, MembershipExact
<1> QED BY <1>1, IndexInvariant, PTL

\* The pairs with a graph are those that meet often enough among the vectors
\* of now, whichever tag comes first (LabelPairEqual).
THEOREM PairsAlwaysCurrent == Spec => []PairsCurrent
<1>1. IInv => PairsCurrent
  <2> SUFFICES ASSUME IInv, NEW t1 \in DOMAIN tagged, NEW t2 \in DOMAIN tagged, t1 # t2
               PROVE  LET both == tagged[t1] \cap tagged[t2]
                          key  == PairKey(t1, t2)
                      IN /\ key \in DOMAIN two_label_indexes <=> Cardinality(both) >= cut_off
                         /\ key \in DOMAIN two_label_indexes => two_label_indexes[key].ids = both
    BY Zenon DEF PairsCurrent
  <2> DEFINE both == tagged[t1] \cap tagged[t2]
             key  == PairKey(t1, t2)
  <2>1. Current(storage, tagged, label_indexes, membership_bitvector, two_label_indexes)
    BY DEF IInv, IndexSound, Blank
  <2>2. /\ t1 \in Tags /\ t2 \in Tags /\ Len(storage) \in Nat
        /\ tagged[t1] \subseteq 1 .. Len(storage) /\ tagged[t2] \subseteq 1 .. Len(storage)
    BY <2>1 DEF Current
  <2>3. Common(tagged, key) = both /\ key \subseteq Tags
    BY <2>2 DEF Common, PairKey
  <2>4. Cardinality(key) = 2
    <3>1. IsFiniteSet({t1}) /\ Cardinality({t1}) = 1
      BY FS_Singleton
    <3>2. Cardinality({t1} \cup {t2}) = Cardinality({t1}) + 1
      BY <3>1, FS_AddElement
    <3>3. key = {t1} \cup {t2}
      BY DEF PairKey
    <3> QED BY <3>1, <3>2, <3>3
  <2>5. /\ Cardinality(both) \in Nat /\ Cardinality(tagged[t1]) \in Nat
        /\ Cardinality(tagged[t2]) \in Nat /\ Cardinality(both) <= Cardinality(tagged[t1])
        /\ Cardinality(both) <= Cardinality(tagged[t2])
    BY <2>2, Sizes
  <2>6. key \in Joined(tagged) <=> Cardinality(both) >= cut_off
    <3>1. ~Small(both) <=> Cardinality(both) >= cut_off
      BY <2>5, ParametersAssumption DEF Small
    <3>2. ~Small(both) => \A t \in key : ~Small(tagged[t])
      BY <2>5, ParametersAssumption DEF Small, PairKey
    <3> HIDE DEF key, both
    <3> QED BY <2>3, <2>4, <3>1, <3>2 DEF Joined
  <2>7. DOMAIN two_label_indexes = Joined(tagged)
        /\ \A p \in Joined(tagged) : two_label_indexes[p].ids = Common(tagged, p)
    BY <2>1 DEF Current
  <2> QED BY <2>3, <2>6, <2>7
<1> QED BY <1>1, IndexInvariant, PTL

\* The search of a label's index is called on none whose storage a reload has
\* dropped (IndexSmallLabelShared).
THEOREM DelegatesAlwaysBound == Spec => []DelegatesBound
<1>1. IInv => DelegatesBound
  BY TablesOf DEF IInv, DelegatesBound, Scans, Known, Small, Current
<1> QED BY <1>1, IndexInvariant, PTL

-----------------------------------------------------------------------------
(* The ranks of rerank_candidates                                           *)

\* a comes before b: it is nearer, or as near and older.
Before(a, b) ==
  LET far(id) == Dist[query.q][storage[id]]
  IN far(a) < far(b) \/ (far(a) = far(b) /\ a < b)

LEMMA BeforeIsOrder ==
  ASSUME storage \in Seq(Points), query.q \in Points
  PROVE  /\ \A a \in DOMAIN storage : ~Before(a, a)
         /\ \A a, b \in DOMAIN storage : a = b \/ Before(a, b) \/ Before(b, a)
         /\ \A a, b, c \in DOMAIN storage : Before(a, b) /\ Before(b, c) => Before(a, c)
<1> DEFINE far(id) == Dist[query.q][storage[id]]
<1>1. \A a \in DOMAIN storage : far(a) \in Nat /\ a \in Nat
  <2>1. \A a \in DOMAIN storage : storage[a] \in Points /\ a \in Nat
    OBVIOUS
  <2> QED BY <2>1, DistAssumption
<1>2. \A a, b : Before(a, b) <=> far(a) < far(b) \/ (far(a) = far(b) /\ a < b)
  BY DEF Before
<1> HIDE DEF far
<1>3. \A a \in DOMAIN storage : ~Before(a, a)
  BY <1>1, <1>2
<1>4. \A a, b \in DOMAIN storage : a = b \/ Before(a, b) \/ Before(b, a)
  BY <1>1, <1>2
<1>5. \A a, b, c \in DOMAIN storage : Before(a, b) /\ Before(b, c) => Before(a, c)
  BY <1>1, <1>2
<1> QED BY <1>3, <1>4, <1>5

\* Each of the places 1 .. n of n ids is that of one id, and the places beyond
\* are those of none.
LEMMA Places ==
  ASSUME storage \in Seq(Points), query.q \in Points, NEW ids, ids \subseteq DOMAIN storage
  PROVE  LET place(id) == Cardinality(Nearer(ids)[id])
             n == Cardinality(ids)
         IN /\ n \in Nat
            /\ \A id \in ids : place(id) \in 0 .. n - 1
            /\ \A a, b \in ids : Before(a, b) => place(a) < place(b)
            /\ \A m \in 0 .. n - 1 : \E id \in ids : place(id) = m
<1> DEFINE n == Cardinality(ids)
           before(id) == {o \in ids : Before(o, id)}
           place == [id \in ids |-> Cardinality(before(id))]
<1>1. Len(storage) \in Nat /\ DOMAIN storage = 1 .. Len(storage)
  OBVIOUS
<1>2. IsFiniteSet(ids) /\ n \in Nat
  <2>1. IsFiniteSet(1 .. Len(storage)) /\ ids \in SUBSET (1 .. Len(storage))
    BY <1>1, FS_Interval
  <2>2. IsFiniteSet(ids)
    BY <2>1, FS_Subset
  <2> QED BY <2>2, FS_CardinalityType
<1>3. \A id \in ids : Nearer(ids)[id] = before(id)
  BY DEF Nearer, Before
<1>4. \A id \in ids : /\ id \notin before(id) /\ before(id) \subseteq ids
                      /\ IsFiniteSet(before(id)) /\ Cardinality(before(id)) \in Nat
  BY <1>2, BeforeIsOrder, FS_Subset, FS_CardinalityType
<1>5. \A id \in ids : place[id] \in 0 .. n - 1
  <2> TAKE id \in ids
  <2>1. before(id) \in SUBSET ids /\ before(id) # ids
    BY <1>4
  <2> HIDE DEF before
  <2>2. Cardinality(before(id)) <= n /\ Cardinality(before(id)) # n
    BY <1>2, <2>1, FS_Subset
  <2> QED BY <1>2, <1>4, <2>2
<1>6. \A a, b \in ids : Before(a, b) => place[a] < place[b]
  <2> SUFFICES ASSUME NEW a \in ids, NEW b \in ids, Before(a, b)
               PROVE  Cardinality(before(a)) < Cardinality(before(b))
    OBVIOUS
  <2>1. before(a) \subseteq before(b)
    BY BeforeIsOrder
  <2>2. a \in before(b) /\ a \notin before(a)
    BY <1>4
  <2>3. IsFiniteSet(before(b)) /\ before(a) \in SUBSET before(b) /\ before(a) # before(b)
    BY <1>4, <2>1, <2>2
  <2> HIDE DEF before
  <2>4. /\ Cardinality(before(a)) <= Cardinality(before(b))
        /\ Cardinality(before(a)) # Cardinality(before(b))
    BY <2>3, FS_Subset
  <2> QED BY <1>4, <2>4
<1>7. \A m \in 0 .. n - 1 : \E id \in ids : place[id] = m
  <2>1. place \in [ids -> 0 .. n - 1]
    BY <1>5
  <2> HIDE DEF place
  <2>2. \A a, b \in ids : place[a] = place[b] => a = b
    <3> SUFFICES ASSUME NEW a \in ids, NEW b \in ids, place[a] = place[b] PROVE a = b
      OBVIOUS
    <3>1. place[a] \in Nat /\ place[b] \in Nat
      BY <1>2, <1>5
    <3> QED BY <3>1, <1>6, BeforeIsOrder
  <2>3. place \in Injection(ids, 0 .. n - 1)
    BY <2>1, <2>2 DEF Injection, IsInjective
  <2>4. IsFiniteSet(0 .. n - 1) /\ Cardinality(0 .. n - 1) = n
    <3>1. n - 1 \in Int /\ (IF 0 > n - 1 THEN 0 ELSE n - 1 - 0 + 1) = n
      BY <1>2
    <3> QED BY <3>1, FS_Interval
  <2>5. place \in Surjection(ids, 0 .. n - 1)
    BY <1>2, <2>3, <2>4, FS_Injection
  <2> QED BY <2>5 DEF Surjection
<1> QED BY <1>2, <1>3, <1>5, <1>6, <1>7

\* The k labels stand in order, the empty places last.
LEMMA InOrder ==
  ASSUME storage \in Seq(Points), query.q \in Points, query.k \in Nat,
         NEW ids, ids \subseteq DOMAIN storage,
         NEW list, list = rerank_candidates(ids)
  PROVE  /\ list \in [1 .. query.k -> ids \cup {NoLabel}]
         /\ \A i, j \in 1 .. query.k :
              i < j /\ list[j] # NoLabel =>
                /\ list[i] \in ids /\ list[j] \in ids
                /\ Before(list[i], list[j])
<1> DEFINE near == Nearer(ids)
           place(id) == Cardinality(near[id])
           n == Cardinality(ids)
           there(i) == {id \in ids : place(id) = i - 1}
<1>1. /\ n \in Nat /\ \A id \in ids : place(id) \in 0 .. n - 1
      /\ \A a, b \in ids : Before(a, b) => place(a) < place(b)
      /\ \A m \in 0 .. n - 1 : \E id \in ids : place(id) = m
  BY Places
<1>2. DOMAIN near = ids
  BY DEF Nearer
<1> HIDE DEF near
<1>3. \A i \in 1 .. query.k :
        list[i] = IF there(i) = {} THEN NoLabel ELSE CHOOSE id \in there(i) : TRUE
  BY <1>2 DEF rerank_candidates, Ranked, near
<1>4. list \in [1 .. query.k -> ids \cup {NoLabel}]
  BY RankedIsOne
<1>5. \A i \in 1 .. query.k : list[i] # NoLabel => list[i] \in there(i)
  BY <1>3
<1>6. \A i \in 1 .. query.k : there(i) # {} => list[i] \in there(i)
  BY <1>3
<1>7. ASSUME NEW i \in 1 .. query.k, NEW j \in 1 .. query.k, i < j, list[j] # NoLabel
      PROVE  list[i] \in ids /\ list[j] \in ids /\ Before(list[i], list[j])
  <2>1. list[j] \in ids /\ place(list[j]) = j - 1
    BY <1>5, <1>7
  <2>2. i - 1 \in 0 .. n - 1
    BY <1>1, <1>7, <2>1
  <2>3. there(i) # {}
    BY <1>1, <2>2
  <2>4. list[i] \in ids /\ place(list[i]) = i - 1
    BY <1>6, <2>3
  <2>5. ~Before(list[j], list[i])
    <3>1. Before(list[j], list[i]) => place(list[j]) < place(list[i])
      BY <1>1, <2>1, <2>4
    <3>2. ~(j - 1 < i - 1)
      BY <1>7
    <3> HIDE DEF place
    <3> QED BY <2>1, <2>4, <3>1, <3>2
  <2>6. list[i] # list[j]
    BY <1>7, <2>1, <2>4
  <2> QED BY <2>1, <2>4, <2>5, <2>6, BeforeIsOrder
<1> QED BY <1>4, <1>7

-----------------------------------------------------------------------------
(* The refinement                                                           *)

\* A query that is under way names a vector and a k.
Named == query.state # "idle" => query.q \in Points /\ query.k \in Ks

LEMMA NamedInv ==
  /\ Init => Named
  /\ IInv /\ Named /\ [Next]_vars => Named'
<1>1. Init => Named
  BY DEF Init, Named, NoQuery
<1>2. ASSUME IInv, Named, [Next]_vars PROVE Named'
  <2>1. CASE search
    BY <2>1, QueryAssumption DEF search, Named
  <2>2. CASE Unfiltered \/ SingleScan \/ SingleSearch \/ UnknownTag
             \/ DualTiny \/ DualPair \/ DualGeneral
    <3>1. query.state = "asked" /\ query' = [query EXCEPT !.state = "answered"]
      BY <2>2 DEF Unfiltered, SingleScan, SingleSearch, UnknownTag, DualTiny, DualPair,
                  DualGeneral, Single, Dual, Answer
    <3>2. query'.q = query.q /\ query'.k = query.k
      BY <3>1, <1>2 DEF IInv, QuerySound
    <3> QED BY <1>2, <3>1, <3>2 DEF Named
  <2>3. CASE Return
    BY <2>3 DEF Return, NoQuery, Named
  <2>4. CASE add_tags_c \/ reset \/ writeToFile \/ readFromFile \/ UNCHANGED vars
    BY <2>4, <1>2 DEF add_tags_c, reset, writeToFile, readFromFile, vars, Named
  <2> QED BY <1>2, <2>1, <2>2, <2>3, <2>4 DEF Next
<1> QED BY <1>1, <1>2

\* The initial state is one of AnnIndex.
LEMMA PromiseInit == Init => Promise!Init
BY DEF Init, Promise!Init, Promise!NoQuery, NoQuery

LEMMA CandidatesOf ==
  ASSUME NEW label, NEW n, NEW ids \in Candidates(label, n)
  PROVE  ids \subseteq label.ids
BY DEF Candidates

LEMMA WalksOf ==
  ASSUME NEW ids, NEW k, NEW found \in Walks(ids, k)
  PROVE  found \subseteq ids
BY DEF Walks

\* Every branch reranks ids of stored vectors.
LEMMA AnswersStored ==
  ASSUME IInv, Unfiltered \/ SingleScan \/ SingleSearch \/ UnknownTag
               \/ DualTiny \/ DualPair \/ DualGeneral
  PROVE  \E ids \in SUBSET DOMAIN storage : query.state = "asked" /\ Answer(ids)
<1>0. IndexSound
  BY DEF IInv
<1>1. CASE Unfiltered
  BY <1>1 DEF Unfiltered
<1>2. CASE SingleScan \/ SingleSearch
  <2>1. query.state = "asked" /\ Known(query.tag1)
    BY <1>2 DEF SingleScan, SingleSearch, Single
  <2>2. label_indexes[query.tag1].ids \subseteq DOMAIN storage
    BY <1>0, <2>1, TablesOf
  <2>3. CASE SingleScan
    BY <2>1, <2>2, <2>3 DEF SingleScan
  <2>4. CASE SingleSearch
    <3>1. PICK found \in LabelSearch(label_indexes[query.tag1], query.k) : Answer(found)
      BY <2>4 DEF SingleSearch
    <3>2. found \subseteq label_indexes[query.tag1].ids
      BY WalksOf DEF LabelSearch
    <3> QED BY <2>1, <2>2, <3>1, <3>2
  <2> QED BY <1>2, <2>3, <2>4
<1>3. CASE UnknownTag
  BY <1>3 DEF UnknownTag
<1>4. CASE DualTiny \/ DualPair \/ DualGeneral
  <2>1. query.state = "asked" /\ Known(query.tag1) /\ Known(query.tag2)
    BY <1>4 DEF DualTiny, DualPair, DualGeneral, Dual
  <2>2. /\ label_indexes[query.tag1].ids \subseteq DOMAIN storage
        /\ label_indexes[query.tag2].ids \subseteq DOMAIN storage
        /\ Current(storage, tagged, label_indexes, membership_bitvector, two_label_indexes)
    BY <1>0, <2>1, TablesOf
  <2>3. CASE DualTiny
    <3>1. PICK ids \in Candidates(label_indexes[tiny_tag], 0) :
            Answer({id \in ids : check_membership(large_tag, id)})
      BY <2>3 DEF DualTiny, Join
    <3>2. label_indexes[tiny_tag].ids \subseteq DOMAIN storage
      BY <2>2 DEF tiny_tag
    <3>3. ids \subseteq DOMAIN storage
      BY <3>2, CandidatesOf
    <3> QED BY <2>1, <3>1, <3>3
  <2>4. CASE DualPair
    <3> DEFINE pair == PairKey(query.tag1, query.tag2)
    <3>1. PICK found \in Walks(two_label_indexes[pair].ids, query.k) : Answer(found)
      BY <2>4 DEF DualPair
    <3>2. pair \in DOMAIN two_label_indexes
      BY <2>4 DEF DualPair, HasPair
    <3> HIDE DEF pair
    <3>3. two_label_indexes[pair].ids \subseteq 1 .. Len(storage)
      BY <2>2, <3>2 DEF Current, PairRecords
    <3>4. DOMAIN storage = 1 .. Len(storage)
      BY <2>2 DEF Current
    <3> QED BY <2>1, <3>1, <3>3, <3>4, WalksOf
  <2>5. CASE DualGeneral
    <3>1. PICK cands1 \in Candidates(label_indexes[query.tag1], query.n_target),
               cands2 \in Candidates(label_indexes[query.tag2], query.n_target) :
            Answer(common_ids(cands1, cands2))
      BY <2>5 DEF DualGeneral
    <3>2. common_ids(cands1, cands2) \subseteq DOMAIN storage
      BY <2>2, CandidatesOf DEF common_ids
    <3> QED BY <2>1, <3>1, <3>2
  <2> QED BY <1>4, <2>3, <2>4, <2>5
<1> QED BY <1>1, <1>2, <1>3, <1>4

LEMMA StoredVectors == ASSUME IndexSound PROVE storage \in Seq(Points)
<1>1. CASE Blank
  BY <1>1 DEF Blank
<1>2. CASE Current(storage, tagged, label_indexes, membership_bitvector, two_label_indexes)
  BY <1>2 DEF Current
<1> QED BY <1>1, <1>2 DEF IndexSound

LEMMA AnswerKeeps ==
  ASSUME IInv, Named, Unfiltered \/ SingleScan \/ SingleSearch \/ UnknownTag
                      \/ DualTiny \/ DualPair \/ DualGeneral
  PROVE  Promise!Answer
<1>1. PICK ids \in SUBSET DOMAIN storage : query.state = "asked" /\ Answer(ids)
  BY AnswersStored
<1>2. QuerySound'
  BY NextAnswer
<1>3. /\ query' = [query EXCEPT !.state = "answered"] /\ labels' = rerank_candidates(ids)
      /\ storage' = storage /\ tagged' = tagged
  BY <1>1 DEF Answer, index
<1>4. /\ query'.state = "answered" /\ query'.q = query.q /\ query'.k = query.k
      /\ query'.tag1 = query.tag1 /\ query'.tag2 = query.tag2
  BY <1>1, <1>3 DEF IInv, QuerySound
<1>5. Carriers' = Carriers /\ Carriers \subseteq DOMAIN storage
  BY <1>3, <1>4 DEF Carriers, Asked
<1>6. storage \in Seq(Points) /\ query.q \in Points /\ query.k \in Nat
  BY <1>1, StoredVectors DEF Named, IInv, QuerySound
<1>7. /\ labels' \in [1 .. query.k -> Carriers \cup {NoLabel}]
      /\ \A i, j \in 1 .. query.k :
           i < j /\ labels'[j] # NoLabel =>
             /\ labels'[i] \in ids /\ labels'[j] \in ids
             /\ Before(labels'[i], labels'[j])
  <2>1. labels' \in [1 .. query.k -> Carriers \cup {NoLabel}]
    BY <1>2, <1>4, <1>5 DEF QuerySound
  <2> QED BY <1>3, <1>6, <2>1, InOrder
<1> DEFINE list == labels'
           found == Promise!ToSet(list) \ {NoLabel}
           sel == IF query.state = "idle" THEN {} ELSE Carriers
<1>8. Promise!Acceptable(list)
  <2>1. sel = Carriers
    BY <1>1
  <2>2. /\ Len(list) = query.k /\ DOMAIN list = 1 .. query.k
        /\ found \subseteq Carriers
    BY <1>6, <1>7 DEF Promise!ToSet
  <2>3. found \ sel = {} /\ found \subseteq DOMAIN storage
    BY <1>5, <2>1, <2>2
  <2>4. Promise!Cardinality(found \ sel) <= 0
    <3>1. Promise!Cardinality({}) = Cardinality({})
      BY DEF Promise!Cardinality, Cardinality
    <3> QED BY <2>3, <3>1, FS_EmptySet
  <2>5. ASSUME NEW i \in DOMAIN list, NEW j \in DOMAIN list, i < j, list[j] # NoLabel
        PROVE  /\ list[i] \notin {NoLabel, list[j]}
               /\ Dist[query.q][storage[list[i]]] <= Dist[query.q][storage[list[j]]]
    <3>1. list[i] \in ids /\ list[j] \in ids /\ Before(list[i], list[j])
      BY <1>7, <2>2, <2>5
    <3>2. list[i] # list[j] /\ list[i] # NoLabel
      BY <1>6, <3>1, BeforeIsOrder DEF NoLabel
    <3>3. storage[list[i]] \in Points /\ storage[list[j]] \in Points
      BY <1>6, <3>1
    <3>4. /\ Dist[query.q][storage[list[i]]] \in Nat
          /\ Dist[query.q][storage[list[j]]] \in Nat
      BY <1>6, <3>3, DistAssumption
    <3>5. Dist[query.q][storage[list[i]]] <= Dist[query.q][storage[list[j]]]
      <4> HIDE DEF list
      <4> QED BY <3>1, <3>4 DEF Before
    <3> QED BY <3>2, <3>5
  <2> HIDE DEF list
  <2> QED BY <2>2, <2>3, <2>4, <2>5 DEF Promise!Acceptable
<1> QED BY <1>1, <1>3, <1>4, <1>5, <1>8 DEF Promise!Answer

\* A step of the index is one of AnnIndex or changes nothing a client sees.
LEMMA StepKeeps ==
  ASSUME IInv, IInv', Named, [Next]_vars
  PROVE  [Promise!Next]_(Promise!vars)
<1> DEFINE asked == [state |-> query.state, q |-> query.q, k |-> query.k,
                     sel |-> IF query.state = "idle" THEN {} ELSE Carriers]
<1>1. storage \in Seq(Points) /\ storage' \in Seq(Points)
  <2>1. IndexSound /\ IndexSound'
    BY DEF IInv
  <2>2. storage' \in Seq(Points)
    <3>1. CASE Blank'
      <4>1. storage' = <<>>
        BY <3>1 DEF Blank
      <4> QED BY <4>1
    <3>2. CASE Current(storage, tagged, label_indexes, membership_bitvector, two_label_indexes)'
      BY <3>2 DEF Current
    <3> QED BY <2>1, <3>1, <3>2 DEF IndexSound
  <2> QED BY <2>1, <2>2, StoredVectors
<1>2. ASSUME query.state = "idle", UNCHANGED <<query, labels>>, NEW rest \in Seq(Points),
             storage' = storage \o rest
      PROVE  Promise!Add \/ UNCHANGED Promise!vars
  <2>1. asked' = asked
    BY <1>2
  <2>2. Len(storage) <= Len(storage') /\ SubSeq(storage, 1, Len(storage)) = SubSeq(storage', 1, Len(storage))
    BY <1>1, <1>2
  <2>3. Promise!IsPrefix(storage, storage')
    BY <2>2 DEF Promise!IsPrefix
  <2>4. Promise!ToSet(storage') \subseteq Points
    BY <1>1 DEF Promise!ToSet
  <2>5. CASE storage' = storage
    BY <1>2, <2>1, <2>5 DEF Promise!vars
  <2>6. CASE storage' # storage
    BY <1>2, <2>1, <2>3, <2>4, <2>6 DEF Promise!Add
  <2> QED BY <2>5, <2>6
<1>3. CASE add_tags_c
  <2>1. PICK batch \in Batches : storage' = storage \o batch
    BY <1>3 DEF add_tags_c
  <2>2. batch \in Seq(Points) /\ query.state = "idle" /\ UNCHANGED <<query, labels>>
    BY <1>3, BatchesAssumption DEF add_tags_c
  <2> QED BY <1>2, <2>1, <2>2 DEF Promise!Next
<1>4. CASE reset
  <2>1. query.state = "idle" /\ UNCHANGED <<query, labels>> /\ storage' = <<>>
    BY <1>4 DEF reset
  <2>2. asked' = asked
    BY <2>1
  <2> QED BY <2>1, <2>2 DEF Promise!Next, Promise!Reset
<1>5. CASE readFromFile
  <2>1. query.state = "idle" /\ UNCHANGED <<query, labels>> /\ storage = <<>>
    BY <1>5 DEF readFromFile
  <2>2. storage' = storage \o storage'
    BY <1>1, <2>1
  <2> QED BY <1>1, <1>2, <2>1, <2>2 DEF Promise!Next
<1>6. CASE writeToFile \/ UNCHANGED vars
  <2>1. UNCHANGED <<storage, tagged, query, labels>>
    BY <1>6 DEF writeToFile, vars, index
  <2>2. Carriers' = Carriers
    BY <2>1 DEF Carriers, Asked
  <2> QED BY <2>1, <2>2 DEF Promise!vars
<1>7. CASE search
  <2>1. /\ query.state = "idle" /\ UNCHANGED <<storage, labels>>
        /\ query'.state = "asked" /\ query'.q \in Points /\ query'.k \in Ks
    BY <1>7, QueryAssumption DEF search, index
  <2>2. Carriers' \in SUBSET DOMAIN storage
    BY <2>1 DEF Carriers
  <2>3. asked' = [state |-> "asked", q |-> query'.q, sel |-> Carriers', k |-> query'.k]
    BY <2>1
  <2> QED BY <2>1, <2>2, <2>3 DEF Promise!Next, Promise!Ask
<1>8. CASE Unfiltered \/ SingleScan \/ SingleSearch \/ UnknownTag
           \/ DualTiny \/ DualPair \/ DualGeneral
  BY <1>8, AnswerKeeps DEF Promise!Next
<1>9. CASE Return
  BY <1>9 DEF Return, index, NoQuery, Promise!Next, Promise!Take, Promise!NoQuery
<1> QED BY <1>3, <1>4, <1>5, <1>6, <1>7, <1>8, <1>9 DEF Next

\* For every metric, number of tags, batches, cut-offs, clustering and graph,
\* through reset, save and reload: IndexIVFSquared is an AnnIndex whose filter
\* is the set of carriers of the tags, without a stray label (search,
\* rerank_candidates).
THEOREM PromiseKept == Spec => KeepsPromise
<1>1. Spec => []Named
  BY NamedInv, IndexInvariant, PTL DEF Spec
<1>2. Spec => [][Promise!Next]_(Promise!vars)
  BY <1>1, StepKeeps, IndexInvariant, PTL DEF Spec
<1> QED BY <1>2, PromiseInit, PTL DEF Spec, KeepsPromise, Promise!Spec
===============================================================================
