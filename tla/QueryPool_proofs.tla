---------------------------- MODULE QueryPool_proofs ----------------------------
(* What query() promises of its rows, its two pools and exceptions, and what  *)
(* the filters of the wrappers select, for any number of threads and queries  *)
(* and any rows and filters.                                                  *)
EXTENDS QueryPool, FiniteSetTheorems, WellFoundedInduction, TLAPS

-----------------------------------------------------------------------------
(* Induction over a set of numbers, and the elements Kept of a list         *)

LEMMA SetInduction ==
  ASSUME NEW T, 0 \in T, \A n \in Nat : n \in T => n + 1 \in T
  PROVE  Nat \subseteq T
<1> DEFINE R == {p \in Nat \X Nat : p[1] < p[2]}
           bad == Nat \ T
<1>1. IsWellFoundedOn(R, Nat)
  BY NatLessThanWellFounded DEF OpToRel
<1> SUFFICES ASSUME bad # {} PROVE FALSE
  OBVIOUS
<1>2. PICK x \in bad : \A y \in bad : ~ (<<y, x>> \in R)
  <2> bad \subseteq Nat
    OBVIOUS
  <2> HIDE DEF R, bad
  <2> QED BY <1>1, WFMin
<1>3. x # 0 /\ x \in Nat /\ x - 1 \in Nat
  OBVIOUS
<1>4. x - 1 \notin bad
  <2>1. <<x - 1, x>> \in R
    BY <1>3
  <2> HIDE DEF R, bad
  <2> QED BY <1>2, <2>1
<1> QED BY <1>3, <1>4

\* What is at the places P stands in the list in the order of the places.
Enumerates(e, P) ==
  /\ e \in [1 .. Cardinality(P) -> P]
  /\ \A p \in P : \E j \in 1 .. Cardinality(P) : e[j] = p
  /\ \A a, b \in 1 .. Cardinality(P) : a < b => e[a] < e[b]

LEMMA KeptInOrder ==
  ASSUME NEW P \in SUBSET Nat, IsFiniteSet(P)
  PROVE  \E e : Enumerates(e, P) /\ \A s : Kept(s, P) = [j \in 1 .. Cardinality(P) |-> s[e[j]]]
<1> DEFINE n == Cardinality(P)
           upto(i) == {h \in P : h <= i}
           rank == [i \in P |-> Cardinality(upto(i))]
           e == [j \in 1 .. n |-> CHOOSE i \in P : Cardinality({h \in P : h <= i}) = j]
<1>1. n \in Nat
  BY FS_CardinalityType
<1>2. \A i \in P : /\ IsFiniteSet(upto(i)) /\ Cardinality(upto(i)) \in Nat
                   /\ upto(i) \in SUBSET P /\ i \in upto(i)
  <2> TAKE i \in P
  <2>1. upto(i) \in SUBSET P /\ i \in upto(i)
    OBVIOUS
  <2> HIDE DEF upto
  <2> QED BY <2>1, FS_Subset, FS_CardinalityType
<1>3. rank \in [P -> 1 .. n]
  <2> SUFFICES ASSUME NEW i \in P PROVE Cardinality(upto(i)) \in 1 .. n
    OBVIOUS
  <2> HIDE DEF upto
  <2>1. Cardinality(upto(i)) <= n
    BY <1>2, FS_Subset
  <2>2. Cardinality(upto(i)) # 0
    BY <1>2, FS_EmptySet
  <2> QED BY <1>1, <1>2, <2>1, <2>2
<1>4. \A a, b \in P : a < b => rank[a] < rank[b]
  <2> SUFFICES ASSUME NEW a \in P, NEW b \in P, a < b
               PROVE  Cardinality(upto(a)) < Cardinality(upto(b))
    OBVIOUS
  <2>1. upto(a) \in SUBSET upto(b) /\ b \notin upto(a)
    <3>1. \A h \in P : h \in Nat
      OBVIOUS
    <3>2. \A h \in P : h <= a => h <= b
      BY <3>1
    <3>3. ~(b <= a)
      BY <3>1
    <3> QED BY <3>2, <3>3
  <2>2. b \in upto(b)
    BY <1>2
  <2> HIDE DEF upto
  <2>3. /\ Cardinality(upto(a)) <= Cardinality(upto(b))
        /\ Cardinality(upto(a)) # Cardinality(upto(b))
    BY <1>2, <2>1, <2>2, FS_Subset
  <2> QED BY <1>2, <2>3
<1>5. \A a, b \in P : rank[a] \in Nat /\ a \in Nat /\ (rank[a] = rank[b] => a = b)
  <2> TAKE a \in P, b \in P
  <2> HIDE DEF rank
  <2>1. rank[a] \in Nat /\ rank[b] \in Nat /\ a \in Nat /\ b \in Nat
    BY <1>1, <1>3
  <2> QED BY <1>4, <2>1
<1>6. \A j \in 1 .. n : \E i \in P : rank[i] = j
  <2> HIDE DEF rank
  <2>1. rank \in Injection(P, 1 .. n)
    BY <1>3, <1>5 DEF Injection, IsInjective
  <2>2. IsFiniteSet(1 .. n) /\ Cardinality(1 .. n) = n
    <3>1. (IF 1 > n THEN 0 ELSE n - 1 + 1) = n
      BY <1>1
    <3> QED BY <1>1, <3>1, FS_Interval
  <2>3. rank \in Surjection(P, 1 .. n)
    BY <2>1, <2>2, FS_Injection
  <2> QED BY <2>3 DEF Surjection
<1>7. \A j \in 1 .. n : e[j] \in P /\ rank[e[j]] = j
  BY <1>6
<1>8. \A p \in P : e[rank[p]] = p
  <2> TAKE p \in P
  <2> HIDE DEF e, rank
  <2>1. rank[p] \in 1 .. n
    BY <1>3
  <2> QED BY <1>5, <1>7, <2>1
<1>9. Enumerates(e, P)
  <2>1. e \in [1 .. n -> P]
    BY <1>7
  <2>2. \A p \in P : \E j \in 1 .. n : e[j] = p
    <3> HIDE DEF e, rank
    <3> QED BY <1>3, <1>8
  <2>3. \A a, b \in 1 .. n : a < b => e[a] < e[b]
    <3> HIDE DEF e, rank
    <3> TAKE a \in 1 .. n, b \in 1 .. n
    <3>1. e[a] \in P /\ e[b] \in P /\ rank[e[a]] = a /\ rank[e[b]] = b /\ a \in Nat /\ b \in Nat
      BY <1>1, <1>7
    <3>2. e[a] \in Nat /\ e[b] \in Nat
      BY <3>1
    <3>3. e[b] < e[a] => b < a
      BY <1>4, <3>1
    <3> QED BY <3>1, <3>2, <3>3
  <2> QED BY <2>1, <2>2, <2>3 DEF Enumerates
<1>10. \A s : Kept(s, P) = [j \in 1 .. n |-> s[e[j]]]
  BY DEF Kept
<1> HIDE DEF e
<1> QED BY <1>9, <1>10

\* A set of numbers with all below each is the numbers up to its size.
LEMMA DownwardClosed ==
  ASSUME NEW n \in Nat, NEW D \in SUBSET (1 .. n),
         \A a, b \in 1 .. n : a < b /\ b \in D => a \in D
  PROVE  /\ IsFiniteSet(D) /\ Cardinality(D) \in 0 .. n
         /\ \A j \in 1 .. n : j \in D <=> j <= Cardinality(D)
<1>1. \A j \in 0 .. n : IsFiniteSet(1 .. j) /\ Cardinality(1 .. j) = j
  <2> TAKE j \in 0 .. n
  <2>1. (IF 1 > j THEN 0 ELSE j - 1 + 1) = j
    OBVIOUS
  <2> QED BY <2>1, FS_Interval
<1>2. IsFiniteSet(D) /\ Cardinality(D) \in Nat /\ Cardinality(D) <= n
  <2>1. IsFiniteSet(1 .. n) /\ Cardinality(1 .. n) = n
    BY <1>1
  <2>2. IsFiniteSet(D) /\ Cardinality(D) <= n
    BY <2>1, FS_Subset
  <2> QED BY <2>2, FS_CardinalityType
<1>3. ASSUME NEW j \in 1 .. n, j \in D PROVE j <= Cardinality(D)
  <2>1. 1 .. j \in SUBSET D
    BY <1>3
  <2>2. Cardinality(1 .. j) <= Cardinality(D)
    BY <1>2, <2>1, FS_Subset
  <2> QED BY <1>1, <2>2
<1>4. ASSUME NEW j \in 1 .. n, j \notin D PROVE ~(j <= Cardinality(D))
  <2>1. D \in SUBSET (1 .. j - 1)
    BY <1>4
  <2>2. j - 1 \in 0 .. n
    OBVIOUS
  <2>3. IsFiniteSet(1 .. j - 1) /\ Cardinality(1 .. j - 1) = j - 1
    BY <1>1, <2>2
  <2>4. Cardinality(D) <= j - 1
    BY <2>1, <2>3, FS_Subset
  <2> QED BY <1>2, <2>4
<1> QED BY <1>2, <1>3, <1>4

-----------------------------------------------------------------------------
(* The loop of get_valid_ids_conj and get_valid_ids_cnf                     *)

LEMMA DimsType == num_dims \in Nat /\ nb \in Nat \ {0} /\ Dims = 1 .. num_dims
<1>1. base_attributes \in Seq(Seq(Int)) /\ base_attributes # <<>>
  BY RowsAssumption
<1>2. base_attributes[1] \in Seq(Int) /\ Len(base_attributes) \in Nat \ {0}
  BY <1>1
<1> QED BY <1>2 DEF num_dims, nb, Dims

\* The rows that pass the dimensions 1 .. d that are not open.
Left(ids, d) == {row \in Rows : \A e \in 1 .. d : ids[e] = None \/ row \in ids[e]}
Restricted(ids, d) == \E e \in 1 .. d : ids[e] # None

\* What the loop has kept after dimension d is what the open dimensions leave
\* and the others list; None stands for every row.
LEMMA NarrowingResult ==
  ASSUME NEW ids, \A d \in Dims : ids[d] = None \/ ids[d] \subseteq Rows
  PROVE  OrAllRows(Narrowing(ids)[num_dims]) = Left(ids, num_dims)
<1> DEFINE step(f, d) == IF d = 0 THEN None
                         ELSE IF ids[d] = None THEN f[d - 1]
                         ELSE Narrowed(f[d - 1], ids[d])
           g == [d \in 0 .. num_dims |-> IF Restricted(ids, d) THEN Left(ids, d) ELSE None]
           f == Narrowing(ids)
<1>1. num_dims \in Nat /\ nb \in Nat /\ Dims = 1 .. num_dims
  BY DimsType
<1>2. \A S : S \subseteq Rows => S # None
  <2>1. 0 \notin Rows
    BY <1>1 DEF Rows
  <2> QED BY <2>1 DEF None, NoLabel
<1>3. \A d \in 0 .. num_dims : Left(ids, d) \subseteq Rows
  BY DEF Left
<1>4. \A d \in 0 .. num_dims : g[d] = step(g, d)
  <2> TAKE d \in 0 .. num_dims
  <2>1. CASE d = 0
    <3>1. ~Restricted(ids, d)
      BY <2>1 DEF Restricted
    <3> QED BY <2>1, <3>1
  <2>2. CASE d # 0
    <3>1. d \in Dims /\ d - 1 \in 0 .. num_dims /\ 1 .. d = (1 .. d - 1) \cup {d}
      BY <1>1, <2>2
    <3>2. Restricted(ids, d) <=> Restricted(ids, d - 1) \/ ids[d] # None
      BY <3>1 DEF Restricted
    <3>3. Left(ids, d) = {row \in Left(ids, d - 1) : ids[d] = None \/ row \in ids[d]}
      BY <3>1 DEF Left
    <3>4. CASE ids[d] = None
      BY <2>2, <3>1, <3>2, <3>3, <3>4
    <3>5. CASE ids[d] # None /\ Restricted(ids, d - 1)
      <4>1. Left(ids, d) = Left(ids, d - 1) \cap ids[d]
        BY <3>3, <3>5
      <4>2. g[d - 1] = Left(ids, d - 1) /\ g[d - 1] # None
        BY <1>2, <1>3, <3>1, <3>5
      <4> QED BY <2>2, <3>1, <3>2, <3>5, <4>1, <4>2 DEF Narrowed
    <3>6. CASE ids[d] # None /\ ~Restricted(ids, d - 1)
      <4>1. \A row \in Rows : row \in Left(ids, d - 1)
        BY <3>6 DEF Restricted, Left
      <4>2. Left(ids, d) = ids[d]
        BY <3>1, <3>3, <3>6, <4>1, <1>3
      <4>3. g[d - 1] = None
        BY <3>1, <3>6
      <4> QED BY <2>2, <3>1, <3>2, <3>6, <4>2, <4>3 DEF Narrowed
    <3> QED BY <3>4, <3>5, <3>6
  <2> QED BY <2>1, <2>2
<1>5. g = [d \in 0 .. num_dims |-> step(g, d)]
  <2> HIDE DEF step
  <2>1. g = [d \in 0 .. num_dims |-> g[d]]
    OBVIOUS
  <2> HIDE DEF g
  <2> QED BY <1>4, <2>1
<1>6. f = [d \in 0 .. num_dims |-> step(f, d)]
  <2>1. f = CHOOSE r : r = [d \in 0 .. num_dims |-> step(r, d)]
    BY DEF Narrowing
  <2> HIDE DEF f, g
  <2>2. \E r : r = [d \in 0 .. num_dims |-> step(r, d)]
    BY <1>5
  <2> QED BY <2>1, <2>2
<1>7. \A d \in 0 .. num_dims : f[d] = g[d]
  <2> DEFINE T == {d \in Nat : d \in 0 .. num_dims => f[d] = g[d]}
  <2> HIDE DEF f, g
  <2>1. 0 \in T
    <3>1. 0 \in 0 .. num_dims
      BY <1>1
    <3>2. f[0] = step(f, 0)
      BY <1>6, <3>1
    <3>3. g[0] = step(g, 0)
      BY <1>4, <3>1
    <3> QED BY <3>2, <3>3
  <2>2. ASSUME NEW d \in Nat, d \in T PROVE d + 1 \in T
    <3> SUFFICES ASSUME d + 1 \in 0 .. num_dims PROVE f[d + 1] = g[d + 1]
      OBVIOUS
    <3>1. d \in 0 .. num_dims /\ d + 1 # 0 /\ d + 1 - 1 = d
      BY <1>1
    <3>2. f[d] = g[d]
      BY <2>2, <3>1
    <3>3. f[d + 1] = step(f, d + 1)
      BY <1>6
    <3>4. g[d + 1] = step(g, d + 1)
      BY <1>4
    <3>5. step(f, d + 1) = step(g, d + 1)
      BY <3>1, <3>2
    <3> QED BY <3>3, <3>4, <3>5
  <2> HIDE DEF T
  <2>3. Nat \subseteq T
    BY <2>1, <2>2, SetInduction
  <2> QED BY <1>1, <2>3 DEF T
<1>8. f[num_dims] = g[num_dims] /\ num_dims \in 0 .. num_dims
  BY <1>1, <1>7
<1>9. g[num_dims] = IF Restricted(ids, num_dims) THEN Left(ids, num_dims) ELSE None
  BY <1>8
<1> HIDE DEF f, g
<1>10. CASE Restricted(ids, num_dims)
  <2>1. Left(ids, num_dims) # None
    BY <1>2, <1>3, <1>8
  <2> QED BY <1>8, <1>9, <1>10, <2>1 DEF OrAllRows, f
<1>11. CASE ~Restricted(ids, num_dims)
  <2>1. Left(ids, num_dims) = Rows
    BY <1>11 DEF Restricted, Left
  <2> QED BY <1>8, <1>9, <1>11, <2>1 DEF OrAllRows, f
<1> QED BY <1>10, <1>11

-----------------------------------------------------------------------------
(* The two ways to apply a filter                                           *)

LEMMA FiltersSelectTheSame ==
  ASSUME batch \in Batches PROVE FiltersAgree
<1> SUFFICES ASSUME NEW i \in Queries
             PROVE  LET rows == {row \in Rows : Described(row, Flt(i))}
                    IN /\ {row \in Rows : valid(batch.query_type, row, Flt(i))} = rows
                       /\ ~NoTags(i) => get_valid_ids(batch.query_type, Flt(i)) = rows
  BY DEF FiltersAgree
<1> DEFINE flt == Flt(i)
           rows == {row \in Rows : Described(row, flt)}
<1>1. num_dims \in Nat /\ Dims = 1 .. num_dims /\ NoLabel \notin Rows
  BY DimsType DEF Rows, NoLabel
<1>2. batch.query_type \in {"conjunction", "CNF", "sparse"}
  BY BatchesAssumption
<1>3. \A row \in Rows : AttributesOf(row) = base_attributes[row] /\ TagsOf(row) = base_tags[row]
  BY <1>1 DEF AttributesOf, TagsOf
<1>4. CASE batch.query_type = "conjunction"
  <2> DEFINE ids == [d \in Dims |-> IF flt[d] = ANY THEN None ELSE _build_index(d, flt[d])]
  <2>1. \A row : Described(row, flt) <=> \A d \in Dims : flt[d] \in {ANY, base_attributes[row][d]}
    BY <1>4 DEF Described
  <2>2. \A row \in Rows : valid(batch.query_type, row, flt) <=> Described(row, flt)
    BY <1>3, <1>4, <2>1 DEF valid, valid_structured_conjunction
  <2>3. get_valid_ids(batch.query_type, flt) = Left(ids, num_dims)
    <3>1. get_valid_ids(batch.query_type, flt) = OrAllRows(Narrowing(ids)[num_dims])
      BY <1>4 DEF get_valid_ids, get_valid_ids_conj
    <3>2. \A d \in Dims : ids[d] = None \/ ids[d] \subseteq Rows
      BY DEF _build_index
    <3> HIDE DEF ids
    <3> QED BY <3>1, <3>2, NarrowingResult
  <2>4. \A row \in Rows : row \in Left(ids, num_dims) <=> Described(row, flt)
    <3> TAKE row \in Rows
    <3>1. row \in Left(ids, num_dims) <=> \A d \in Dims : ids[d] = None \/ row \in ids[d]
      BY <1>1 DEF Left
    <3>2. ASSUME NEW d \in Dims
          PROVE  (ids[d] = None \/ row \in ids[d]) <=> flt[d] \in {ANY, base_attributes[row][d]}
      <4>1. _build_index(d, flt[d]) # None
        BY <1>1 DEF _build_index, None
      <4>2. row \in _build_index(d, flt[d]) <=> base_attributes[row][d] = flt[d]
        BY DEF _build_index
      <4> QED BY <4>1, <4>2
    <3> HIDE DEF ids
    <3> QED BY <2>1, <3>1, <3>2
  <2>5. Left(ids, num_dims) = rows
    <3> HIDE DEF ids
    <3> QED BY <2>4 DEF Left
  <2>6. {row \in Rows : valid(batch.query_type, row, flt)} = rows
    BY <2>2
  <2> QED BY <2>3, <2>5, <2>6
<1>5. CASE batch.query_type = "CNF"
  <2> DEFINE ids == [d \in Dims |-> IF ANY \in flt[d] THEN None
                                    ELSE UNION {_build_index(d, v) : v \in flt[d]}]
  <2>1. \A row : Described(row, flt) <=> \A d \in Dims : base_attributes[row][d] \in flt[d]
    BY <1>5 DEF Described
  <2>2. \A row \in Rows : valid(batch.query_type, row, flt) <=> Described(row, flt)
    BY <1>3, <1>5, <2>1 DEF valid, valid_structured_CNF
  <2>3. get_valid_ids(batch.query_type, flt) = Left(ids, num_dims)
    <3>1. get_valid_ids(batch.query_type, flt) = OrAllRows(Narrowing(ids)[num_dims])
      BY <1>5 DEF get_valid_ids, get_valid_ids_cnf
    <3>2. \A d \in Dims : ids[d] = None \/ ids[d] \subseteq Rows
      BY DEF _build_index
    <3> HIDE DEF ids
    <3> QED BY <3>1, <3>2, NarrowingResult
  <2>4. \A row \in Rows : row \in Left(ids, num_dims) <=> Described(row, flt)
    <3> TAKE row \in Rows
    <3>1. row \in Left(ids, num_dims) <=> \A d \in Dims : ids[d] = None \/ row \in ids[d]
      BY <1>1 DEF Left
    <3>2. ASSUME NEW d \in Dims
          PROVE  (ids[d] = None \/ row \in ids[d]) <=> base_attributes[row][d] \in flt[d]
      <4>1. ANY \notin flt[d]
        BY <1>5, BatchesAssumption DEF Flt
      <4>2. UNION {_build_index(d, v) : v \in flt[d]} # None
        BY <1>1 DEF _build_index, None
      <4>3. row \in UNION {_build_index(d, v) : v \in flt[d]} <=> base_attributes[row][d] \in flt[d]
        BY DEF _build_index
      <4> QED BY <4>1, <4>2, <4>3
    <3> HIDE DEF ids
    <3> QED BY <2>1, <3>1, <3>2
  <2>5. Left(ids, num_dims) = rows
    <3> HIDE DEF ids
    <3> QED BY <2>4 DEF Left
  <2>6. {row \in Rows : valid(batch.query_type, row, flt)} = rows
    BY <2>2
  <2> QED BY <2>3, <2>5, <2>6
<1>6. CASE batch.query_type = "sparse"
  <2>1. \A row : Described(row, flt) <=> \A t \in flt : t \in base_tags[row]
    BY <1>6 DEF Described
  <2>2. \A row \in Rows : valid(batch.query_type, row, flt) <=> Described(row, flt)
    BY <1>3, <1>6, <2>1 DEF valid, valid_csr_conjunction
  <2>3. ~NoTags(i) => get_valid_ids(batch.query_type, flt) = rows
    <3> SUFFICES ASSUME flt # {} PROVE valid_ids_set(flt) = rows
      BY <1>6 DEF NoTags, get_valid_ids
    <3>1. \A t : Column(t) = {row \in Rows : t \in base_tags[row]}
      BY DEF Column
    <3> QED BY <2>1, <3>1 DEF valid_ids_set
  <2>4. {row \in Rows : valid(batch.query_type, row, flt)} = rows
    BY <2>2
  <2> QED BY <2>3, <2>4
<1> QED BY <1>2, <1>4, <1>5, <1>6

-----------------------------------------------------------------------------
(* Hits and rows of labels                                                  *)

\* The first m of the n places of a list hold rows, each with a nearer one
\* before it, and the others hold none.
InOrder(i, list, n, m) ==
  /\ list \in [1 .. n -> Rows \cup {NoLabel}]
  /\ \A j \in 1 .. n : list[j] # NoLabel <=> j <= m
  /\ \A a, b \in 1 .. n : a < b /\ b <= m => Near(i, list[a]) < Near(i, list[b])
  /\ \A j \in 1 .. n : j <= m => Near(i, list[j]) \in Nat

LEMMA NearOfPlace ==
  ASSUME NEW i \in Queries, NEW p \in DOMAIN Ranking[i]
  PROVE  Near(i, Ranking[i][p]) = p /\ p \in Nat /\ Ranking[i][p] \in Rows
<1>1. Ranking[i] \in Seq(Rows) /\ IsInjective(Ranking[i])
  BY PoolAssumption DEF Queries
<1>2. p \in Nat /\ Ranking[i][p] \in Rows
  BY <1>1
<1>3. \A j \in DOMAIN Ranking[i] : Ranking[i][j] = Ranking[i][p] => j = p
  BY <1>1 DEF IsInjective
<1> QED BY <1>2, <1>3 DEF Near

LEMMA NoLabelIsNoRow == NoLabel \notin Rows
BY DimsType DEF Rows, NoLabel

\* The hits of an index stand in the order of distance, before the padding.
LEMMA HitsInOrder ==
  ASSUME NEW i \in Queries, NEW rows, rows \subseteq Rows, NEW n \in Nat,
         NEW hits \in Search(i, rows, n)
  PROVE  \E m \in 0 .. n : /\ InOrder(i, hits, n, m)
                           /\ \A j \in 1 .. n : j <= m => hits[j] \in rows
<1> DEFINE places == {p \in DOMAIN Ranking[i] : Ranking[i][p] \in rows}
<1>1. Ranking[i] \in Seq(Rows) /\ Len(Ranking[i]) \in Nat
  BY PoolAssumption DEF Queries
<1>2. PICK found \in SUBSET places :
             Cardinality(found) <= n /\ hits = Padded(Kept(Ranking[i], found), n)
  BY DEF Search
<1> DEFINE m == Cardinality(found)
<1>3. /\ found \in SUBSET Nat /\ IsFiniteSet(found)
      /\ \A p \in found : p \in DOMAIN Ranking[i] /\ Ranking[i][p] \in rows
  <2>1. found \in SUBSET (1 .. Len(Ranking[i]))
    BY <1>1, <1>2
  <2>2. IsFiniteSet(1 .. Len(Ranking[i]))
    BY <1>1, FS_Interval
  <2>3. found \in SUBSET Nat
    BY <2>1
  <2> QED BY <1>2, <2>1, <2>2, <2>3, FS_Subset
<1>4. m \in Nat /\ m \in 0 .. n
  BY <1>2, <1>3, FS_CardinalityType
<1>5. PICK e : Enumerates(e, found)
               /\ \A s : Kept(s, found) = [j \in 1 .. m |-> s[e[j]]]
  BY <1>3, KeptInOrder
<1> DEFINE kept == [j \in 1 .. m |-> Ranking[i][e[j]]]
<1>6. Kept(Ranking[i], found) = kept
  BY <1>5
<1>7. \A j \in 1 .. m : e[j] \in DOMAIN Ranking[i] /\ Ranking[i][e[j]] \in rows
  <2> TAKE j \in 1 .. m
  <2>1. e[j] \in found
    BY <1>5 DEF Enumerates
  <2> QED BY <1>3, <2>1
<1>8. kept \in Seq(Rows) /\ Len(kept) = m
  BY <1>4, <1>7
<1>9. \A j \in 1 .. n : hits[j] = IF j <= m THEN Ranking[i][e[j]] ELSE NoLabel
  <2>1. hits = [j \in 1 .. n |-> IF j <= Len(kept) THEN kept[j] ELSE NoLabel]
    BY <1>2, <1>6 DEF Padded
  <2>2. \A j \in 1 .. n : j <= m => kept[j] = Ranking[i][e[j]]
    BY <1>4
  <2> HIDE DEF kept
  <2> QED BY <1>8, <2>1, <2>2
<1>10. DOMAIN hits = 1 .. n /\ hits = [j \in 1 .. n |-> hits[j]]
  BY <1>2 DEF Padded
<1> HIDE DEF m, kept
<1>11. \A j \in 1 .. n : j <= m => /\ hits[j] \in rows /\ hits[j] \in Rows
                                   /\ Near(i, hits[j]) = e[j] /\ e[j] \in Nat
  <2> TAKE j \in 1 .. n
  <2> SUFFICES ASSUME j <= m
               PROVE  /\ hits[j] \in rows /\ hits[j] \in Rows
                      /\ Near(i, hits[j]) = e[j] /\ e[j] \in Nat
    OBVIOUS
  <2>1. j \in 1 .. m /\ hits[j] = Ranking[i][e[j]]
    BY <1>4, <1>9
  <2>2. e[j] \in DOMAIN Ranking[i] /\ Ranking[i][e[j]] \in rows
    BY <1>7, <2>1
  <2> QED BY <2>1, <2>2, NearOfPlace
<1>12. InOrder(i, hits, n, m)
  <2>1. \A j \in 1 .. n : hits[j] # NoLabel <=> j <= m
    BY <1>9, <1>11, NoLabelIsNoRow
  <2>2. \A j \in 1 .. n : hits[j] \in Rows \cup {NoLabel}
    BY <1>9, <1>11
  <2>3. hits \in [1 .. n -> Rows \cup {NoLabel}]
    BY <1>10, <2>2
  <2>4. ASSUME NEW a \in 1 .. n, NEW b \in 1 .. n, a < b, b <= m
        PROVE  Near(i, hits[a]) < Near(i, hits[b])
    <3>1. a \in 1 .. m /\ b \in 1 .. m /\ a <= m
      BY <1>4, <2>4
    <3>2. e[a] < e[b]
      BY <1>5, <2>4, <3>1 DEF Enumerates, m
    <3> QED BY <1>11, <2>4, <3>1, <3>2
  <2> QED BY <1>11, <2>1, <2>3, <2>4 DEF InOrder
<1> QED BY <1>4, <1>11, <1>12

\* Of the hits that pass, the first k are listed in their order, then padding.
LEMMA PostfilteredInOrder ==
  ASSUME NEW i \in Queries, NEW n \in Nat, NEW m \in 0 .. n, NEW hits, InOrder(i, hits, n, m),
         NEW type, NEW flt
  PROVE  LET row_list == Postfiltered(type, flt, hits, k)
             fit == {row \in ToSet(hits) \ {NoLabel} : valid(type, row, flt)}
         IN /\ Cardinality(fit) \in Nat /\ InOrder(i, row_list, k, Cardinality(fit))
            /\ \A j \in 1 .. k : j <= Cardinality(fit) => row_list[j] \in fit
<1> DEFINE P == Passing(type, flt, hits)
           row_list == Postfiltered(type, flt, hits, k)
           fit == {row \in ToSet(hits) \ {NoLabel} : valid(type, row, flt)}
           l == Cardinality(P)
<1>1. /\ hits \in [1 .. n -> Rows \cup {NoLabel}]
      /\ \A j \in 1 .. n : hits[j] # NoLabel <=> j <= m
      /\ \A a, b \in 1 .. n : a < b /\ b <= m => Near(i, hits[a]) < Near(i, hits[b])
      /\ \A j \in 1 .. n : j <= m => Near(i, hits[j]) \in Nat
  BY DEF InOrder
<1>2. /\ P = {p \in 1 .. n : valid(type, hits[p], flt)}
      /\ k \in Nat
  BY <1>1, PoolAssumption DEF Passing
<1>3. P \in SUBSET Nat /\ IsFiniteSet(P) /\ l \in Nat
  <2>1. P \in SUBSET (1 .. n) /\ IsFiniteSet(1 .. n) /\ P \in SUBSET Nat
    BY <1>2, FS_Interval
  <2> HIDE DEF P
  <2>2. IsFiniteSet(P)
    BY <2>1, FS_Subset
  <2> QED BY <2>1, <2>2, FS_CardinalityType
<1>4. PICK e : Enumerates(e, P) /\ \A s : Kept(s, P) = [j \in 1 .. l |-> s[e[j]]]
  BY <1>3, KeptInOrder
<1>5. /\ \A j \in 1 .. l : e[j] \in P
      /\ \A p \in P : \E j \in 1 .. l : e[j] = p
      /\ \A a, b \in 1 .. l : a < b => e[a] < e[b]
  BY <1>4 DEF Enumerates
<1>6. \A p \in P : p \in 1 .. n /\ p \in Nat /\ valid(type, hits[p], flt)
  BY <1>2
<1> DEFINE kept == [j \in 1 .. l |-> hits[e[j]]]
           D == {j \in 1 .. l : e[j] <= m}
           h == [j \in D |-> hits[e[j]]]
           q == Cardinality(D)
<1>7. kept \in Seq(Rows \cup {NoLabel}) /\ Len(kept) = l
  <2>1. \A j \in 1 .. l : hits[e[j]] \in Rows \cup {NoLabel}
    BY <1>1, <1>5, <1>6
  <2> QED BY <1>3, <2>1
<1>8. row_list = [j \in 1 .. k |-> IF j <= l THEN hits[e[j]] ELSE NoLabel]
  <2>1. Kept(hits, P) = kept
    BY <1>4
  <2>2. row_list = [j \in 1 .. k |-> IF j <= Len(kept) THEN kept[j] ELSE NoLabel]
    BY <2>1 DEF Postfiltered, Padded
  <2>3. \A j \in 1 .. k : j <= l => kept[j] = hits[e[j]]
    BY <1>2, <1>3
  <2> HIDE DEF kept, row_list
  <2> QED BY <1>7, <2>2, <2>3
<1>9. IsFiniteSet(D) /\ q \in 0 .. l /\ \A j \in 1 .. l : j \in D <=> j <= q
  <2>1. D \in SUBSET (1 .. l)
    OBVIOUS
  <2>2. ASSUME NEW a \in 1 .. l, NEW b \in 1 .. l, a < b, b \in D PROVE a \in D
    <3>1. e[a] \in Nat /\ e[b] \in Nat /\ e[a] < e[b] /\ e[b] <= m
      BY <1>5, <1>6, <2>2
    <3>2. e[a] <= m
      BY <3>1
    <3> QED BY <3>2
  <2> HIDE DEF D
  <2> QED BY <1>3, <2>1, <2>2, DownwardClosed
\* The j-th hit that passes is a row exactly for j up to q.
<1>10. \A j \in 1 .. l : j <= q <=> hits[e[j]] # NoLabel
  <2> TAKE j \in 1 .. l
  <2>1. j <= q <=> e[j] <= m
    BY <1>9
  <2>2. e[j] \in 1 .. n
    BY <1>5, <1>6
  <2> QED BY <1>1, <2>1, <2>2
<1>11. \A j \in 1 .. l : j <= q => /\ hits[e[j]] \in fit /\ hits[e[j]] \in Rows
                                   /\ Near(i, hits[e[j]]) \in Nat
  <2> TAKE j \in 1 .. l
  <2> SUFFICES ASSUME j <= q
               PROVE  /\ hits[e[j]] \in fit /\ hits[e[j]] \in Rows
                      /\ Near(i, hits[e[j]]) \in Nat
    OBVIOUS
  <2>1. hits[e[j]] # NoLabel /\ e[j] \in P
    BY <1>5, <1>10
  <2>2. e[j] \in 1 .. n /\ valid(type, hits[e[j]], flt)
    BY <1>6, <2>1
  <2>3. hits[e[j]] \in ToSet(hits) /\ hits[e[j]] \in Rows
    BY <1>1, <2>1, <2>2 DEF ToSet
  <2>4. e[j] <= m
    BY <1>1, <2>1, <2>2
  <2> QED BY <1>1, <2>1, <2>2, <2>3, <2>4
<1>12. \A a, b \in 1 .. l : a < b /\ b <= q => Near(i, hits[e[a]]) < Near(i, hits[e[b]])
  <2> SUFFICES ASSUME NEW a \in 1 .. l, NEW b \in 1 .. l, a < b, b <= q
               PROVE  Near(i, hits[e[a]]) < Near(i, hits[e[b]])
    OBVIOUS
  <2>1. e[a] < e[b] /\ e[a] \in 1 .. n /\ e[b] \in 1 .. n
    BY <1>5, <1>6
  <2>2. e[b] <= m
    BY <1>9
  <2> QED BY <1>1, <2>1, <2>2
<1>13. Cardinality(fit) = q
  <2>1. h \in Bijection(D, fit)
    <3>1. \A j \in D : j \in 1 .. l /\ j <= q
      BY <1>9
    <3>2. h \in [D -> fit]
      <4> HIDE DEF D, q, fit
      <4> QED BY <1>11, <3>1
    <3>3. ASSUME NEW a \in D, NEW b \in D, hits[e[a]] = hits[e[b]] PROVE a = b
      <4>1. a \in 1 .. l /\ a <= q /\ b \in 1 .. l /\ b <= q
        BY <3>1
      <4> HIDE DEF D, q
      <4>2. /\ ~(Near(i, hits[e[a]]) < Near(i, hits[e[b]]))
            /\ ~(Near(i, hits[e[b]]) < Near(i, hits[e[a]]))
        BY <1>11, <3>3, <4>1
      <4>3. ~(a < b) /\ ~(b < a)
        BY <1>12, <4>1, <4>2
      <4> QED BY <4>1, <4>3
    <3>4. ASSUME NEW row \in fit PROVE \E j \in D : h[j] = row
      <4>1. PICK p \in 1 .. n : row = hits[p]
        BY <1>1 DEF ToSet
      <4>2. p <= m /\ p \in P
        BY <1>1, <1>2, <4>1
      <4>3. PICK j \in 1 .. l : e[j] = p
        BY <1>5, <4>2
      <4>4. j \in D
        BY <4>2, <4>3
      <4> QED BY <4>1, <4>3, <4>4
    <3> HIDE DEF D, fit
    <3> QED BY <3>2, <3>3, <3>4 DEF Bijection, Injection, Surjection, IsInjective
  <2> HIDE DEF D, fit, h
  <2>2. ExistsBijection(D, fit)
    BY <2>1 DEF ExistsBijection
  <2> QED BY <1>9, <2>2, FS_Bijection
<1>14. \A j \in 1 .. k : row_list[j] # NoLabel <=> j <= q
  <2> TAKE j \in 1 .. k
  <2>1. row_list[j] = IF j <= l THEN hits[e[j]] ELSE NoLabel
    BY <1>8
  <2>2. CASE j <= l
    <3>1. j \in 1 .. l
      BY <1>3, <2>2
    <3> QED BY <1>10, <2>1, <2>2, <3>1
  <2>3. CASE ~(j <= l)
    <3>1. ~(j <= q)
      BY <1>3, <1>9, <2>3
    <3> QED BY <2>1, <2>3, <3>1
  <2> QED BY <2>2, <2>3
<1>15. \A j \in 1 .. k : j <= q => j \in 1 .. l /\ row_list[j] = hits[e[j]]
  <2> TAKE j \in 1 .. k
  <2> SUFFICES ASSUME j <= q PROVE j \in 1 .. l /\ row_list[j] = hits[e[j]]
    OBVIOUS
  <2>1. j <= l /\ j \in 1 .. l
    BY <1>3, <1>9
  <2> QED BY <1>8, <2>1
<1> HIDE DEF q, l, D, h, kept, P, fit
<1>16. row_list \in [1 .. k -> Rows \cup {NoLabel}]
  <2>1. \A j \in 1 .. k : row_list[j] \in Rows \cup {NoLabel}
    <3> TAKE j \in 1 .. k
    <3> HIDE DEF row_list
    <3>1. row_list[j] # NoLabel => row_list[j] \in Rows
      BY <1>11, <1>14, <1>15
    <3> QED BY <3>1
  <2> QED BY <1>8, <2>1
<1> HIDE DEF row_list
<1>17. \A a, b \in 1 .. k : a < b /\ b <= q => Near(i, row_list[a]) < Near(i, row_list[b])
  <2> SUFFICES ASSUME NEW a \in 1 .. k, NEW b \in 1 .. k, a < b, b <= q
               PROVE  Near(i, row_list[a]) < Near(i, row_list[b])
    OBVIOUS
  <2>1. a <= q
    BY <1>3, <1>9
  <2> QED BY <1>12, <1>15, <2>1
<1>18. InOrder(i, row_list, k, q) /\ q \in Nat
  BY <1>9, <1>3, <1>11, <1>14, <1>15, <1>16, <1>17 DEF InOrder
<1>19. \A j \in 1 .. k : j <= q => row_list[j] \in fit
  BY <1>11, <1>15
<1>20. /\ Cardinality(fit) \in Nat /\ InOrder(i, row_list, k, Cardinality(fit))
       /\ \A j \in 1 .. k : j <= Cardinality(fit) => row_list[j] \in fit
  BY <1>13, <1>18, <1>19
<1> QED BY <1>20 DEF row_list, fit

-----------------------------------------------------------------------------
(* What a wrapper answers                                                   *)

\* Rows that fit the filter, up to an entry point, near ones first, then
\* padding.
Answers(i, list) ==
  \E m \in Nat : /\ InOrder(i, list, k, m)
                 /\ \A j \in 1 .. k : j <= m => Fits(i, list[j])

LEMMA QueryAnswers ==
  ASSUME batch \in Batches, NEW i \in Queries, ~Raises(i), NEW outcome \in single_query_fn(i)
  PROVE  Answers(i, outcome)
<1>1. /\ {row \in Rows : valid(batch.query_type, row, Flt(i))} = {row \in Rows : Described(row, Flt(i))}
      /\ ~NoTags(i) => get_valid_ids(batch.query_type, Flt(i)) = {row \in Rows : Described(row, Flt(i))}
  BY FiltersSelectTheSame DEF FiltersAgree
<1>2. k \in Nat /\ initial_k \in Nat
  BY PoolAssumption
<1>3. CASE algo = "postfilter"
  <2>1. PICK hits \in Search(i, Rows, initial_k) :
               outcome = Postfiltered(batch.query_type, Flt(i), hits, k)
    BY <1>3 DEF single_query_fn
  <2>2. PICK m \in 0 .. initial_k : InOrder(i, hits, initial_k, m)
    BY <1>2, <2>1, HitsInOrder
  <2> DEFINE fit == {row \in ToSet(hits) \ {NoLabel} : valid(batch.query_type, row, Flt(i))}
  <2>3. /\ Cardinality(fit) \in Nat /\ InOrder(i, outcome, k, Cardinality(fit))
        /\ \A j \in 1 .. k : j <= Cardinality(fit) => outcome[j] \in fit
    BY <1>2, <2>1, <2>2, PostfilteredInOrder
  <2>4. \A row \in fit : Fits(i, row)
    <3>1. ToSet(hits) \subseteq Rows \cup {NoLabel}
      BY <2>2 DEF InOrder, ToSet
    <3> QED BY <1>1, <3>1 DEF Fits
  <2> HIDE DEF fit
  <2> QED BY <2>3, <2>4 DEF Answers
<1>4. CASE algo # "postfilter"
  <2> DEFINE rows == IF NoTags(i) THEN Rows
                     ELSE Admitted(get_valid_ids(batch.query_type, Flt(i)))
  <2>1. outcome \in Search(i, rows, k)
    BY <1>4 DEF single_query_fn
  <2>2. \A row \in rows : row \in Rows /\ Fits(i, row)
    <3>1. CASE NoTags(i)
      <4>1. rows = Rows /\ batch.query_type = "sparse" /\ Flt(i) = {}
        BY <3>1 DEF NoTags
      <4>2. \A row : Described(row, Flt(i))
        BY <4>1 DEF Described
      <4> QED BY <4>1, <4>2 DEF Fits
    <3>2. CASE ~NoTags(i)
      <4> DEFINE fit == {row \in Rows : Described(row, Flt(i))}
      <4>1. rows = {row \in Rows : row \in fit \/ (row = entry /\ fit # {})}
        BY <1>1, <3>2 DEF Admitted
      <4>2. \A row \in rows : row \in Rows /\ (row \in fit \/ (row = entry /\ fit # {}))
        BY <4>1
      <4> HIDE DEF rows
      <4> QED BY <4>2 DEF Fits
    <3> QED BY <3>1, <3>2
  <2> HIDE DEF rows
  <2>3. PICK m \in 0 .. k : InOrder(i, outcome, k, m)
                            /\ \A j \in 1 .. k : j <= m => outcome[j] \in rows
    BY <1>2, <2>1, <2>2, HitsInOrder
  <2> QED BY <1>2, <2>2, <2>3 DEF Answers
<1> QED BY <1>3, <1>4

\* A list of labels is neither what is pending nor an exception.
LEMMA LabelsAreNoFailure ==
  ASSUME batch \in Batches, NEW i \in Queries, NEW outcome \in single_query_fn(i)
  PROVE  /\ outcome # Pending /\ (outcome = Failed <=> Raises(i))
         /\ ~Raises(i) => outcome \in Labels
<1>1. k \in Nat /\ k >= 1 /\ DOMAIN Failed = 1 .. k + 1 /\ DOMAIN Pending = {}
  BY PoolAssumption DEF Failed, Pending
<1>2. k + 1 \in DOMAIN Failed /\ 1 \in DOMAIN Failed /\ Failed # Pending
  BY <1>1
<1>3. CASE Raises(i)
  BY <1>2, <1>3 DEF single_query_fn
<1>4. CASE ~Raises(i)
  <2>1. outcome \in Labels /\ DOMAIN outcome = 1 .. k
    BY <1>4, QueryAnswers DEF Answers, InOrder, Labels
  <2>2. k + 1 \notin 1 .. k /\ 1 \in 1 .. k
    BY <1>1
  <2> QED BY <1>1, <1>2, <1>4, <2>1, <2>2
<1> QED BY <1>3, <1>4

-----------------------------------------------------------------------------
(* The inductive invariant                                                  *)

Outcomes == UNION {single_query_fn(i) : i \in Queries}
InPools  == ToSet(queue) \cup {running[w] : w \in Workers}

Types ==
  /\ batch \in Batches /\ entry \in Rows \cup {NoLabel}
  /\ pc \in {"start", "warm", "timed", "raising", "done", "raised"}
  /\ unsent \in Seq(Queries) /\ queue \in Seq(Tasks)
  /\ running \in [Workers -> Tasks \cup {Idle}]
  /\ futures \in [Queries -> Outcomes \cup {Pending}]
  /\ results \in Seq(Outcomes)

\* The tasks in the pools belong to the part of query() that main is in.
TasksOfPhase ==
  /\ pc = "start" => queue = <<>> /\ \A w \in Workers : running[w] = Idle
  /\ pc = "warm" => \A task \in InPools : task.phase # "timed"
  /\ pc \in {"timed", "raising"} => \A task \in InPools : task.phase # "warm"
  /\ Returned => queue = <<>> /\ \A w \in Workers : running[w] = Idle

\* A future holds an exception if its query raises; main has taken the results
\* of the queries before the first of these.
ExceptionsKept ==
  /\ \A i \in Queries : futures[i] # Pending => (futures[i] = Failed <=> Raises(i))
  /\ Len(results) <= Len(Ranking)
  /\ \A i \in 1 .. Len(results) : ~Raises(i)
  /\ pc \in {"raising", "raised"} =>
       Len(results) + 1 \in Queries /\ Raises(Len(results) + 1)
  /\ pc = "done" => Len(results) = Len(Ranking)

\* A timed query waits in one place, without an outcome.  Thus no outcome is
\* ever written over another.
Unsent  == ToSet(unsent)
Queued  == {task.query : task \in ToSet(queue)}
Running == {running[w].query : w \in {v \in Workers : running[v] # Idle}}
AskedOnce ==
  /\ pc \in {"start", "warm"} => results = <<>> /\ \A i \in Queries : futures[i] = Pending
  /\ pc \notin {"start", "warm"} =>
       /\ \A a, b \in DOMAIN unsent : unsent[a] = unsent[b] => a = b
       /\ \A a, b \in DOMAIN queue : queue[a].query = queue[b].query => a = b
       /\ \A u, w \in Workers :
            running[u] # Idle /\ running[w] # Idle /\ running[u].query = running[w].query => u = w
       /\ Unsent \cap Queued = {} /\ Unsent \cap Running = {} /\ Queued \cap Running = {}
       /\ \A i \in Unsent \cup Queued \cup Running : futures[i] = Pending

\* The outcome of a query is one of its own, and main has taken those of the
\* first queries in their order.
OwnOutcomes ==
  /\ \A i \in Queries : futures[i] # Pending => futures[i] \in single_query_fn(i)
  /\ \A i \in 1 .. Len(results) : futures[i] # Pending /\ results[i] = futures[i]

RowsWritten ==
  I = IF pc = "done" THEN [i \in Queries |-> results[i]]
      ELSE [i \in Queries |-> [j \in 1 .. k |-> NoLabel]]

IInv == Types /\ TasksOfPhase /\ ExceptionsKept /\ AskedOnce /\ OwnOutcomes /\ RowsWritten

LEMMA QueriesType == Queries = 1 .. Len(Ranking) /\ Len(Ranking) \in Nat
BY PoolAssumption DEF Queries

LEMMA InitInv == Init => IInv
<1> SUFFICES ASSUME Init PROVE IInv
  OBVIOUS
<1>1. Types
  BY DEF Init, Types
<1>2. TasksOfPhase
  BY DEF Init, TasksOfPhase, Returned
<1>3. ExceptionsKept
  BY QueriesType DEF Init, ExceptionsKept
<1>4. AskedOnce /\ OwnOutcomes /\ RowsWritten
  BY DEF Init, AskedOnce, OwnOutcomes, RowsWritten
<1> QED BY <1>1, <1>2, <1>3, <1>4 DEF IInv

\* What is asked of a query is fixed while query() runs.
LEMMA SameQueries ==
  ASSUME UNCHANGED <<batch, algo, entry>>
  PROVE  Outcomes' = Outcomes /\ \A i : /\ Raises(i)' <=> Raises(i)
                                        /\ single_query_fn(i)' = single_query_fn(i)
<1>1. \A i : Flt(i)' = Flt(i) /\ (NoTags(i)' <=> NoTags(i))
  BY DEF NoTags, Flt
<1>2. \A i : Raises(i)' <=> Raises(i)
  BY <1>1 DEF Raises
<1>3. \A i : single_query_fn(i)' = single_query_fn(i)
  <2>1. \A rows : Admitted(rows)' = Admitted(rows)
    BY DEF Admitted
  <2> QED BY <1>1, <1>2, <2>1 DEF single_query_fn
<1> QED BY <1>2, <1>3 DEF Outcomes

LEMMA StartWarmUpInv == ASSUME IInv, StartWarmUp PROVE IInv'
<1> USE DEF IInv
<1>1. /\ pc = "start" /\ pc' = "warm"
      /\ UNCHANGED <<batch, algo, entry, queue, running, futures, results, I>>
  BY DEF StartWarmUp
<1>2. unsent' \in Seq(Queries)
  <2>1. num_warm_up \in Nat
    BY QueriesType, PoolAssumption DEF num_warm_up
  <2>2. PICK s \in kSubset(num_warm_up, Queries) : unsent' \in SetToSeqs(s)
    BY DEF StartWarmUp
  <2>3. Cardinality(s) = num_warm_up /\ s \subseteq Queries
    BY <2>2 DEF kSubset
  <2> QED BY <2>1, <2>2, <2>3 DEF SetToSeqs
<1>3. Types'
  BY <1>1, <1>2, SameQueries DEF Types
<1>4. TasksOfPhase'
  BY <1>1 DEF TasksOfPhase, InPools, ToSet, Returned, Idle
<1>5. ExceptionsKept' /\ OwnOutcomes'
  BY <1>1, SameQueries DEF ExceptionsKept, OwnOutcomes
<1>6. AskedOnce' /\ RowsWritten'
  BY <1>1 DEF AskedOnce, RowsWritten
<1> QED BY <1>3, <1>4, <1>5, <1>6

LEMMA SubmitInv == ASSUME IInv, Submit PROVE IInv'
<1> USE DEF IInv
<1> DEFINE task == [phase |-> pc, query |-> Head(unsent)]
<1>1. /\ pc \in {"warm", "timed"} /\ unsent # <<>>
      /\ queue' = Append(queue, task) /\ unsent' = Tail(unsent)
      /\ UNCHANGED <<batch, algo, entry, pc, running, futures, results, I>>
  BY DEF Submit
<1>2. Head(unsent) \in Queries /\ Tail(unsent) \in Seq(Queries)
  BY <1>1 DEF Types
<1>3. task \in Tasks /\ task.phase = pc /\ task.query = Head(unsent)
  BY <1>1, <1>2 DEF Tasks
<1>4. /\ ToSet(queue') \subseteq ToSet(queue) \cup {task}
      /\ Len(queue') = Len(queue) + 1 /\ Len(queue) \in Nat
      /\ \A j \in 1 .. Len(queue) : queue'[j] = queue[j]
      /\ queue'[Len(queue) + 1] = task
  BY <1>1, <1>3 DEF Types, ToSet
<1>5. Types'
  BY <1>1, <1>2, <1>3, SameQueries DEF Types
<1>6. InPools' \subseteq InPools \cup {task}
  BY <1>1, <1>4 DEF InPools
<1>7. TasksOfPhase'
  BY <1>1, <1>3, <1>6 DEF TasksOfPhase, Returned
<1>8. ExceptionsKept' /\ OwnOutcomes' /\ RowsWritten'
  BY <1>1, SameQueries DEF ExceptionsKept, OwnOutcomes, RowsWritten
<1>9. AskedOnce'
  <2>1. CASE pc = "warm"
    BY <1>1, <2>1 DEF AskedOnce
  <2>2. CASE pc = "timed"
    <3>1. /\ \A a, b \in DOMAIN unsent : unsent[a] = unsent[b] => a = b
          /\ \A a, b \in DOMAIN queue : queue[a].query = queue[b].query => a = b
          /\ \A u, w \in Workers :
               running[u] # Idle /\ running[w] # Idle /\ running[u].query = running[w].query => u = w
          /\ Unsent \cap Queued = {} /\ Unsent \cap Running = {} /\ Queued \cap Running = {}
          /\ \A i \in Unsent \cup Queued \cup Running : futures[i] = Pending
      BY <2>2 DEF AskedOnce
    <3>2. /\ Len(unsent) \in Nat /\ DOMAIN unsent = 1 .. Len(unsent) /\ Len(unsent) >= 1
          /\ DOMAIN unsent' = 1 .. Len(unsent) - 1
          /\ \A j \in 1 .. Len(unsent) - 1 : unsent'[j] = unsent[j + 1]
          /\ Head(unsent) = unsent[1]
      BY <1>1 DEF Types
    <3>3. \A a, b \in DOMAIN unsent' : unsent'[a] = unsent'[b] => a = b
      <4> TAKE a \in DOMAIN unsent', b \in DOMAIN unsent'
      <4>1. a + 1 \in DOMAIN unsent /\ b + 1 \in DOMAIN unsent
        BY <3>2
      <4>2. unsent'[a] = unsent[a + 1] /\ unsent'[b] = unsent[b + 1]
        BY <3>2
      <4>3. unsent'[a] = unsent'[b] => a + 1 = b + 1
        BY <3>1, <4>1, <4>2
      <4> QED BY <3>2, <4>3
    <3>4. Unsent' \subseteq Unsent /\ Head(unsent) \in Unsent /\ Head(unsent) \notin Unsent'
      <4>1. ASSUME NEW a \in DOMAIN unsent' PROVE unsent'[a] \in Unsent /\ unsent'[a] # Head(unsent)
        <5>1. a + 1 \in DOMAIN unsent /\ 1 \in DOMAIN unsent /\ a + 1 # 1
          BY <3>2
        <5>2. unsent[a + 1] # unsent[1]
          BY <3>1, <5>1
        <5> QED BY <3>2, <5>1, <5>2 DEF Unsent, ToSet
      <4>2. Head(unsent) \in Unsent
        BY <3>2 DEF Unsent, ToSet
      <4> QED BY <4>1, <4>2 DEF Unsent, ToSet
    <3>5. Queued' \subseteq Queued \cup {Head(unsent)}
      BY <1>3, <1>4 DEF Queued
    <3>6. \A a, b \in DOMAIN queue' : queue'[a].query = queue'[b].query => a = b
      <4>1. \A a \in DOMAIN queue : queue[a].query \in Queued
        BY DEF Queued, ToSet
      <4>2. \A a \in DOMAIN queue : queue[a].query # Head(unsent)
        BY <3>1, <3>4, <4>1
      <4>3. DOMAIN queue = 1 .. Len(queue) /\ DOMAIN queue' = 1 .. Len(queue) + 1
        BY <1>4, <1>5 DEF Types
      <4> TAKE a \in DOMAIN queue', b \in DOMAIN queue'
      <4> HIDE DEF task
      <4>4. CASE a \in 1 .. Len(queue) /\ b \in 1 .. Len(queue)
        BY <1>4, <3>1, <4>3, <4>4
      <4>5. CASE a \in 1 .. Len(queue) /\ b = Len(queue) + 1
        BY <1>3, <1>4, <4>2, <4>3, <4>5
      <4>6. CASE a = Len(queue) + 1 /\ b \in 1 .. Len(queue)
        BY <1>3, <1>4, <4>2, <4>3, <4>6
      <4>7. a \in (1 .. Len(queue)) \cup {Len(queue) + 1} /\ b \in (1 .. Len(queue)) \cup {Len(queue) + 1}
        BY <1>4, <4>3
      <4> QED BY <4>4, <4>5, <4>6, <4>7
    <3>7. Running' = Running
      BY <1>1 DEF Running
    <3> HIDE DEF task
    <3>8. /\ Unsent' \cap Queued' = {} /\ Unsent' \cap Running' = {} /\ Queued' \cap Running' = {}
          /\ \A i \in Unsent' \cup Queued' \cup Running' : futures'[i] = Pending
      BY <1>1, <3>1, <3>4, <3>5, <3>7
    <3> QED BY <1>1, <2>2, <3>1, <3>3, <3>6, <3>8 DEF AskedOnce
  <2> QED BY <1>1, <2>1, <2>2
<1> QED BY <1>5, <1>7, <1>8, <1>9

\* The timed queries are submitted to a pool of their own.
LEMMA EndWarmUpInv == ASSUME IInv, EndWarmUp PROVE IInv'
<1> USE DEF IInv
<1>1. /\ pc = "warm" /\ pc' = "timed" /\ Shutdown /\ unsent' = [i \in Queries |-> i]
      /\ UNCHANGED <<batch, algo, entry, queue, running, futures, results, I>>
  BY DEF EndWarmUp
<1>2. unsent' \in Seq(Queries)
  BY QueriesType, <1>1
<1>3. Types'
  BY <1>1, <1>2, SameQueries DEF Types
<1>4. TasksOfPhase'
  BY <1>1 DEF TasksOfPhase, InPools, ToSet, Returned, Idle, Shutdown
<1>5. ExceptionsKept' /\ OwnOutcomes' /\ RowsWritten'
  BY <1>1, SameQueries DEF ExceptionsKept, OwnOutcomes, RowsWritten
<1>6. AskedOnce'
  <2>1. Queued' = {} /\ Running' = {} /\ DOMAIN queue' = {}
    BY <1>1 DEF Shutdown, Queued, Running, ToSet
  <2>2. Unsent' = Queries /\ DOMAIN unsent' = Queries /\ \A i \in Queries : unsent'[i] = i
    BY <1>1 DEF Unsent, ToSet
  <2>3. \A i \in Queries : futures'[i] = Pending
    BY <1>1 DEF AskedOnce
  <2>4. \A w \in Workers : running'[w] = Idle
    BY <1>1 DEF Shutdown
  <2> QED BY <1>1, <2>1, <2>2, <2>3, <2>4 DEF AskedOnce
<1> QED BY <1>3, <1>4, <1>5, <1>6

LEMMA CollectInv == ASSUME IInv, Collect PROVE IInv'
<1> USE DEF IInv
<1>1. /\ pc = "timed" /\ Len(results) < Len(Ranking)
      /\ UNCHANGED <<batch, algo, entry, unsent, queue, running, futures, I>>
  BY DEF Collect
<1> DEFINE i == Len(results) + 1
<1>2. i \in Queries /\ futures[i] # Pending /\ Len(results) \in Nat /\ futures[i] \in Outcomes
  BY QueriesType, <1>1 DEF Collect, NextDone, Types
<1>3. \/ futures[i] = Failed /\ pc' = "raising" /\ UNCHANGED results
      \/ futures[i] # Failed /\ results' = Append(results, futures[i]) /\ UNCHANGED pc
  BY <1>1 DEF Collect, NextDone
<1>4. pc' \in {"timed", "raising"}
  BY <1>1, <1>3
<1>5. RowsWritten'
  BY <1>1, <1>4 DEF RowsWritten
<1>6. AskedOnce'
  BY <1>1, <1>4 DEF AskedOnce, Unsent, Queued, Running
<1>7. CASE futures[i] = Failed
  <2>1. Types' /\ TasksOfPhase' /\ OwnOutcomes'
    BY <1>1, <1>3, <1>7, SameQueries DEF Types, TasksOfPhase, InPools, Returned, OwnOutcomes
  <2>2. ExceptionsKept'
    BY <1>1, <1>2, <1>3, <1>7, SameQueries DEF ExceptionsKept
  <2> QED BY <1>5, <1>6, <2>1, <2>2
<1>8. CASE futures[i] # Failed
  <2>1. /\ results' \in Seq(Outcomes) /\ Len(results') = i
        /\ \A j \in 1 .. Len(results) : results'[j] = results[j]
        /\ results'[i] = futures[i]
    <3>1. results \in Seq(Outcomes) /\ results' = Append(results, futures[i])
      BY <1>3, <1>8 DEF Types
    <3>2. futures[i] \in Outcomes
      BY <1>2
    <3> DEFINE f == futures[i]
    <3> HIDE DEF f
    <3>3. results' = Append(results, f) /\ f \in Outcomes
      BY <3>1, <3>2 DEF f
    <3>4. /\ results' \in Seq(Outcomes) /\ Len(results') = Len(results) + 1
          /\ \A j \in 1 .. Len(results) : results'[j] = results[j]
          /\ results'[Len(results) + 1] = f
      BY <3>1, <3>3
    <3> QED BY <3>4 DEF f
  <2>2. Types' /\ TasksOfPhase'
    BY <1>1, <1>3, <1>8, <2>1, SameQueries DEF Types, TasksOfPhase, InPools, Returned
  <2>3. \A j \in 1 .. Len(results') : ~Raises(j)
    BY <1>2, <1>8, <2>1 DEF ExceptionsKept
  <2>4. ExceptionsKept'
    BY QueriesType, <1>1, <1>2, <1>3, <1>8, <2>1, <2>3, SameQueries DEF ExceptionsKept
  <2>5. OwnOutcomes'
    <3>1. \A j \in 1 .. Len(results') : futures'[j] # Pending /\ results'[j] = futures'[j]
      <4> TAKE j \in 1 .. Len(results')
      <4>1. CASE j = i
        BY <1>1, <1>2, <2>1, <4>1
      <4>2. CASE j # i
        <5>1. j \in 1 .. Len(results)
          BY <1>2, <2>1, <4>2
        <5> QED BY <1>1, <2>1, <5>1 DEF OwnOutcomes
      <4> QED BY <4>1, <4>2
    <3> QED BY <1>1, <3>1, SameQueries DEF OwnOutcomes
  <2> QED BY <1>5, <1>6, <2>2, <2>4, <2>5
<1> QED BY <1>7, <1>8

LEMMA EndInv == ASSUME IInv, WriteRows \/ Raise PROVE IInv'
<1> USE DEF IInv
<1>1. /\ Shutdown /\ UNCHANGED <<batch, algo, entry, unsent, queue, running, futures, results>>
      /\ \/ /\ pc = "timed" /\ pc' = "done" /\ Len(results) = Len(Ranking)
            /\ I' = [i \in Queries |-> results[i]]
         \/ pc' = "raised" /\ pc = "raising" /\ I' = I
  BY DEF WriteRows, Raise
<1>2. Types' /\ TasksOfPhase'
  BY <1>1, SameQueries DEF Types, TasksOfPhase, Shutdown, Returned
<1>3. ExceptionsKept' /\ OwnOutcomes'
  BY <1>1, SameQueries DEF ExceptionsKept, OwnOutcomes
<1>4. AskedOnce'
  BY <1>1 DEF AskedOnce, Unsent, Queued, Running
<1>5. RowsWritten'
  BY <1>1 DEF RowsWritten
<1> QED BY <1>2, <1>3, <1>4, <1>5

LEMMA TakeInv == ASSUME IInv, NEW w \in Workers, Take(w) PROVE IInv'
<1> USE DEF IInv
<1>1. /\ queue # <<>> /\ running[w] = Idle
      /\ running' = [running EXCEPT ![w] = Head(queue)] /\ queue' = Tail(queue)
      /\ UNCHANGED <<batch, algo, entry, pc, unsent, futures, results, I>>
  BY DEF Take
<1>2. /\ Head(queue) \in Tasks /\ Tail(queue) \in Seq(Tasks)
      /\ Head(queue) \in ToSet(queue) /\ ToSet(queue') \subseteq ToSet(queue)
  BY <1>1 DEF Types, ToSet
<1>3. Types'
  BY <1>1, <1>2, SameQueries DEF Types
<1>4. InPools' \subseteq InPools
  BY <1>1, <1>2 DEF InPools, Types
<1>5. pc \notin {"start", "done", "raised"}
  BY <1>1 DEF TasksOfPhase, Returned
<1>6. TasksOfPhase'
  BY <1>1, <1>4, <1>5 DEF TasksOfPhase, Returned
<1>7. ExceptionsKept' /\ OwnOutcomes' /\ RowsWritten'
  BY <1>1, SameQueries DEF ExceptionsKept, OwnOutcomes, RowsWritten
<1>8. AskedOnce'
  <2>1. CASE pc = "warm"
    BY <1>1, <2>1 DEF AskedOnce
  <2>2. CASE pc # "warm"
    <3>1. /\ \A a, b \in DOMAIN unsent : unsent[a] = unsent[b] => a = b
          /\ \A a, b \in DOMAIN queue : queue[a].query = queue[b].query => a = b
          /\ \A u, v \in Workers :
               running[u] # Idle /\ running[v] # Idle /\ running[u].query = running[v].query => u = v
          /\ Unsent \cap Queued = {} /\ Unsent \cap Running = {} /\ Queued \cap Running = {}
          /\ \A i \in Unsent \cup Queued \cup Running : futures[i] = Pending
      BY <1>5, <2>2 DEF AskedOnce
    <3> DEFINE q == Head(queue).query
    <3>2. /\ Len(queue) \in Nat /\ DOMAIN queue = 1 .. Len(queue) /\ Len(queue) >= 1
          /\ DOMAIN queue' = 1 .. Len(queue) - 1
          /\ \A j \in 1 .. Len(queue) - 1 : queue'[j] = queue[j + 1]
          /\ q = queue[1].query
      BY <1>1 DEF Types
    <3>3. \A a, b \in DOMAIN queue' : queue'[a].query = queue'[b].query => a = b
      <4> TAKE a \in DOMAIN queue', b \in DOMAIN queue'
      <4>1. a + 1 \in DOMAIN queue /\ b + 1 \in DOMAIN queue
        BY <3>2
      <4>2. queue'[a] = queue[a + 1] /\ queue'[b] = queue[b + 1]
        BY <3>2
      <4>3. queue'[a].query = queue'[b].query => a + 1 = b + 1
        BY <3>1, <4>1, <4>2
      <4> QED BY <3>2, <4>3
    <3>4. Queued' \subseteq Queued /\ q \in Queued /\ q \notin Queued'
      <4>1. ASSUME NEW a \in DOMAIN queue' PROVE queue'[a].query \in Queued /\ queue'[a].query # q
        <5>1. a + 1 \in DOMAIN queue /\ 1 \in DOMAIN queue /\ a + 1 # 1
          BY <3>2
        <5>2. queue[a + 1].query # queue[1].query
          BY <3>1, <5>1
        <5> QED BY <3>2, <5>1, <5>2 DEF Queued, ToSet
      <4>2. q \in Queued
        BY <1>2 DEF Queued
      <4> QED BY <4>1, <4>2 DEF Queued, ToSet
    <3>5. \A u \in Workers : running'[u] = IF u = w THEN Head(queue) ELSE running[u]
      BY <1>1 DEF Types
    <3>6. \A u \in Workers : running[u] # Idle => running[u].query \in Running
      BY DEF Running
    <3>7. Running' \subseteq Running \cup {q}
      BY <3>5, <3>6 DEF Running
    <3>8. \A u, v \in Workers :
            running'[u] # Idle /\ running'[v] # Idle /\ running'[u].query = running'[v].query => u = v
      <4> HIDE DEF q
      <4>1. q \notin Running
        BY <3>1, <3>4
      <4> QED BY <3>1, <3>5, <3>6, <4>1 DEF q
    <3>9. Unsent' = Unsent
      BY <1>1 DEF Unsent
    <3> HIDE DEF q
    <3>10. /\ Unsent' \cap Queued' = {} /\ Unsent' \cap Running' = {} /\ Queued' \cap Running' = {}
           /\ \A i \in Unsent' \cup Queued' \cup Running' : futures'[i] = Pending
      BY <1>1, <3>1, <3>4, <3>7, <3>9
    <3> QED BY <1>1, <1>5, <2>2, <3>1, <3>3, <3>8, <3>10 DEF AskedOnce
  <2> QED BY <2>1, <2>2
<1> QED BY <1>3, <1>6, <1>7, <1>8

LEMMA timed_single_queryInv ==
  ASSUME IInv, NEW w \in Workers, timed_single_query(w)
  PROVE  IInv'
<1> USE DEF IInv
<1> DEFINE i == running[w].query
<1>1. /\ running[w] # Idle /\ running' = [running EXCEPT ![w] = Idle]
      /\ UNCHANGED <<batch, algo, entry, pc, unsent, queue, results, I>>
  BY DEF timed_single_query
<1>2. i \in Queries /\ running[w] \in Tasks /\ i \in Running
  BY <1>1 DEF Types, Tasks, Running
<1>3. PICK outcome \in single_query_fn(i) :
             futures' = IF running[w].phase = "timed" THEN [futures EXCEPT ![i] = outcome]
                        ELSE futures
  BY DEF timed_single_query, SetsOutcome
<1>4. outcome \in Outcomes /\ outcome # Pending /\ (outcome = Failed <=> Raises(i))
  BY <1>2, <1>3, LabelsAreNoFailure DEF Outcomes, Types
<1>5. pc \notin {"start", "done", "raised"}
  BY <1>1 DEF TasksOfPhase, Returned
<1>6. \A j \in Queries : futures'[j] = IF running[w].phase = "timed" /\ j = i THEN outcome ELSE futures[j]
  BY <1>2, <1>3 DEF Types
<1>7. Types'
  BY <1>1, <1>2, <1>3, <1>4, SameQueries DEF Types
<1>8. TasksOfPhase'
  <2>1. InPools' \subseteq InPools \cup {Idle}
    BY <1>1 DEF InPools, Types
  <2> QED BY <1>1, <2>1 DEF TasksOfPhase, Returned, Idle, Types
<1>9. \A j \in Queries : futures'[j] # Pending => (futures'[j] = Failed <=> Raises(j))
  BY <1>4, <1>6 DEF ExceptionsKept
<1>10. ExceptionsKept'
  BY <1>1, <1>9, SameQueries DEF ExceptionsKept
<1>11. RowsWritten'
  BY <1>1 DEF RowsWritten
\* A result main has taken is not written again: its query runs nowhere.
<1>12. running[w].phase = "timed" => pc # "warm" /\ futures[i] = Pending
  <2>1. pc = "warm" => running[w].phase # "timed"
    BY DEF TasksOfPhase, InPools
  <2> QED BY <1>2, <1>5, <2>1 DEF AskedOnce
<1>13. OwnOutcomes'
  <2>1. \A j \in Queries : futures'[j] # Pending => futures'[j] \in single_query_fn(j)
    BY <1>3, <1>6 DEF OwnOutcomes
  <2>2. ASSUME NEW j \in 1 .. Len(results) PROVE futures'[j] # Pending /\ results[j] = futures'[j]
    <3>1. futures[j] # Pending /\ results[j] = futures[j] /\ j \in Queries
      BY QueriesType DEF OwnOutcomes, ExceptionsKept, Types
    <3> QED BY <1>6, <1>12, <3>1
  <2> QED BY <1>1, <2>1, <2>2, SameQueries DEF OwnOutcomes
<1>14. AskedOnce'
  <2>1. CASE pc = "warm"
    <3>1. \A j \in Queries : futures'[j] = futures[j]
      BY <1>6, <1>12, <2>1
    <3> QED BY <1>1, <2>1, <3>1 DEF AskedOnce
  <2>2. CASE pc # "warm"
    <3>1. /\ \A a, b \in DOMAIN unsent : unsent[a] = unsent[b] => a = b
          /\ \A a, b \in DOMAIN queue : queue[a].query = queue[b].query => a = b
          /\ \A u, v \in Workers :
               running[u] # Idle /\ running[v] # Idle /\ running[u].query = running[v].query => u = v
          /\ Unsent \cap Queued = {} /\ Unsent \cap Running = {} /\ Queued \cap Running = {}
          /\ \A j \in Unsent \cup Queued \cup Running : futures[j] = Pending
      BY <1>5, <2>2 DEF AskedOnce
    <3>2. \A u \in Workers : running'[u] = IF u = w THEN Idle ELSE running[u]
      BY <1>1 DEF Types
    <3>3. Running' \subseteq Running /\ i \notin Running'
      <4>1. ASSUME NEW u \in Workers, running'[u] # Idle
            PROVE  running'[u].query \in Running /\ running'[u].query # i
        <5>1. u # w /\ running'[u] = running[u]
          BY <3>2, <4>1
        <5> QED BY <1>1, <3>1, <4>1, <5>1 DEF Running
      <4> HIDE DEF i
      <4> QED BY <4>1 DEF Running
    <3>4. Unsent' = Unsent /\ Queued' = Queued
      BY <1>1 DEF Unsent, Queued
    <3>5. Unsent \cup Queued \cup Running \subseteq Queries
      <4>1. Unsent \subseteq Queries
        BY DEF Types, Unsent, ToSet
      <4>2. \A task \in ToSet(queue) : task.query \in Queries
        <5>1. queue \in Seq(Tasks) /\ \A task \in Tasks : task.query \in Queries
          BY DEF Types, Tasks
        <5>2. \A j \in DOMAIN queue : queue[j] \in Tasks
          BY <5>1
        <5> QED BY <5>1, <5>2 DEF ToSet
      <4>3. \A u \in Workers : running[u] # Idle => running[u].query \in Queries
        BY DEF Types, Tasks
      <4> QED BY <4>1, <4>2, <4>3 DEF Queued, Running
    <3> HIDE DEF i
    <3>6. \A j \in Unsent' \cup Queued' \cup Running' : futures'[j] = Pending
      <4> TAKE j \in Unsent' \cup Queued' \cup Running'
      <4>1. j \in Unsent \cup Queued \cup Running /\ j # i
        BY <1>2, <3>1, <3>3, <3>4
      <4> QED BY <1>6, <3>1, <3>5, <4>1
    <3>7. /\ Unsent' \cap Queued' = {} /\ Unsent' \cap Running' = {} /\ Queued' \cap Running' = {}
      BY <3>1, <3>3, <3>4
    <3>8. \A u, v \in Workers :
            running'[u] # Idle /\ running'[v] # Idle /\ running'[u].query = running'[v].query => u = v
      BY <3>1, <3>2
    <3> QED BY <1>1, <1>5, <2>2, <3>1, <3>6, <3>7, <3>8 DEF AskedOnce
  <2> QED BY <2>1, <2>2
<1> QED BY <1>7, <1>8, <1>10, <1>11, <1>13, <1>14

LEMMA NextInv == ASSUME IInv, [Next]_vars PROVE IInv'
<1>1. CASE UNCHANGED vars
  <2>1. /\ UNCHANGED <<batch, algo, entry>>
        /\ UNCHANGED <<pc, unsent, queue, running, futures, results, I>>
    BY <1>1 DEF vars
  <2>2. Types' /\ TasksOfPhase'
    BY <2>1, SameQueries DEF IInv, Types, TasksOfPhase, InPools, Returned
  <2>3. ExceptionsKept' /\ OwnOutcomes' /\ RowsWritten'
    BY <2>1, SameQueries DEF IInv, ExceptionsKept, OwnOutcomes, RowsWritten
  <2>4. AskedOnce'
    BY <2>1 DEF IInv, AskedOnce, Unsent, Queued, Running
  <2> QED BY <2>2, <2>3, <2>4 DEF IInv
<1>2. CASE Next
  BY <1>2, StartWarmUpInv, SubmitInv, EndWarmUpInv, CollectInv, EndInv, TakeInv, timed_single_queryInv
     DEF Next, Main, Worker
<1> QED BY <1>1, <1>2

LEMMA Invariance == Spec => []IInv
BY InitInv, NextInv, PTL DEF Spec

-----------------------------------------------------------------------------
(* What follows                                                             *)

\* The state of query(), its results and rows have the types of the code.
THEOREM TypeCorrect == Spec => []TypeOK
<1>1. ASSUME IInv PROVE TypeOK
  <2>1. \A i \in Queries : futures[i] \in Labels \cup {Pending, Failed}
    BY <1>1, LabelsAreNoFailure DEF IInv, Types, OwnOutcomes
  <2>2. \A i \in 1 .. Len(results) : i \in Queries /\ results[i] \in Labels
    <3> TAKE i \in 1 .. Len(results)
    <3>1. i \in Queries
      BY <1>1, QueriesType DEF IInv, Types, ExceptionsKept
    <3>2. results[i] \in single_query_fn(i) /\ ~Raises(i)
      BY <1>1, <3>1 DEF IInv, OwnOutcomes, ExceptionsKept
    <3> QED BY <1>1, <3>1, <3>2, LabelsAreNoFailure DEF IInv, Types
  <2>3. ToSet(results) \subseteq Labels
    BY <1>1, <2>2 DEF IInv, Types, ToSet
  <2>4. I \in [Queries -> Labels]
    <3>1. CASE pc = "done"
      <4>1. \A i \in Queries : results[i] \in Labels
        BY <1>1, <2>2, <3>1, QueriesType DEF IInv, ExceptionsKept
      <4> QED BY <1>1, <3>1, <4>1 DEF IInv, RowsWritten
    <3>2. CASE pc # "done"
      <4>1. [j \in 1 .. k |-> NoLabel] \in Labels
        BY DEF Labels
      <4> QED BY <1>1, <3>2, <4>1 DEF IInv, RowsWritten
    <3> QED BY <3>1, <3>2
  <2>5. ToSet(unsent) \subseteq Queries /\ ToSet(queue) \subseteq Tasks
    BY <1>1 DEF IInv, Types, ToSet
  <2> QED BY <1>1, <2>1, <2>3, <2>4, <2>5 DEF IInv, Types, TypeOK
<1> QED BY <1>1, Invariance, PTL

\* However the tasks are scheduled, row i of what query() returns is what the
\* wrapper answered to query i: rows that fit its filter, up to the row of an
\* ACORN's entry point, near ones first, and no row after the padding.
THEOREM RowsAlwaysMatch == Spec => []RowsMatch
<1>1. ASSUME IInv, pc = "done", NEW i \in Queries
      PROVE  /\ \A j \in 1 .. k : I[i][j] # NoLabel => Fits(i, I[i][j])
             /\ \A j1, j2 \in 1 .. k :
                  j1 < j2 /\ I[i][j2] # NoLabel =>
                    I[i][j1] # NoLabel /\ Near(i, I[i][j1]) < Near(i, I[i][j2])
             /\ I[i] = futures[i]
  <2>1. i \in 1 .. Len(results)
    BY <1>1, QueriesType DEF IInv, ExceptionsKept
  <2>2. /\ I[i] = futures[i] /\ I[i] \in single_query_fn(i) /\ ~Raises(i)
    BY <1>1, <2>1 DEF IInv, RowsWritten, OwnOutcomes, ExceptionsKept
  <2>3. Answers(i, I[i])
    BY <1>1, <2>2, QueryAnswers DEF IInv, Types
  <2> DEFINE list == I[i]
  <2>4. PICK m \in Nat : /\ InOrder(i, list, k, m)
                         /\ \A j \in 1 .. k : j <= m => Fits(i, list[j])
    BY <2>3 DEF Answers
  <2> HIDE DEF list
  <2>5. \A j \in 1 .. k : list[j] # NoLabel <=> j <= m
    BY <2>4 DEF InOrder
  <2>6. ASSUME NEW j1 \in 1 .. k, NEW j2 \in 1 .. k, j1 < j2, list[j2] # NoLabel
        PROVE  list[j1] # NoLabel /\ Near(i, list[j1]) < Near(i, list[j2])
    <3>1. j2 <= m /\ j1 <= m
      <4>1. j2 <= m
        BY <2>5, <2>6
      <4>2. k \in Nat
        BY PoolAssumption
      <4> QED BY <2>6, <4>1, <4>2
    <3> QED BY <2>4, <2>5, <2>6, <3>1 DEF InOrder
  <2>7. \A j \in 1 .. k : list[j] # NoLabel => Fits(i, list[j])
    BY <2>4, <2>5
  <2> QED BY <2>2, <2>6, <2>7 DEF list
<1>2. IInv => RowsMatch
  BY <1>1 DEF RowsMatch
<1> QED BY <1>2, Invariance, PTL

\* For any rows and filters: the id lists of AttributeIndex (get_valid_ids_conj,
\* get_valid_ids_cnf, the CSC columns) and the tests of a post-filter select
\* the rows the filter describes.
THEOREM FiltersAlwaysAgree == Spec => []FiltersAgree
<1>1. IInv => FiltersAgree
  BY FiltersSelectTheSame DEF IInv, Types
<1> QED BY <1>1, Invariance, PTL

\* A post-filter lists as many rows as pass among the hits, up to k: a -1 among
\* them, which numpy takes for the last row, displaces none.
THEOREM PaddingNeverHarms == Spec => []PaddingHarmless
<1>1. ASSUME IInv, NEW i \in Queries, NEW hits \in Search(i, Rows, initial_k)
      PROVE  LET fit == {row \in ToSet(hits) \ {NoLabel} : Described(row, Flt(i))}
             IN Cardinality(ToSet(Postfiltered(batch.query_type, Flt(i), hits, k)) \ {NoLabel})
                  = IF Cardinality(fit) < k THEN Cardinality(fit) ELSE k
  <2> DEFINE fit == {row \in ToSet(hits) \ {NoLabel} : Described(row, Flt(i))}
             passing == {row \in ToSet(hits) \ {NoLabel} : valid(batch.query_type, row, Flt(i))}
             list == Postfiltered(batch.query_type, Flt(i), hits, k)
             n == Cardinality(passing)
             least == IF n < k THEN n ELSE k
             listed == ToSet(list) \ {NoLabel}
  <2>1. k \in Nat /\ initial_k \in Nat
    BY PoolAssumption
  <2>2. PICK m \in 0 .. initial_k : InOrder(i, hits, initial_k, m)
    BY <2>1, HitsInOrder
  <2>3. n \in Nat /\ InOrder(i, list, k, n)
    BY <2>1, <2>2, PostfilteredInOrder
  <2>4. passing = fit
    <3>1. ToSet(hits) \subseteq Rows \cup {NoLabel}
      BY <2>2 DEF InOrder, ToSet
    <3>2. batch \in Batches
      BY <1>1 DEF IInv, Types
    <3> QED BY <3>1, <3>2, FiltersSelectTheSame DEF FiltersAgree
  <2> HIDE DEF n, list, passing, fit
  <2>5. least \in Nat /\ \A j \in 1 .. k : j <= n <=> j \in 1 .. least
    BY <2>1, <2>3
  <2>6. /\ list \in [1 .. k -> Rows \cup {NoLabel}]
        /\ \A j \in 1 .. k : list[j] # NoLabel <=> j <= n
        /\ \A a, b \in 1 .. k : a < b /\ b <= n => Near(i, list[a]) < Near(i, list[b])
        /\ \A j \in 1 .. k : j <= n => Near(i, list[j]) \in Nat
    BY <2>3 DEF InOrder
  <2>7. 1 .. least \subseteq 1 .. k
    BY <2>1, <2>3
  <2> HIDE DEF least
  <2> DEFINE f == [j \in 1 .. least |-> list[j]]
  <2>8. f \in Bijection(1 .. least, listed)
    <3>1. f \in [1 .. least -> listed]
      <4>1. ASSUME NEW j \in 1 .. least PROVE list[j] \in listed
        <5>1. j \in 1 .. k /\ list[j] # NoLabel
          BY <2>5, <2>6, <2>7
        <5> QED BY <2>6, <5>1 DEF ToSet
      <4> HIDE DEF listed
      <4> QED BY <4>1
    <3>2. ASSUME NEW a \in 1 .. least, NEW b \in 1 .. least, list[a] = list[b] PROVE a = b
      <4>1. a \in 1 .. k /\ b \in 1 .. k /\ a <= n /\ b <= n
        BY <2>5, <2>7
      <4>2. Near(i, list[a]) \in Nat /\ Near(i, list[a]) = Near(i, list[b])
        BY <2>6, <3>2, <4>1
      <4>3. ~(a < b) /\ ~(b < a)
        <5>1. ~(Near(i, list[a]) < Near(i, list[b])) /\ ~(Near(i, list[b]) < Near(i, list[a]))
          BY <4>2
        <5> QED BY <2>6, <4>1, <5>1
      <4> QED BY <4>1, <4>3
    <3>3. ASSUME NEW row \in listed PROVE \E j \in 1 .. least : f[j] = row
      <4>1. PICK j \in 1 .. k : row = list[j]
        BY <2>6 DEF ToSet
      <4>2. j \in 1 .. least
        BY <2>5, <2>6, <4>1
      <4> QED BY <4>1, <4>2
    <3> HIDE DEF listed
    <3> QED BY <3>1, <3>2, <3>3 DEF Bijection, Injection, Surjection, IsInjective
  <2>9. Cardinality(listed) = least
    <3>1. IsFiniteSet(1 .. least) /\ Cardinality(1 .. least) = least
      <4>1. (IF 1 > least THEN 0 ELSE least - 1 + 1) = least
        BY <2>5
      <4> QED BY <2>5, <4>1, FS_Interval
    <3> HIDE DEF f, listed
    <3>2. ExistsBijection(1 .. least, listed)
      BY <2>8 DEF ExistsBijection
    <3> QED BY <3>1, <3>2, FS_Bijection
  <2>10. Cardinality(listed) = IF Cardinality(fit) < k THEN Cardinality(fit) ELSE k
    BY <2>4, <2>9 DEF least, n
  <2> QED BY <2>10 DEF list, fit
<1>2. IInv => PaddingHarmless
  BY <1>1 DEF PaddingHarmless
<1> QED BY <1>2, Invariance, PTL

\* For any number of threads: warm-up and timed tasks never run side by side,
\* and no task is left when query() returns or raises (its with statements).
THEOREM PoolsAlwaysApart == Spec => []PoolsApart
<1>1. ASSUME IInv PROVE PoolsApart
  <2>1. ASSUME NEW phase, InFlight(phase), phase \in {"warm", "timed"}
        PROVE  \E task \in InPools : task.phase = phase
    BY <2>1 DEF InFlight, InPools
  <2>2. Returned => ~InFlight("timed") /\ ~InFlight("warm")
    BY <1>1 DEF IInv, TasksOfPhase, InFlight, ToSet, Idle
  <2>3. pc \in {"timed", "raising"} => ~InFlight("warm")
    BY <1>1, <2>1 DEF IInv, TasksOfPhase
  <2> QED BY <1>1, <2>2, <2>3 DEF IInv, Types, PoolsApart, Returned
<1> QED BY <1>1, Invariance, PTL

\* Whatever the order in which tasks end: query() returns only if no query has
\* failed, and what it raises is the exception of the first that has.
THEOREM FirstFailureIsRaised == Spec => []RaisesFirst
<1>1. ASSUME IInv PROVE RaisesFirst
  BY <1>1, PoolAssumption DEF IInv, ExceptionsKept, RaisesFirst, Queries
<1> QED BY <1>1, Invariance, PTL
===============================================================================
