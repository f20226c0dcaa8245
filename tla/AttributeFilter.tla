---------------------------- MODULE AttributeFilter ----------------------------
(***************************************************************************)
(* The filters of the algorithm wrappers.  A structured row has a value    *)
(* per dimension, a sparse row a set of tags; a filter is a conjunction of *)
(* values (ANY leaves a dimension open), one set of values per dimension   *)
(* (CNF), or the tags a row must carry.  Some wrappers turn it into the    *)
(* ids an index may list, others test each row an index has listed.        *)
(*                                                                         *)
(* Rows count from 1; NoLabel stands for the -1 that pads a short result.  *)
(***************************************************************************)
EXTENDS Integers, FiniteSets, SequencesExt

CONSTANTS
  base_attributes,   \* per row: its values
  base_tags          \* per row: its tags

ASSUME RowsAssumption ==
  /\ base_attributes \in Seq(Seq(Int)) /\ base_attributes # <<>>
  /\ Len(base_tags) = Len(base_attributes)

NoLabel  == 0
ANY      == -1
nb       == Len(base_attributes)
Rows     == 1 .. nb
num_dims == Len(base_attributes[1])
Dims     == 1 .. num_dims

\* What AttributeIndex holds: the rows of a value, if any has it.
_build_index(d, val) == {row \in Rows : base_attributes[row][d] = val}

-----------------------------------------------------------------------------
(* Filters as sets of ids                                                   *)

\* get_valid_ids_conj and _cnf narrow the result one dimension after the other;
\* an open one (None) is passed over, and a result that is None after the last
\* one is every row.  Mutant: it is no row.
None == {NoLabel}
Narrowed(result, ids) == IF result = None THEN ids ELSE result \cap ids
OrNoRow(result)  == IF result = None THEN {} ELSE result
OrAllRows(result) == IF result = None THEN Rows ELSE result

Narrowing(ids) ==
  LET result[d \in 0 .. num_dims] ==
        IF d = 0 THEN None
        ELSE IF ids[d] = None THEN result[d - 1]
        ELSE Narrowed(result[d - 1], ids[d])
  IN result

get_valid_ids_conj(flt) ==
  LET ids == [d \in Dims |-> IF flt[d] = ANY THEN None ELSE _build_index(d, flt[d])]
  IN OrAllRows(Narrowing(ids)[num_dims])

get_valid_ids_cnf(flt) ==
  LET ids == [d \in Dims |-> IF ANY \in flt[d] THEN None
                             ELSE UNION {_build_index(d, v) : v \in flt[d]}]
  IN OrAllRows(Narrowing(ids)[num_dims])

\* The columns of the CSC matrix, intersected; there is no list of ids for no
\* tags, which is a TypeError.
Column(tag) == {row \in Rows : tag \in base_tags[row]}
valid_ids_set(tags) == {row \in UNION {Column(t) : t \in tags} : \A t \in tags : row \in Column(t)}

-----------------------------------------------------------------------------
(* Filters as tests of a row                                                *)

\* numpy takes row -1 for the last one; the CSR row -1 is empty.
AttributesOf(row) == base_attributes[IF row = NoLabel THEN nb ELSE row]
TagsOf(row)       == IF row = NoLabel THEN {} ELSE base_tags[row]

valid_structured_conjunction(row, flt) ==
  \A d \in Dims : flt[d] # ANY => AttributesOf(row)[d] = flt[d]

valid_structured_CNF(row, flt) == \A d \in Dims : AttributesOf(row)[d] \in flt[d]

valid_csr_conjunction(row, tags) == tags \subseteq TagsOf(row)

-----------------------------------------------------------------------------
get_valid_ids(query_type, flt) ==
  CASE query_type = "conjunction" -> get_valid_ids_conj(flt)
    [] query_type = "CNF"         -> get_valid_ids_cnf(flt)
    [] query_type = "sparse"      -> valid_ids_set(flt)

valid(query_type, row, flt) ==
  CASE query_type = "conjunction" -> valid_structured_conjunction(row, flt)
    [] query_type = "CNF"         -> valid_structured_CNF(row, flt)
    [] query_type = "sparse"      -> valid_csr_conjunction(row, flt)

\* The elements of s in the places P, in their order.
Kept(s, P) ==
  [j \in 1 .. Cardinality(P) |-> s[CHOOSE i \in P : Cardinality({h \in P : h <= i}) = j]]
Padded(list, n) == [j \in 1 .. n |-> IF j <= Len(list) THEN list[j] ELSE NoLabel]

\* HNSWPostfilter: of the hits of the index, padding included, the first k that
\* pass the test.  Mutants: the cut to k comes before the test, and no padding.
Passing(query_type, flt, hits) == {i \in DOMAIN hits : valid(query_type, hits[i], flt)}
CutFirst(query_type, flt, hits, k) ==
  Padded(Kept(hits, Passing(query_type, flt, hits) \cap 1 .. k), k)
Unpadded(query_type, flt, hits, k) ==
  LET passed == Kept(hits, Passing(query_type, flt, hits))
  IN SubSeq(passed, 1, IF Len(passed) < k THEN Len(passed) ELSE k)
Postfiltered(query_type, flt, hits, k) ==
  Padded(Kept(hits, Passing(query_type, flt, hits)), k)
===============================================================================
