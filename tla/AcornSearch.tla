------------------------------ MODULE AcornSearch ------------------------------
(***************************************************************************)
(* IndexAcorn::search: one client queries the graph that add() has built.  *)
(* A search takes the exact scan of the storage when a sample of the ids   *)
(* finds the filter too selective, and otherwise descends the layers to    *)
(* layer 0, visiting members of the filter only.                           *)
(*                                                                         *)
(* A query without a selector is one whose filter has every id: the sample *)
(* then has selectivity 1 and each membership test succeeds.               *)
(***************************************************************************)
EXTENDS AcornBuild

CONSTANTS
  efSearch,        \* SearchParametersAcorn::efSearch
  Ks               \* bound: the values of k a query may ask for

ASSUME SearchAssumption == efSearch \in Nat \ {0} /\ Ks \subseteq Nat \ {0}

VARIABLES
  query,           \* the query: its vector, filter, k, and how far it is
  layer,           \* searchSingle: the layer it is on
  met, spent,      \* searchLayer: the visited nodes, those popped
  labels           \* the answer

searchVars == <<query, layer, met, spent, labels>>

NoLabel == -1
NoQuery == [state |-> "idle", q |-> 0, sel |-> {}, k |-> 0]

InitSearch ==
  /\ Init
  /\ query = NoQuery /\ layer = 0
  /\ met = {} /\ spent = {} /\ labels = <<>>

-----------------------------------------------------------------------------
(* The answer: ids in order of distance to the query, padded with -1.      *)

FarFrom(q, ids) == [id \in ids |-> Dist[q][storage[id]]]

\* The lists of the domain of far in the order of its values.
\* Mutant: in the order of the heap's array.
Listings(far) ==
  {list \in [1 .. Cardinality(DOMAIN far) -> DOMAIN far] : IsInjective(list)}
Rankings(far) ==
  {list \in [1 .. Cardinality(DOMAIN far) -> DOMAIN far] :
     /\ IsInjective(list)
     /\ \A i, j \in DOMAIN list : i < j => far[list[i]] <= far[list[j]]}

Padded(list, k) == [i \in 1 .. k |-> IF i \in DOMAIN list THEN list[i] ELSE NoLabel]

-----------------------------------------------------------------------------
(* search: a sample of the ids decides which way.                          *)

\* How many of ntotal ids, drawn with replacement, the filter may have.
SampleCounts(sel) ==
  IF sel = {} THEN {0}
  ELSE IF sel = 1 .. ntotal THEN {ntotal} ELSE 0 .. ntotal

\* selectivity < 1 / gamma.
TooSelective(count) == count * gamma < ntotal

\* searchLayer begins with the entry node, which it does not show the filter.
EnterLayer(l, n) ==
  /\ layer' = l /\ met' = {n} /\ spent' = {}

search ==
  /\ query.state = "idle" /\ Quiescent /\ ntotal > 0
  /\ \E q \in Points, sel \in SUBSET (1 .. ntotal), k \in Ks,
        way \in {"exact", "graph"} :
       /\ \E count \in SampleCounts(sel) : TooSelective(count) <=> way = "exact"
       /\ query' = [state |-> way, q |-> q, sel |-> sel, k |-> k]
       /\ IF way = "exact" THEN UNCHANGED <<layer, met, spent>>
          ELSE EnterLayer(getMaxLayer, getEntryPoint)
  /\ UNCHANGED <<vars, labels>>

\* IndexFlat::search with the same selector.
StorageSearch ==
  /\ query.state = "exact"
  /\ \E list \in Rankings(FarFrom(query.q, query.sel)) :
       labels' = Padded(list, query.k)
  /\ query' = [query EXCEPT !.state = "answered"]
  /\ UNCHANGED <<vars, layer, met, spent>>

-----------------------------------------------------------------------------
(* searchSingle, and the rounds of the searchLayer it is in.               *)

\* Mutant: greedy on layer 0 as well.
GreedySize == 1
ResultsSize == IF layer > 0 THEN 1 ELSE efSearch

\* A node that beats the worst result is in the frontier until it is popped.
Results == NearestOf(ResultsSize, layer, query.q, met)
SearchFrontier == Results \ spent

\* Mutants: no selector; the selector is shown the node's number.
AnyNode(n) == TRUE
NumberIsMember(n) == n \in query.sel
IsMember(n) == indexes[layer][n] \in query.sel

\* The places where a round over n looks: <<0, i>> is n's i-th neighbour; on
\* layer 0, <<i, j>> is the j-th neighbour of n's i-th one, from Mbeta on.
Places(n) ==
  LET list == graph[layer][n]
  IN {<<0, i>> : i \in DOMAIN list} \cup
     UNION {{<<i, j>> : j \in DOMAIN graph[0][list[i]]} :
              i \in {h \in Mbeta + 1 .. Len(list) : layer = 0}}
NodeAt(n, p) ==
  IF p[1] = 0 THEN graph[layer][n][p[2]]
  ELSE graph[layer][graph[layer][n][p[1]]][p[2]]
NotAfter(p, r) == p[1] < r[1] \/ (p[1] = r[1] /\ p[2] <= r[2])

\* A round meets the first M nodes that are members and new.
NewlyMet(n) ==
  LET fresh == {p \in Places(n) : IsMember(NodeAt(n, p)) /\ NodeAt(n, p) \notin met}
      Upto(r) == {NodeAt(n, p) : p \in {o \in fresh : NotAfter(o, r)}}
  IN {NodeAt(n, p) : p \in {r \in fresh : Cardinality(Upto(r)) <= M}}

\* Mutant: the frontier is read, not popped.
NotPopped(n) == spent
Popped(n) == spent \cup {n}

searchLayer ==
  /\ query.state = "graph"
  /\ \E n \in Best(layer, query.q, SearchFrontier) :
       /\ met' = met \cup NewlyMet(n)
       /\ spent' = Popped(n)
  /\ UNCHANGED <<vars, query, layer, labels>>

LayerDone == query.state = "graph" /\ SearchFrontier = {}

Descend ==
  /\ LayerDone /\ layer > 0
  /\ \E n \in Best(layer, query.q, Results) :
       EnterLayer(layer - 1, getDownwardsNode(layer, n))
  /\ UNCHANGED <<vars, query, labels>>

\* A label is the vector of the node.  Mutant: the node's number.
NodeNumber(n) == n
LabelOf(n) == indexes[0][n]

searchSingle ==
  /\ LayerDone /\ layer = 0
  /\ \E list \in Rankings([n \in Results |-> DistTo(0, query.q, n)]) :
       labels' = Padded([i \in DOMAIN list |-> LabelOf(list[i])], query.k)
  /\ query' = [query EXCEPT !.state = "answered"]
  /\ layer' = 0 /\ met' = {} /\ spent' = {}
  /\ UNCHANGED vars

\* The caller has the answer.
Return ==
  /\ query.state = "answered"
  /\ query' = NoQuery /\ labels' = <<>>
  /\ UNCHANGED <<vars, layer, met, spent>>

-----------------------------------------------------------------------------
SearchStep ==
  search \/ StorageSearch \/ searchLayer \/ Descend \/ searchSingle \/ Return

\* The client builds or queries, one call at a time.
NextSearch ==
  \/ query.state = "idle" /\ Next /\ UNCHANGED searchVars
  \/ SearchStep

SearchSpec == InitSearch /\ [][NextSearch]_<<vars, searchVars>>

\* A call to search() runs to its end, and so does a call to add().
FairSearchSpec ==
  /\ SearchSpec /\ WF_<<vars, searchVars>>(SearchStep /\ query.state # "idle")
FairTeamSpec == FairSearchSpec /\ Fairness
-----------------------------------------------------------------------------
(* Properties                                                               *)

\* SearchParameters::sel, Index.h:88: "if non-null, only these IDs will be
\* considered during search".  An answer lists members of the filter only.
FilterRespected ==
  query.state = "answered" => ToSet(labels) \subseteq query.sel \cup {NoLabel}

\* The vector every search starts from.
EntryVector == indexes[getMaxLayer][getEntryPoint]

\* Whatever path a search takes through the layers, the two hops and the
\* exact scan, the one id it may list against the filter is the vector of the
\* graph's entry point: every other node was shown to the filter.
OnlyEntryEscapes ==
  query.state = "answered" =>
    ToSet(labels) \subseteq query.sel \cup {NoLabel, EntryVector}

\* What the two rest on: an index with vectors has an entry point, no add()
\* is under way while a search is, and the nodes met belong to the layer.
Started ==
  /\ ntotal > 0 => layers > 0
  /\ claimed > 0 =>
       layers > 0 \/ \E t \in Threads : chunk[t] # <<>> \/ pc[t] = "addNode"

Queries == [state : {"idle", "exact", "graph", "answered"}, q : Points \cup {0},
            sel : SUBSET Nat, k : Ks \cup {0}]

Searching ==
  query.state = "graph" =>
    /\ ntotal > 0 /\ layer \in 0 .. getMaxLayer
    /\ met \subseteq Nodes(layer)
    /\ \A n \in met : indexes[layer][n] \in query.sel \cup {EntryVector}

SearchInv ==
  /\ IInv /\ query \in Queries
  /\ Started /\ Searching /\ OnlyEntryEscapes

\* A search without a filter and with efSearch >= ntotal is exact as long as
\* nothing was pruned (M >= ntotal): layer 0 is connected from wherever the
\* descent enters it.
WideSearchExact ==
  query.state = "answered" /\ query.sel = 1 .. ntotal
                           /\ efSearch >= ntotal /\ M >= ntotal =>
    \E list \in Rankings(FarFrom(query.q, 1 .. ntotal)) :
      labels = Padded(list, query.k)

\* search() returns: it meets each node at most once.
SearchReturns == query.state \in {"exact", "graph"} ~> query.state = "answered"

\* The index keeps the promise of AnnIndex with one stray label: a batch is
\* stored once add() has returned, labels are ids of stored vectors, listed
\* in order of distance and before the padding.
Promise == INSTANCE AnnIndex WITH
  Stray  <- 1,
  stored <- SubSeq(storage, 1, ntotal),
  asked  <- IF query.state \in {"exact", "graph"}
            THEN [query EXCEPT !.state = "asked"] ELSE query,
  answer <- labels
KeepsPromise == Promise!Spec
===============================================================================
