-------------------------- MODULE AcornSearch_proofs --------------------------
(***************************************************************************)
(* TLAPS proofs about AcornSearch: whatever graph concurrent add() calls   *)
(* left, a filtered search lists nothing against its filter but the vector *)
(* of the entry point; and IndexAcorn is an AnnIndex with one stray label.  *)
(***************************************************************************)
EXTENDS AcornSearch, AcornIndexed_proofs

(***************************************************************************)
(* A vector in the index means an entry point.                             *)
(***************************************************************************)

\* Every thread that has taken ids goes on to addNode.
LEMMA ThreadStarts ==
  ASSUME IInv, Started, NEW t \in Threads, addSingle(t)
  PROVE  Started'
<1>1. TypeOK
  BY DEF IInv
<1>2. ntotal' = ntotal /\ claimed' = claimed
  BY DEF addSingle, ReadMaxLayer, addNode, Expand, DescendEnd, ReadTop, Remap,
         RemapEnd, SearchEnd, LinkIn, LinkBack, ReadNeighbors, Check, NextLayer,
         ReadLast, PopLast, twoHopPruning, TwoHopScan, TwoHopWrite, Unlink,
         UnlinkEnd, indexVars
<1>3. CASE ReadMaxLayer(t)
  <2>1. pc' = [pc EXCEPT ![t] = "addNode"] /\ layers' = layers
    BY <1>3 DEF ReadMaxLayer, Goto, graphVars
  <2>2. pc'[t] = "addNode"
    BY <2>1, <1>1 DEF TypeOK
  <2> QED
    BY <1>2, <2>1, <2>2 DEF Started
<1>4. CASE addNode(t)
  <2>1. PICK l \in Layers : layers' = IF layers <= l THEN l + 1 ELSE layers
    BY <1>4 DEF addNode
  <2>2. l \in Nat /\ layers \in Nat
    BY <1>1, ParameterAssumption DEF TypeOK, Layers
  <2>3. layers' > 0
    BY <2>1, <2>2
  <2> QED
    BY <2>3 DEF Started
<1>5. CASE ~ ReadMaxLayer(t) /\ ~ addNode(t)
  <2>1. layers' = layers /\ chunk' = chunk
    BY <1>5
    DEF addSingle, Expand, DescendEnd, ReadTop, Remap,
        RemapEnd, SearchEnd, LinkIn, LinkBack, ReadNeighbors, Check, NextLayer,
        ReadLast, PopLast, twoHopPruning, TwoHopScan, TwoHopWrite, Unlink,
        UnlinkEnd, graphVars
  <2>2. pc[t] # "addNode"
    BY <1>5
    DEF addSingle, Expand, DescendEnd, ReadTop, Remap,
        RemapEnd, SearchEnd, LinkIn, LinkBack, ReadNeighbors, Check, NextLayer,
        ReadLast, PopLast, twoHopPruning, TwoHopScan, TwoHopWrite, Unlink,
        UnlinkEnd
  <2>3. \A u \in Threads \ {t} : pc'[u] = pc[u]
    <3>1. \/ pc' = pc
          \/ \E label \in Labels : pc' = [pc EXCEPT ![t] = label]
      BY <1>5
      DEF addSingle, Expand, DescendEnd, ReadTop, Remap,
          RemapEnd, SearchEnd, LinkIn, LinkBack, ReadNeighbors, Check, NextLayer,
          ReadLast, PopLast, twoHopPruning, TwoHopScan, TwoHopWrite, Unlink,
          UnlinkEnd, NextNeighbor, Goto, Labels
    <3> QED
      BY <3>1, <1>1 DEF TypeOK
  <2> QED
    BY <1>2, <2>1, <2>2, <2>3 DEF Started
<1> QED
  BY <1>3, <1>4, <1>5

LEMMA StepStarts ==
  ASSUME IInv, Started, [Next]_vars
  PROVE  Started'
<1>1. TypeOK /\ TeamAtRest
  BY DEF IInv
<1>2. CASE Add
  BY <1>2 DEF Add, graphVars, Started
<1>3. CASE AddEnd
  <2>1. /\ ~ Quiescent /\ TeamDone /\ ntotal' = Len(storage) /\ claimed' = claimed
        /\ UNCHANGED <<layers, pc, chunk>>
    BY <1>3 DEF AddEnd, graphVars
  <2>2. \A t \in Threads : pc[t] = "idle" /\ chunk[t] = <<>>
    BY <2>1 DEF TeamDone
  <2>3. claimed = Len(storage) /\ claimed \in Nat
    BY <2>1, <1>1 DEF TeamDone, TypeOK
  <2>4. claimed > 0 => layers > 0
    BY <2>2 DEF Started
  <2> QED
    BY <2>1, <2>3, <2>4 DEF Started
<1>4. CASE reset
  BY <1>4 DEF reset, Started
<1>5. ASSUME NEW t \in Threads, ThreadStep(t)
      PROVE  Started'
  <2>1. CASE Claim(t)
    <3> DEFINE last == IF claimed + Chunk < Len(storage)
                       THEN claimed + Chunk ELSE Len(storage)
               ids == [i \in 1 .. last - claimed |-> claimed + i]
    <3>1. /\ claimed < Len(storage) /\ chunk' = [chunk EXCEPT ![t] = ids]
          /\ UNCHANGED <<ntotal, layers>>
      BY <2>1 DEF Claim, graphVars
    <3>2. claimed \in Nat /\ Len(storage) \in Nat /\ Chunk \in Nat \ {0}
      BY <1>1, ParameterAssumption DEF TypeOK
    <3>3. last - claimed \in Nat \ {0}
      BY <3>1, <3>2
    <3>4. chunk'[t] = ids
      BY <3>1, <1>1 DEF TypeOK
    <3>5. Len(ids) = last - claimed
      BY <3>3
    <3>6. chunk'[t] # <<>>
      BY <3>3, <3>4, <3>5
    <3> QED
      BY <3>1, <3>6 DEF Started
  <2> QED
    BY <1>5, <2>1, ThreadStarts DEF ThreadStep
<1>6. CASE Undefined \/ UNCHANGED vars
  BY <1>6 DEF Undefined, vars, indexVars, graphVars, Started
<1> QED
  BY <1>2, <1>3, <1>4, <1>5, <1>6 DEF Next
(***************************************************************************)
(* What a search lists.                                                    *)
(***************************************************************************)

\* Padding adds nothing but NoLabel.
LEMMA PaddedElements ==
  ASSUME NEW S, NEW n, NEW list \in [1 .. n -> S], NEW k
  PROVE  ToSet(Padded(list, k)) \subseteq S \cup {NoLabel}
BY DEF Padded, ToSet

\* The layers have a top one and its entry point is one of its nodes.
LEMMA EntryPointExists ==
  ASSUME IInv, Started, ntotal > 0
  PROVE  /\ getMaxLayer \in Layers /\ getMaxLayer < layers
         /\ getEntryPoint \in Nodes(getMaxLayer)
<1>1. layers > 0 /\ layers \in 0 .. TopLayer + 1 /\ TopLayer \in Nat
  BY ParameterAssumption DEF IInv, Started, TypeOK
<1>2. getMaxLayer = layers - 1 /\ getMaxLayer \in Layers /\ getMaxLayer < layers
  BY <1>1 DEF getMaxLayer, Layers
<1>3. Nodes(getMaxLayer) # {}
  BY <1>2 DEF IInv, LayersNested
<1>4. Len(indexes[getMaxLayer]) \in Nat
  BY <1>2 DEF IInv, TypeOK
<1> QED
  BY <1>2, <1>3, <1>4 DEF Nodes, getEntryPoint

\* A query that asks keeps its filter until the answer is taken.
LEMMA Answered ==
  ASSUME query \in Queries, query' = [query EXCEPT !.state = "answered"]
  PROVE  query' \in Queries /\ query'.state = "answered" /\ query'.sel = query.sel
BY DEF Queries

\* A round of searchLayer looks at nodes of the layer.
LEMMA PlacesHaveNodes ==
  ASSUME IInv, NEW n \in Nodes(layer), layer \in Layers, NEW p \in Places(n)
  PROVE  NodeAt(n, p) \in Nodes(layer)
<1> DEFINE list == graph[layer][n]
<1>1. EdgesSound
  BY DEF IInv
<1>2. \A a \in Nodes(layer) : graph[layer][a] \in Seq(Nodes(layer))
  <2>1. \A a \in Nodes(layer) : Seq(Nodes(layer) \ {a}) \subseteq Seq(Nodes(layer))
    BY SeqIsMonotonic
  <2> QED
    BY <1>1, <2>1 DEF EdgesSound
<1>3. CASE \E i \in DOMAIN list : p = <<0, i>>
  <2>1. PICK i \in DOMAIN list : p = <<0, i>>
    BY <1>3
  <2>2. NodeAt(n, p) = list[i]
    BY <2>1 DEF NodeAt
  <2> QED
    BY <2>1, <2>2, <1>2
<1>4. CASE \E i \in Mbeta + 1 .. Len(list) :
             layer = 0 /\ \E j \in DOMAIN graph[0][list[i]] : p = <<i, j>>
  <2>1. PICK i \in Mbeta + 1 .. Len(list) :
          layer = 0 /\ \E j \in DOMAIN graph[0][list[i]] : p = <<i, j>>
    BY <1>4
  <2>2. PICK j \in DOMAIN graph[0][list[i]] : p = <<i, j>>
    BY <2>1
  <2>3. Mbeta \in Nat
    BY ParameterAssumption
  <2>4. list \in Seq(Nodes(layer))
    BY <1>2
  <2>5. i \in 1 .. Len(list) /\ i # 0
    BY <2>1, <2>3, <2>4
  <2>6. list[i] \in Nodes(layer)
    BY <2>4, <2>5
  <2>7. NodeAt(n, p) = graph[layer][list[i]][j]
    BY <2>2, <2>5 DEF NodeAt
  <2>8. graph[layer][list[i]] \in Seq(Nodes(layer)) /\ j \in DOMAIN graph[layer][list[i]]
    BY <2>1, <2>2, <2>6, <1>2
  <2> QED
    BY <2>7, <2>8
<1> QED
  BY <1>3, <1>4 DEF Places

\* It meets some of them, all in the filter.
LEMMA NewlyMetNodes ==
  ASSUME IInv, NEW n \in Nodes(layer), layer \in Layers
  PROVE  /\ NewlyMet(n) \subseteq Nodes(layer)
         /\ \A m \in NewlyMet(n) : indexes[layer][m] \in query.sel
<1>1. \A m \in NewlyMet(n) :
        \E p \in Places(n) : m = NodeAt(n, p) /\ IsMember(NodeAt(n, p))
  BY DEF NewlyMet
<1> QED
  BY <1>1, PlacesHaveNodes DEF IsMember

\* Going down names the same vector.
LEMMA DownSameVector ==
  ASSUME IInv, layer \in Layers, layer > 0, NEW n \in Nodes(layer)
  PROVE  /\ layer - 1 \in Layers
         /\ getDownwardsNode(layer, n) \in Nodes(layer - 1)
         /\ indexes[layer-1][getDownwardsNode(layer, n)] = indexes[layer][n]
<1>1. LayersNested /\ TypeOK
  BY DEF IInv
<1>2. Len(down[layer]) = Len(indexes[layer]) /\ down[layer] \in Seq(Nat)
  BY <1>1 DEF LayersNested, TypeOK
<1>3. n \in DOMAIN down[layer]
  BY <1>2 DEF Nodes
<1>4. getDownwardsNode(layer, n) = down[layer][n]
  BY <1>3 DEF getDownwardsNode
<1>5. layer - 1 \in Layers
  BY ParameterAssumption DEF Layers
<1> QED
  BY <1>1, <1>4, <1>5 DEF LayersNested

(***************************************************************************)
(* The inductive invariant of the searches.                                *)
(***************************************************************************)

LEMMA InitSearchInv == InitSearch => SearchInv
<1> SUFFICES ASSUME InitSearch
             PROVE  SearchInv
  OBVIOUS
<1>1. IInv
  BY InitIInv DEF InitSearch
<1>2. query = NoQuery /\ ntotal = 0 /\ claimed = 0
  BY DEF InitSearch, Init
<1>3. query \in Queries /\ query.state = "idle"
  BY <1>2 DEF NoQuery, Queries
<1> QED
  BY <1>1, <1>2, <1>3 DEF SearchInv, Started, Searching, OnlyEntryEscapes

\* While a search runs the index does not change.
LEMMA IndexFrame ==
  ASSUME SearchInv, UNCHANGED vars
  PROVE  IInv' /\ Started' /\ EntryVector' = EntryVector
<1>1. IInv'
  BY NextIInv DEF SearchInv
<1>2. Started' /\ EntryVector' = EntryVector
  BY DEF SearchInv, Started, EntryVector, getMaxLayer, getEntryPoint,
         vars, indexVars, graphVars
<1> QED
  BY <1>1, <1>2

LEMMA searchInv ==
  ASSUME SearchInv, search
  PROVE  SearchInv'
<1>1. IInv' /\ Started' /\ EntryVector' = EntryVector
  BY IndexFrame DEF search
<1>2. PICK q \in Points, sel \in SUBSET (1 .. ntotal), k \in Ks,
           way \in {"exact", "graph"} :
        /\ query' = [state |-> way, q |-> q, sel |-> sel, k |-> k]
        /\ IF way = "exact" THEN UNCHANGED <<layer, met, spent>>
           ELSE EnterLayer(getMaxLayer, getEntryPoint)
  BY DEF search
<1>3. UNCHANGED vars /\ ntotal > 0 /\ IInv /\ Started
  BY DEF search, SearchInv
<1>4. query' \in Queries /\ query'.state = way
  <2>1. sel \in SUBSET Nat
    BY <1>3 DEF IInv, TypeOK
  <2> QED
    BY <1>2, <2>1 DEF Queries
<1>5. Searching'
  <2> SUFFICES ASSUME way = "graph"
               PROVE  Searching'
    BY <1>4 DEF Searching
  <2>1. layer' = getMaxLayer /\ met' = {getEntryPoint}
    BY <1>2 DEF EnterLayer
  <2>2. /\ getMaxLayer \in Layers /\ getMaxLayer < layers
        /\ getEntryPoint \in Nodes(getMaxLayer)
    BY <1>3, EntryPointExists
  <2>3. /\ getMaxLayer' = getMaxLayer /\ ntotal' = ntotal
        /\ indexes' = indexes
    BY <1>3 DEF getMaxLayer, vars, indexVars, graphVars
  <2>4. layer' \in 0 .. getMaxLayer'
    BY <2>1, <2>2, <2>3, TopLayerType DEF Layers
  <2>5. met' \subseteq Nodes(layer)'
    BY <2>1, <2>2, <2>3 DEF Nodes
  <2>6. \A n \in met' : indexes'[layer'][n] = EntryVector'
    BY <2>1, <2>3 DEF EntryVector, getEntryPoint
  <2> QED
    BY <2>3, <2>4, <2>5, <2>6, <1>3 DEF Searching
<1>6. OnlyEntryEscapes'
  BY <1>4 DEF OnlyEntryEscapes
<1> QED
  BY <1>1, <1>4, <1>5, <1>6 DEF SearchInv

LEMMA StorageSearchInv ==
  ASSUME SearchInv, StorageSearch
  PROVE  SearchInv'
<1>1. IInv' /\ Started'
  BY IndexFrame DEF StorageSearch
<1>2. query' \in Queries /\ query'.state = "answered" /\ query'.sel = query.sel
  BY Answered DEF StorageSearch, SearchInv
<1>3. Searching'
  BY <1>2 DEF Searching
<1>4. PICK list \in Rankings(FarFrom(query.q, query.sel)) :
        labels' = Padded(list, query.k)
  BY DEF StorageSearch
<1>5. list \in [1 .. Cardinality(query.sel) -> query.sel]
  BY DEF Rankings, FarFrom
<1>6. ToSet(labels') \subseteq query.sel \cup {NoLabel}
  BY <1>4, <1>5, PaddedElements
<1>7. OnlyEntryEscapes'
  BY <1>2, <1>6 DEF OnlyEntryEscapes, NoLabel
<1> QED
  BY <1>1, <1>2, <1>3, <1>7 DEF SearchInv

\* The layer a search is on is a layer of the graph.
LEMMA OnALayer ==
  ASSUME IInv, Searching, query.state = "graph"
  PROVE  layer \in Layers /\ layer \in Nat
<1>1. layer \in 0 .. getMaxLayer
  BY DEF Searching
<1>2. layers \in 0 .. TopLayer + 1
  BY DEF IInv, TypeOK
<1> QED
  BY <1>1, <1>2, TopLayerType DEF getMaxLayer, Layers

LEMMA searchLayerInv ==
  ASSUME SearchInv, searchLayer
  PROVE  SearchInv'
<1>1. IInv' /\ Started' /\ EntryVector' = EntryVector
  BY IndexFrame DEF searchLayer
<1>2. IInv /\ Searching /\ query \in Queries /\ query.state = "graph"
  BY DEF SearchInv, searchLayer
<1>3. PICK n \in Best(layer, query.q, SearchFrontier) :
        met' = met \cup NewlyMet(n)
  BY DEF searchLayer
<1>4. UNCHANGED <<query, layer, labels, ntotal, layers, indexes>>
  BY DEF searchLayer, vars, indexVars, graphVars
<1>5. n \in Nodes(layer)
  BY <1>2, <1>3 DEF Best, SearchFrontier, Results, NearestOf, Searching
<1>6. /\ NewlyMet(n) \subseteq Nodes(layer)
      /\ \A m \in NewlyMet(n) : indexes[layer][m] \in query.sel
  BY <1>2, <1>5, OnALayer, NewlyMetNodes
<1>7. Searching'
  BY <1>1, <1>2, <1>3, <1>4, <1>6 DEF Searching, Nodes, getMaxLayer
<1>8. OnlyEntryEscapes'
  BY <1>2, <1>4 DEF OnlyEntryEscapes
<1> QED
  BY <1>1, <1>2, <1>4, <1>7, <1>8 DEF SearchInv

LEMMA DescendInv ==
  ASSUME SearchInv, Descend
  PROVE  SearchInv'
<1>1. IInv' /\ Started' /\ EntryVector' = EntryVector
  BY IndexFrame DEF Descend
<1>2. IInv /\ Searching /\ query \in Queries /\ query.state = "graph" /\ layer > 0
  BY DEF SearchInv, Descend, LayerDone
<1>3. PICK n \in Best(layer, query.q, Results) :
        layer' = layer - 1 /\ met' = {getDownwardsNode(layer, n)}
  BY DEF Descend, EnterLayer
<1>4. UNCHANGED <<query, labels, ntotal, layers, indexes>>
  BY DEF Descend, vars, indexVars, graphVars
<1>5. n \in met /\ n \in Nodes(layer)
  BY <1>2, <1>3 DEF Best, Results, NearestOf, Searching
<1>6. layer \in Layers /\ layer \in Nat
  BY <1>2, OnALayer
<1>7. /\ getDownwardsNode(layer, n) \in Nodes(layer - 1)
      /\ indexes[layer-1][getDownwardsNode(layer, n)] = indexes[layer][n]
  BY <1>2, <1>5, <1>6, DownSameVector
<1>8. layer' \in 0 .. getMaxLayer'
  <2>1. layer \in 0 .. getMaxLayer /\ getMaxLayer' = getMaxLayer
    BY <1>2, <1>4 DEF Searching, getMaxLayer
  <2>2. getMaxLayer \in Int
    BY <1>2, TopLayerType DEF IInv, TypeOK, getMaxLayer
  <2> QED
    BY <2>1, <2>2, <1>2, <1>3, <1>6
<1>9. Searching'
  BY <1>1, <1>2, <1>3, <1>4, <1>5, <1>7, <1>8 DEF Searching, Nodes
<1>10. OnlyEntryEscapes'
  BY <1>2, <1>4 DEF OnlyEntryEscapes
<1> QED
  BY <1>1, <1>2, <1>4, <1>9, <1>10 DEF SearchInv

LEMMA searchSingleInv ==
  ASSUME SearchInv, searchSingle
  PROVE  SearchInv'
<1>1. IInv' /\ Started' /\ EntryVector' = EntryVector
  BY IndexFrame DEF searchSingle
<1>2. Searching /\ query.state = "graph" /\ layer = 0
  BY DEF SearchInv, searchSingle, LayerDone
<1>3. query' \in Queries /\ query'.state = "answered" /\ query'.sel = query.sel
  BY Answered DEF searchSingle, SearchInv
<1>4. Searching'
  BY <1>3 DEF Searching
<1> DEFINE S == query.sel \cup {EntryVector}
<1>5. PICK list \in Rankings([n \in Results |-> DistTo(0, query.q, n)]) :
        labels' = Padded([i \in DOMAIN list |-> LabelOf(list[i])], query.k)
  BY DEF searchSingle
<1>6. list \in [1 .. Cardinality(Results) -> Results]
  BY DEF Rankings
<1>7. \A n \in Results : LabelOf(n) \in S
  BY <1>2 DEF Results, NearestOf, LabelOf, Searching
<1>8. [i \in DOMAIN list |-> LabelOf(list[i])] \in [1 .. Cardinality(Results) -> S]
  BY <1>6, <1>7
<1>9. ToSet(labels') \subseteq S \cup {NoLabel}
  BY <1>5, <1>8, PaddedElements
<1>10. OnlyEntryEscapes'
  BY <1>1, <1>3, <1>9 DEF OnlyEntryEscapes, NoLabel
<1> QED
  BY <1>1, <1>3, <1>4, <1>10 DEF SearchInv

LEMMA ReturnInv ==
  ASSUME SearchInv, Return
  PROVE  SearchInv'
<1>1. IInv' /\ Started'
  BY IndexFrame DEF Return
<1>2. query' \in Queries /\ query'.state = "idle"
  BY DEF Return, NoQuery, Queries
<1> QED
  BY <1>1, <1>2 DEF SearchInv, Searching, OnlyEntryEscapes

LEMMA NextSearchInv == SearchInv /\ [NextSearch]_<<vars, searchVars>> => SearchInv'
<1> SUFFICES ASSUME SearchInv, [NextSearch]_<<vars, searchVars>>
             PROVE  SearchInv'
  OBVIOUS
<1>1. CASE query.state = "idle" /\ Next /\ UNCHANGED searchVars
  <2>1. IInv'
    BY <1>1, NextIInv DEF SearchInv
  <2>2. Started'
    BY <1>1, StepStarts DEF SearchInv
  <2>3. query' = query /\ query.state = "idle"
    BY <1>1 DEF searchVars
  <2> QED
    BY <2>1, <2>2, <2>3 DEF SearchInv, Searching, OnlyEntryEscapes
<1>2. CASE SearchStep
  BY <1>2, searchInv, StorageSearchInv, searchLayerInv, DescendInv,
     searchSingleInv, ReturnInv DEF SearchStep
<1>3. CASE UNCHANGED <<vars, searchVars>>
  <2>1. IInv' /\ Started' /\ EntryVector' = EntryVector
    BY <1>3, IndexFrame
  <2>2. UNCHANGED <<query, layer, met, labels, ntotal, layers, indexes>>
    BY <1>3 DEF searchVars, vars, indexVars, graphVars
  <2>3. Searching'
    BY <2>1, <2>2 DEF SearchInv, Searching, Nodes, getMaxLayer
  <2>4. OnlyEntryEscapes'
    BY <2>1, <2>2 DEF SearchInv, OnlyEntryEscapes
  <2> QED
    BY <2>1, <2>2, <2>3, <2>4 DEF SearchInv
<1> QED
  BY <1>1, <1>2, <1>3 DEF NextSearch

\* A filtered search lists the entry point's vector at most against its
\* filter, for every graph that add() can build with any number of threads,
\* every metric, filter, k and efSearch: searchLayer asks the selector about
\* every node it meets but the one it enters by, and the edges downwards keep
\* that node the same vector on every layer.
THEOREM FilterEscape == SearchSpec => []OnlyEntryEscapes
<1>1. InitSearch => SearchInv
  BY InitSearchInv
<1>2. SearchInv /\ [NextSearch]_<<vars, searchVars>> => SearchInv'
  BY NextSearchInv
<1>3. SearchInv => OnlyEntryEscapes
  BY DEF SearchInv
<1> QED
  BY <1>1, <1>2, <1>3, PTL DEF SearchSpec

(***************************************************************************)
(* IndexAcorn is an AnnIndex.                                              *)
(***************************************************************************)

\* A query under way names a vector, stored ids and a k; the index holds still.
Posed ==
  query.state # "idle" =>
    /\ query.q \in Points /\ query.k \in Ks /\ query.sel \in SUBSET (1 .. ntotal)
    /\ Quiescent

\* The padding leaves the order of the labels and adds no id.
LEMMA PaddedAcceptable ==
  ASSUME IInv, Posed, query.state \in {"exact", "graph"},
         NEW n \in Nat, NEW ids \in [1 .. n -> 1 .. ntotal], NEW stray,
         \A i, j \in 1 .. n : i < j =>
           /\ ids[i] # ids[j]
           /\ Dist[query.q][storage[ids[i]]] <= Dist[query.q][storage[ids[j]]],
         \A i \in 1 .. n : ids[i] \in query.sel \cup {stray},
         query \in Queries
  PROVE  Promise!Acceptable(Padded(ids, query.k))
<1> DEFINE list == Padded(ids, query.k)
           stored == SubSeq(storage, 1, ntotal)
           found == Promise!ToSet(list) \ {NoLabel}
<1>1. /\ query.k \in Nat /\ query.q \in Points /\ ntotal = Len(storage)
      /\ storage \in Seq(Points) /\ ntotal \in Nat
  BY SearchAssumption DEF Posed, Quiescent, IInv, TypeOK
<1>2. stored = storage /\ DOMAIN stored = 1 .. ntotal
  BY <1>1
<1>3. /\ list \in [1 .. query.k -> (1 .. ntotal) \cup {NoLabel}]
      /\ \A i \in 1 .. query.k : list[i] # NoLabel => i \in 1 .. n /\ list[i] = ids[i]
      /\ \A i \in 1 .. query.k : i <= n => list[i] = ids[i]
  BY DEF Padded
<1>4. Len(list) = query.k /\ DOMAIN list = 1 .. query.k
  BY <1>1, <1>3
<1> HIDE DEF list
<1>5. found \subseteq 1 .. ntotal /\ found \subseteq query.sel \cup {stray}
  BY <1>3, <1>4 DEF Promise!ToSet
<1>6. Promise!Cardinality(found \ query.sel) <= 1
  <2>1. found \ query.sel \in SUBSET {stray}
    BY <1>5
  <2> DEFINE extra == found \ query.sel
  <2> HIDE DEF extra, found
  <2>2. Cardinality(extra) <= 1
    <3>1. IsFiniteSet({stray}) /\ Cardinality({stray}) = 1
      BY FS_Singleton
    <3> QED BY <2>1, <3>1, FS_Subset DEF extra
  <2>3. Promise!Cardinality(extra) = Cardinality(extra)
    BY DEF Promise!Cardinality, Cardinality
  <2> QED BY <2>2, <2>3 DEF extra
<1>7. ASSUME NEW i \in DOMAIN list, NEW j \in DOMAIN list, i < j, list[j] # NoLabel
      PROVE  /\ list[i] \notin {NoLabel, list[j]}
             /\ Dist[query.q][stored[list[i]]] <= Dist[query.q][stored[list[j]]]
  <2>1. j \in 1 .. n /\ list[j] = ids[j] /\ i \in 1 .. n /\ list[i] = ids[i]
    BY <1>1, <1>3, <1>4, <1>7
  <2>2. ids[i] # NoLabel
    BY <1>1, <2>1 DEF NoLabel
  <2> QED BY <1>2, <1>7, <2>1, <2>2
<1> DEFINE asked == IF query.state \in {"exact", "graph"}
                    THEN [query EXCEPT !.state = "asked"] ELSE query
<1>8. asked.q = query.q /\ asked.k = query.k /\ asked.sel = query.sel
  BY DEF Queries
<1> HIDE DEF asked, found, stored
<1>9. Promise!Acceptable(list)
  <2>1. Promise!Acceptable(list) <=>
          /\ Len(list) = asked.k
          /\ found \subseteq DOMAIN stored
          /\ \A i, j \in DOMAIN list :
               i < j /\ list[j] # NoLabel =>
                 /\ list[i] \notin {NoLabel, list[j]}
                 /\ Dist[asked.q][stored[list[i]]] <= Dist[asked.q][stored[list[j]]]
          /\ Promise!Cardinality(found \ asked.sel) <= 1
    BY DEF Promise!Acceptable, asked, found, stored
  <2> QED BY <1>2, <1>4, <1>5, <1>6, <1>7, <1>8, <2>1
<1> QED BY <1>9 DEF list

\* Ids without repetitions, in order of distance, each in the filter or stray.
LEMMA Listed ==
  ASSUME SearchInv, Posed, query.state \in {"exact", "graph"},
         NEW S, NEW id \in [S -> 1 .. ntotal], NEW far, DOMAIN far = S,
         IsFiniteSet(S), NEW list \in Rankings(far), NEW stray,
         \A a, b \in S : id[a] = id[b] => a = b,
         \A a \in S : /\ far[a] = Dist[query.q][storage[id[a]]]
                      /\ id[a] \in query.sel \cup {stray}
  PROVE  Promise!Acceptable(Padded([i \in DOMAIN list |-> id[list[i]]], query.k))
<1> DEFINE n == Cardinality(S)
           ids == [i \in DOMAIN list |-> id[list[i]]]
<1>1. n \in Nat
  BY FS_CardinalityType
<1>2. /\ list \in [1 .. n -> S] /\ IsInjective(list)
      /\ \A i, j \in 1 .. n : i < j => far[list[i]] <= far[list[j]]
  BY DEF Rankings
<1>3. ids \in [1 .. n -> 1 .. ntotal]
  BY <1>2
<1>4. \A i, j \in 1 .. n : i < j =>
        /\ ids[i] # ids[j]
        /\ Dist[query.q][storage[ids[i]]] <= Dist[query.q][storage[ids[j]]]
  <2> SUFFICES ASSUME NEW i \in 1 .. n, NEW j \in 1 .. n, i < j
               PROVE  /\ id[list[i]] # id[list[j]]
                      /\ Dist[query.q][storage[id[list[i]]]]
                           <= Dist[query.q][storage[id[list[j]]]]
    BY <1>2
  <2>1. list[i] # list[j]
    BY <1>1, <1>2 DEF IsInjective
  <2> QED
    BY <1>2, <2>1
<1>5. \A i \in 1 .. n : ids[i] \in query.sel \cup {stray}
  BY <1>2
<1> HIDE DEF ids
<1> QED
  BY <1>1, <1>3, <1>4, <1>5, PaddedAcceptable DEF SearchInv, ids

LEMMA Asked ==
  ASSUME SearchInv, query.state \in {"exact", "graph"},
         query' = [query EXCEPT !.state = "answered"], UNCHANGED vars,
         Promise!Acceptable(labels')
  PROVE  Promise!Answer
<1>1. query \in Queries /\ UNCHANGED <<storage, ntotal>>
  BY DEF SearchInv, vars, indexVars
<1>2. query'.state = "answered"
  BY <1>1 DEF Queries
<1> QED
  BY <1>1, <1>2 DEF Promise!Answer, Queries

LEMMA StorageSearchKeeps ==
  ASSUME SearchInv, Posed, StorageSearch
  PROVE  Promise!Answer
<1> DEFINE S == query.sel
           far == FarFrom(query.q, S)
           id == [a \in S |-> a]
<1>1. query.state = "exact" /\ query.sel \in SUBSET (1 .. ntotal)
      /\ query' = [query EXCEPT !.state = "answered"] /\ UNCHANGED vars
  BY DEF StorageSearch, Posed
<1>2. PICK list \in Rankings(far) : labels' = Padded(list, query.k)
  BY DEF StorageSearch
<1>3. IsFiniteSet(S)
  <2>1. ntotal \in Nat
    BY DEF SearchInv, IInv, TypeOK
  <2>2. IsFiniteSet(1 .. ntotal)
    BY <2>1, FS_Interval
  <2> QED
    BY <1>1, <2>2, FS_Subset
<1>4. /\ id \in [S -> 1 .. ntotal] /\ DOMAIN far = S
      /\ \A a, b \in S : id[a] = id[b] => a = b
      /\ \A a \in S : /\ far[a] = Dist[query.q][storage[id[a]]]
                      /\ id[a] \in query.sel \cup {NoLabel}
  BY <1>1 DEF FarFrom
<1>5. [i \in DOMAIN list |-> id[list[i]]] = list
  BY DEF Rankings, FarFrom
<1> HIDE DEF far, id, S
<1>6. Promise!Acceptable(Padded([i \in DOMAIN list |-> id[list[i]]], query.k))
  BY <1>1, <1>2, <1>3, <1>4, Listed
<1> QED
  BY <1>1, <1>2, <1>5, <1>6, Asked

LEMMA searchSingleKeeps ==
  ASSUME SearchInv, Posed, Shared, Once, searchSingle
  PROVE  Promise!Answer
<1> DEFINE far == [n \in Results |-> DistTo(0, query.q, n)]
           id == [n \in Results |-> LabelOf(n)]
<1>1. /\ query.state = "graph" /\ layer = 0 /\ UNCHANGED vars
      /\ query' = [query EXCEPT !.state = "answered"]
  BY DEF searchSingle, LayerDone
<1>2. PICK list \in Rankings(far) :
        labels' = Padded([i \in DOMAIN list |-> LabelOf(list[i])], query.k)
  BY DEF searchSingle
<1>3. /\ Results \in SUBSET (1 .. Len(indexes[0])) /\ Results \subseteq met
      /\ indexes[0] \in Seq(Nat) /\ Len(indexes[0]) \in Nat
  <2>1. 0 \in Layers
    BY TopLayerType DEF Layers
  <2>2. indexes[0] \in Seq(Nat) /\ Len(indexes[0]) \in Nat
    BY <2>1 DEF SearchInv, IInv, TypeOK
  <2>3. Results \subseteq met
    BY DEF Results, NearestOf
  <2>4. met \subseteq 1 .. Len(indexes[0])
    BY <1>1 DEF SearchInv, Searching, Nodes
  <2> QED
    BY <2>2, <2>3, <2>4
<1>4. IsFiniteSet(Results)
  <2>1. IsFiniteSet(1 .. Len(indexes[0]))
    BY <1>3, FS_Interval
  <2> QED
    BY <1>3, <2>1, FS_Subset
<1>5. ToSet(indexes[0]) = 1 .. ntotal /\ IsInjective(indexes[0])
  BY <1>1, NothingOwed DEF SearchInv, Posed, EveryVectorIndexed, Once
<1>6. /\ id \in [Results -> 1 .. ntotal] /\ DOMAIN far = Results
      /\ \A a, b \in Results : id[a] = id[b] => a = b
  BY <1>3, <1>5 DEF LabelOf, ToSet, IsInjective
<1>7. \A a \in Results : /\ far[a] = Dist[query.q][storage[id[a]]]
                         /\ id[a] \in query.sel \cup {EntryVector}
  BY <1>1, <1>3 DEF LabelOf, DistTo, VectorOf, SearchInv, Searching
<1>8. [i \in DOMAIN list |-> id[list[i]]] = [i \in DOMAIN list |-> LabelOf(list[i])]
  BY DEF Rankings
<1> HIDE DEF far, id
<1>9. Promise!Acceptable(Padded([i \in DOMAIN list |-> id[list[i]]], query.k))
  BY <1>1, <1>4, <1>6, <1>7, Listed
<1> QED
  BY <1>1, <1>2, <1>8, <1>9, Asked

\* What holds of the index, of its threads and of the query together.
Whole == SearchInv /\ Posed /\ Shared /\ Once

LEMMA InitWhole == InitSearch => Whole
<1> SUFFICES ASSUME InitSearch PROVE Whole
  OBVIOUS
<1>1. SearchInv /\ Shared /\ Once
  BY InitSearchInv, InitOnce DEF InitSearch
<1>2. query.state = "idle"
  BY DEF InitSearch, NoQuery
<1> QED
  BY <1>1, <1>2 DEF Whole, Posed

LEMMA NextWhole == Whole /\ [NextSearch]_<<vars, searchVars>> => Whole'
<1> SUFFICES ASSUME Whole, [NextSearch]_<<vars, searchVars>>
             PROVE  Whole'
  OBVIOUS
<1>1. SearchInv /\ Posed /\ Shared /\ Once /\ IInv
  BY DEF Whole, SearchInv
<1>2. SearchInv'
  BY <1>1, NextSearchInv
<1>3. [Next]_vars
  BY DEF NextSearch, SearchStep, search, StorageSearch, searchLayer, Descend,
         searchSingle, Return
<1>4. Shared' /\ Once'
  BY <1>1, <1>3, NextOnce
<1>5. Posed'
  <2>1. CASE query.state = "idle" /\ Next /\ UNCHANGED searchVars
    BY <2>1 DEF searchVars, Posed
  <2>2. CASE search
    <3>1. Quiescent' /\ ntotal' = ntotal
      BY <2>2 DEF search, Quiescent, vars, indexVars
    <3>2. /\ query'.q \in Points /\ query'.k \in Ks
          /\ query'.sel \in SUBSET (1 .. ntotal)
      BY <2>2 DEF search
    <3> QED
      BY <3>1, <3>2 DEF Posed
  <2>3. CASE StorageSearch \/ searchLayer \/ Descend \/ searchSingle
             \/ UNCHANGED <<vars, searchVars>>
    <3>1. UNCHANGED <<ntotal, storage>>
      BY <2>3 DEF StorageSearch, searchLayer, Descend, searchSingle, vars, indexVars
    <3>2. \/ query' = query
          \/ query.state # "idle" /\ query' = [query EXCEPT !.state = "answered"]
      BY <2>3 DEF StorageSearch, searchLayer, Descend, searchSingle, LayerDone, searchVars
    <3>3. /\ query.state # "idle" \/ query' = query
          /\ query'.q = query.q /\ query'.k = query.k /\ query'.sel = query.sel
      BY <1>1, <3>2 DEF SearchInv, Queries
    <3> QED
      BY <1>1, <3>1, <3>3 DEF Posed, Quiescent
  <2>4. CASE Return
    BY <2>4 DEF Return, NoQuery, Posed
  <2> QED
    BY <2>1, <2>2, <2>3, <2>4 DEF NextSearch, SearchStep
<1> QED
  BY <1>2, <1>4, <1>5 DEF Whole

\* Only the client's thread adds to the storage and moves ntotal.
LEMMA ThreadKeepsVectors ==
  ASSUME NEW t \in Threads, ThreadStep(t)
  PROVE  UNCHANGED <<storage, ntotal>>
<1>1. CASE Claim(t)
  BY <1>1 DEF Claim
<1>2. CASE ReadMaxLayer(t) \/ addNode(t) \/ Expand(t) \/ DescendEnd(t) \/ ReadTop(t)
  BY <1>2 DEF ReadMaxLayer, addNode, Expand, DescendEnd, ReadTop, indexVars
<1>3. CASE Remap(t) \/ RemapEnd(t) \/ SearchEnd(t) \/ LinkIn(t) \/ LinkBack(t)
  BY <1>3 DEF Remap, RemapEnd, SearchEnd, LinkIn, LinkBack, indexVars
<1>4. CASE ReadNeighbors(t) \/ Check(t) \/ NextLayer(t) \/ ReadLast(t) \/ PopLast(t)
  BY <1>4 DEF ReadNeighbors, Check, NextLayer, ReadLast, PopLast, indexVars
<1>5. CASE twoHopPruning(t) \/ TwoHopScan(t) \/ TwoHopWrite(t) \/ Unlink(t) \/ UnlinkEnd(t)
  BY <1>5 DEF twoHopPruning, TwoHopScan, TwoHopWrite, Unlink, UnlinkEnd, indexVars
<1> QED
  BY <1>1, <1>2, <1>3, <1>4, <1>5 DEF ThreadStep, addSingle

\* What add() and reset() do is one Add, one Reset or invisible: the threads
\* work between the two lines that show a batch to the client.
LEMMA BuildKeeps ==
  ASSUME IInv, IInv', query.state = "idle", Next, UNCHANGED searchVars
  PROVE  [Promise!Next]_(Promise!vars)
<1> DEFINE stored == SubSeq(storage, 1, ntotal)
           asked == IF query.state \in {"exact", "graph"}
                    THEN [query EXCEPT !.state = "asked"] ELSE query
<1>1. /\ storage \in Seq(Points) /\ storage' \in Seq(Points)
      /\ ntotal \in Nat /\ ntotal' \in Nat
      /\ ntotal <= Len(storage) /\ ntotal' <= Len(storage')
  <2>1. /\ TypeOK /\ TypeOK' /\ TeamAtRest /\ TeamAtRest'
    BY DEF IInv
  <2>2. claimed \in Nat /\ claimed' \in Nat
    BY <2>1 DEF TypeOK
  <2> QED
    BY <2>1, <2>2 DEF TypeOK, TeamAtRest
<1>2. asked' = asked /\ asked.state = "idle" /\ asked = query /\ labels' = labels
  BY DEF searchVars
<1> HIDE DEF asked
<1>3. CASE Add
  <2>1. ntotal' = ntotal /\ Quiescent /\ \E rest \in Seq(Points) : storage' = storage \o rest
    <3>1. PICK n \in BatchSizes :
            \E batch \in [1 .. n -> Points \ ToSet(storage)] : storage' = storage \o batch
      BY <1>3 DEF Add
    <3>2. PICK batch \in [1 .. n -> Points \ ToSet(storage)] : storage' = storage \o batch
      BY <3>1
    <3>3. n \in Nat
      BY ParameterAssumption
    <3>4. batch \in Seq(Points)
      BY <3>3
    <3> QED
      BY <1>3, <3>2, <3>4 DEF Add
  <2>2. stored' = stored
    BY <1>1, <2>1 DEF Quiescent
  <2> QED
    BY <1>2, <2>2 DEF Promise!vars, asked
<1>4. CASE AddEnd
  <2>1. ntotal' = Len(storage) /\ storage' = storage
    BY <1>4 DEF AddEnd
  <2>2. /\ stored \in Seq(Points) /\ stored' = storage /\ Len(stored) = ntotal
        /\ \A i \in 1 .. ntotal : stored[i] = storage[i]
    BY <1>1, <2>1
  <2>3. Len(stored) <= Len(stored') /\ SubSeq(stored', 1, Len(stored)) = stored
    BY <1>1, <2>2
  <2>4. SubSeq(stored, 1, Len(stored)) = stored
    BY <2>2
  <2>5. Promise!IsPrefix(stored, stored')
    <3> HIDE DEF stored
    <3> QED BY <2>3, <2>4 DEF Promise!IsPrefix
  <2>6. Promise!ToSet(stored') \subseteq Points
    BY <1>1, <2>2 DEF Promise!ToSet
  <2>7. CASE stored' = stored
    BY <1>2, <2>7 DEF Promise!vars, asked
  <2>8. CASE stored' # stored
    <3> DEFINE answer == labels
    <3>1. Promise!Add
      BY <1>2, <2>5, <2>6, <2>8 DEF Promise!Add, asked
    <3> QED BY <3>1 DEF Promise!Next
  <2> QED BY <2>7, <2>8
<1>5. CASE reset
  <2>1. stored' = <<>>
    BY <1>5 DEF reset
  <2> QED
    BY <1>2, <2>1 DEF Promise!Next, Promise!Reset, asked
<1>6. CASE Undefined \/ \E t \in Threads : ThreadStep(t)
  <2>1. UNCHANGED <<storage, ntotal>>
    BY <1>6, ThreadKeepsVectors DEF Undefined, vars, indexVars
  <2> QED
    BY <1>2, <2>1 DEF Promise!vars, asked
<1> QED
  BY <1>3, <1>4, <1>5, <1>6 DEF Next

LEMMA SearchKeeps ==
  ASSUME Whole, SearchStep \/ UNCHANGED <<vars, searchVars>>
  PROVE  [Promise!Next]_(Promise!vars)
<1> DEFINE stored == SubSeq(storage, 1, ntotal)
<1>1. /\ SearchInv /\ Posed /\ Shared /\ Once
      /\ storage \in Seq(Points) /\ ntotal \in Nat
  BY DEF Whole, SearchInv, IInv, TypeOK
<1>2. CASE search
  <2>1. /\ query.state = "idle" /\ UNCHANGED <<storage, ntotal, labels>> /\ ntotal = Len(storage)
    BY <1>2 DEF search, Quiescent, vars, indexVars
  <2>2. PICK q \in Points, sel \in SUBSET (1 .. ntotal), k \in Ks, way \in {"exact", "graph"} :
          query' = [state |-> way, q |-> q, sel |-> sel, k |-> k]
    BY <1>2 DEF search
  <2>3. DOMAIN stored = 1 .. ntotal
    BY <1>1, <2>1
  <2>4. [query' EXCEPT !.state = "asked"] = [state |-> "asked", q |-> q, sel |-> sel, k |-> k]
    BY <2>2
  <2>5. query'.state = way
    BY <2>2
  <2>6. Promise!Ask
    BY <2>1, <2>2, <2>3, <2>4, <2>5 DEF Promise!Ask
  <2> QED
    BY <2>6 DEF Promise!Next
<1>3. CASE StorageSearch
  BY <1>1, <1>3, StorageSearchKeeps DEF Promise!Next
<1>4. CASE searchSingle
  BY <1>1, <1>4, searchSingleKeeps DEF Promise!Next
<1>5. CASE searchLayer \/ Descend \/ UNCHANGED <<vars, searchVars>>
  <2>1. UNCHANGED <<storage, ntotal, query, labels>>
    BY <1>5 DEF searchLayer, Descend, vars, indexVars, searchVars
  <2> QED
    BY <2>1 DEF Promise!vars
<1>6. CASE Return
  <2>1. query.state = "answered" /\ query' = NoQuery /\ labels' = <<>>
        /\ UNCHANGED <<storage, ntotal>>
    BY <1>6 DEF Return, vars, indexVars
  <2> QED
    BY <2>1 DEF Promise!Next, Promise!Take, Promise!NoQuery, NoQuery
<1> QED
  BY <1>2, <1>3, <1>4, <1>5, <1>6 DEF SearchStep

LEMMA PromiseInit == InitSearch => Promise!Init
<1> SUFFICES ASSUME InitSearch PROVE Promise!Init
  OBVIOUS
<1>1. storage = <<>> /\ ntotal = 0 /\ query = NoQuery /\ labels = <<>>
  BY DEF InitSearch, Init
<1>2. SubSeq(storage, 1, ntotal) = <<>>
  BY <1>1
<1> QED
  BY <1>1, <1>2 DEF Promise!Init, Promise!NoQuery, NoQuery

\* IndexAcorn is an AnnIndex with one stray label, for every team of threads,
\* metric without ties, M, gamma, Mbeta and efSearch: a client sees a batch when
\* add() returns, and each list search() gives it holds distinct stored ids in
\* order of distance, none against the filter but the entry point's.
THEOREM PromiseKept == SearchSpec => KeepsPromise
<1>1. SearchSpec => []Whole
  BY InitWhole, NextWhole, PTL DEF SearchSpec
<1>2. Whole /\ Whole' /\ [NextSearch]_<<vars, searchVars>> => [Promise!Next]_(Promise!vars)
  <2> SUFFICES ASSUME Whole, Whole', [NextSearch]_<<vars, searchVars>>
               PROVE  [Promise!Next]_(Promise!vars)
    OBVIOUS
  <2>1. IInv /\ IInv'
    BY DEF Whole, SearchInv
  <2>2. CASE query.state = "idle" /\ Next /\ UNCHANGED searchVars
    BY <2>1, <2>2, BuildKeeps
  <2>3. CASE SearchStep \/ UNCHANGED <<vars, searchVars>>
    BY <2>3, SearchKeeps
  <2> QED
    BY <2>2, <2>3 DEF NextSearch
<1>3. SearchSpec => [][Promise!Next]_(Promise!vars)
  BY <1>1, <1>2, PTL DEF SearchSpec
<1> QED
  BY <1>3, PromiseInit, PTL DEF SearchSpec, KeepsPromise, Promise!Spec
===============================================================================
