------------------------------ MODULE GraphStats ------------------------------
(***************************************************************************)
(* HierarchicalGraph::getConnectedComponents, which reports the components *)
(* of each layer of the graph that add() has built.  The client calls it    *)
(* between add() and the searches, never during either.                    *)
(***************************************************************************)
EXTENDS AcornSearch

\* The nodes that steps along next reach from i, none of them in seen.
Spread(i, seen, next) ==
  LET grow[k \in 0 .. MaxVecs] ==
        IF k = 0 THEN {i}
        ELSE grow[k-1] \cup ((UNION {next[n] : n \in grow[k-1]}) \ seen)
  IN grow[MaxVecs]

\* The walk from node i over the edges that leave a node.
Walk(l, i, seen) == Spread(i, seen, [n \in Nodes(l) |-> ToSet(graph[l][n])])

\* The starts of walks, in node order, with the component each one finds.
\* Mutant: visited is cleared before every node.
NodeByNode(l) == {<<i, Walk(l, i, {})>> : i \in Nodes(l)}
Components(l) ==
  LET visited_upto[i \in 0 .. Len(graph[l])] ==
        IF i = 0 THEN {}
        ELSE IF i \in visited_upto[i-1] THEN visited_upto[i-1]
        ELSE visited_upto[i-1] \cup Walk(l, i, visited_upto[i-1])
  IN {<<i, Walk(l, i, visited_upto[i-1])>> :
        i \in {n \in Nodes(l) : n \notin visited_upto[n-1]}}

MaxSize(sets) == Max({Cardinality(S) : S \in sets})

getConnectedComponents(l) ==
  [num_components |-> Cardinality(Components(l)),
   largest_component_size |-> MaxSize({c[2] : c \in Components(l)}),
   isolated_nodes |-> Cardinality({n \in Nodes(l) : graph[l][n] = <<>>})]

-----------------------------------------------------------------------------
\* The nodes connected with n, whichever way the edges go.
Connected(l, n) ==
  Spread(n, {}, [a \in Nodes(l) |-> {b \in Nodes(l) : \/ Contains(graph[l][a], b)
                                                      \/ Contains(graph[l][b], a)}])

\* What is reported of a layer whose edges were all made and pruned in pairs
\* are its components in the undirected sense: the walks follow edges one way
\* only, and a node they leave out would be counted as one more component.
ComponentsCounted ==
  Quiescent /\ query.state = "idle" => \A l \in 0 .. layers - 1 :
    getConnectedComponents(l) =
      [num_components |-> Cardinality({Connected(l, n) : n \in Nodes(l)}),
       largest_component_size |-> MaxSize({Connected(l, n) : n \in Nodes(l)}),
       isolated_nodes |-> Cardinality({n \in Nodes(l) : Connected(l, n) = {n}})]
===============================================================================
