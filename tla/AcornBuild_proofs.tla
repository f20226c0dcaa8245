-------------------------- MODULE AcornBuild_proofs --------------------------
(***************************************************************************)
(* TLAPS proofs about AcornBuild, for every set of threads and points and  *)
(* every value of the parameters: IInv is an inductive invariant, so the   *)
(* graph keeps its shape and no thread uses a node number that names no    *)
(* node, whatever the interleaving.                                        *)
(***************************************************************************)
EXTENDS AcornBuild, TLAPS

(***************************************************************************)
(* Sequences.                                                              *)
(***************************************************************************)

\* vector::insert of an element of S leaves a list over S (find_index gives a
\* position from the first to one past the last).
LEMMA InsertAtType ==
  ASSUME NEW S, NEW s \in Seq(S), NEW e \in S, NEW i \in 1 .. Len(s) + 1
  PROVE  InsertAt(s, i, e) \in Seq(S)
BY DEF InsertAt

\* removeDirectedEdge adds no element to a list.
LEMMA ErasedType ==
  ASSUME NEW S, NEW s \in Seq(S), NEW n, NEW r \in Erased(s, n)
  PROVE  r \in Seq(S)
<1>1. CASE Contains(s, n)
  <2>1. PICK i \in DOMAIN s : r = RemoveAt(s, i)
    BY <1>1 DEF Erased
  <2>2. i \in 1 .. Len(s)
    BY <2>1
  <2> QED
    BY <2>1, <2>2 DEF RemoveAt
<1>2. CASE ~ Contains(s, n)
  BY <1>2 DEF Erased
<1> QED
  BY <1>1, <1>2

LEMMA FrontType ==
  ASSUME NEW S, NEW s \in Seq(S), s # <<>>
  PROVE  Front(s) \in Seq(S) /\ Last(s) \in S
BY DEF Front, Last

LEMMA TailType ==
  ASSUME NEW S, NEW s \in Seq(S), s # <<>>
  PROVE  Head(s) \in S /\ Tail(s) \in Seq(S)
OBVIOUS

\* The elements read from a list over S are in S.
LEMMA PrefixElements ==
  ASSUME NEW S, NEW s \in Seq(S), NEW k
  PROVE  {s[i] : i \in {m \in DOMAIN s : m <= k}} \subseteq S
OBVIOUS

LEMMA SeqIsMonotonic ==
  ASSUME NEW S, NEW T, S \subseteq T
  PROVE  Seq(S) \subseteq Seq(T)
OBVIOUS

(***************************************************************************)
(* What a step that leaves part of the state alone preserves.              *)
(***************************************************************************)

Struct == layers' = layers /\ indexes' = indexes /\ down' = down

\* Steps that do not touch the graph keep its shape.
LEMMA GraphFrame ==
  ASSUME UNCHANGED graphVars, LayersNested, EdgesSound
  PROVE  LayersNested' /\ EdgesSound' /\ Struct
BY DEF graphVars, LayersNested, EdgesSound, Nodes, Struct

\* Steps that replace adjacency lists of nodes by lists of other nodes of the
\* layer keep the shape of the graph.
LEMMA ListWrite ==
  ASSUME Struct, TypeOK, LayersNested,
         graph' \in [Layers -> Seq(Seq(Nat))],
         \A l \in Layers : Len(graph'[l]) = Len(graph[l]),
         \A l \in Layers : \A n \in Nodes(l) : graph'[l][n] \in Seq(Nodes(l) \ {n})
  PROVE  LayersNested' /\ EdgesSound'
BY DEF Struct, LayersNested, EdgesSound, Nodes

\* The list of one node is replaced.
LEMMA OneListWrite ==
  ASSUME Struct, TypeOK, LayersNested, EdgesSound,
         NEW l \in Layers, NEW n \in Nodes(l), NEW s \in Seq(Nodes(l) \ {n}),
         graph' = [graph EXCEPT ![l][n] = s]
  PROVE  LayersNested' /\ EdgesSound' /\ graph' \in [Layers -> Seq(Seq(Nat))]
<1>1. graph \in [Layers -> Seq(Seq(Nat))] /\ n \in 1 .. Len(graph[l])
  BY DEF TypeOK, LayersNested, Nodes
<1>2. s \in Seq(Nat)
  <2>1. Nodes(l) \ {n} \subseteq Nat
    BY DEF Nodes
  <2> QED
    BY <2>1, SeqIsMonotonic
<1>3. graph'[l] = [graph[l] EXCEPT ![n] = s]
  BY <1>1
<1>4. graph'[l] \in Seq(Seq(Nat)) /\ Len(graph'[l]) = Len(graph[l])
  BY <1>1, <1>2, <1>3
<1>5. graph' \in [Layers -> Seq(Seq(Nat))]
  BY <1>1, <1>4
<1>6. \A k \in Layers : Len(graph'[k]) = Len(graph[k])
  BY <1>1, <1>4
<1>7. \A k \in Layers : \A m \in Nodes(k) : graph'[k][m] \in Seq(Nodes(k) \ {m})
  <2> TAKE k \in Layers
  <2> TAKE m \in Nodes(k)
  <2>1. CASE k = l /\ m = n
    BY <1>1, <1>3, <2>1
  <2>2. CASE ~ (k = l /\ m = n)
    <3>1. graph'[k][m] = graph[k][m]
      BY <1>1, <1>3, <2>2 DEF LayersNested, Nodes
    <3> QED
      BY <3>1 DEF EdgesSound
  <2> QED
    BY <2>1, <2>2
<1> QED
  BY <1>5, <1>6, <1>7, ListWrite

\* The lists of two nodes of a layer are replaced.
LEMMA TwoListsWrite ==
  ASSUME Struct, TypeOK, LayersNested, EdgesSound,
         NEW l \in Layers, NEW n \in Nodes(l), NEW s \in Seq(Nodes(l) \ {n}),
         NEW m \in Nodes(l), NEW r \in Seq(Nodes(l) \ {m}), n # m,
         graph' = [graph EXCEPT ![l][n] = s, ![l][m] = r]
  PROVE  LayersNested' /\ EdgesSound' /\ graph' \in [Layers -> Seq(Seq(Nat))]
<1>1. /\ graph \in [Layers -> Seq(Seq(Nat))]
      /\ n \in 1 .. Len(graph[l]) /\ m \in 1 .. Len(graph[l])
  BY DEF TypeOK, LayersNested, Nodes
<1>2. s \in Seq(Nat) /\ r \in Seq(Nat)
  <2>1. Nodes(l) \ {n} \subseteq Nat /\ Nodes(l) \ {m} \subseteq Nat
    BY DEF Nodes
  <2> QED
    BY <2>1, SeqIsMonotonic
<1>3. graph'[l] = [[graph[l] EXCEPT ![n] = s] EXCEPT ![m] = r]
  BY <1>1
<1>4. /\ graph'[l] \in Seq(Seq(Nat)) /\ Len(graph'[l]) = Len(graph[l])
      /\ graph'[l][n] = s /\ graph'[l][m] = r
      /\ \A k \in 1 .. Len(graph[l]) : k # n /\ k # m => graph'[l][k] = graph[l][k]
  BY <1>1, <1>2, <1>3
<1>5. \A k \in Layers \ {l} : graph'[k] = graph[k]
  BY <1>1
<1>6. graph' \in [Layers -> Seq(Seq(Nat))]
  BY <1>1, <1>4, <1>5
<1>7. \A k \in Layers : Len(graph'[k]) = Len(graph[k])
  BY <1>4, <1>5
<1>8. \A k \in Layers : \A x \in Nodes(k) : graph'[k][x] \in Seq(Nodes(k) \ {x})
  <2> TAKE k \in Layers
  <2> TAKE x \in Nodes(k)
  <2>1. CASE k = l /\ x \in {n, m}
    BY <1>4, <2>1
  <2>2. CASE ~ (k = l /\ x \in {n, m})
    <3>1. graph'[k][x] = graph[k][x]
      BY <1>4, <1>5, <2>2 DEF LayersNested, Nodes
    <3> QED
      BY <3>1 DEF EdgesSound
  <2> QED
    BY <2>1, <2>2
<1> QED
  BY <1>6, <1>7, <1>8, ListWrite

\* A thread keeps what it holds while another steps and the layers stay.
LEMMA ThreadFrame ==
  ASSUME NEW u, Struct, JobNodesExist(u), ReadNodesExist(u),
         pc'[u] = pc[u], job'[u] = job[u],
         visited'[u] = visited[u], expanded'[u] = expanded[u],
         cands'[u] = cands[u], nbrs'[u] = nbrs[u], peer'[u] = peer[u],
         hop'[u] = hop[u]
  PROVE  JobNodesExist(u)' /\ ReadNodesExist(u)'
BY DEF Struct, JobNodesExist, ReadNodesExist, Nodes, FirstLinkedLayer

\* A thread in the middle of an insertion keeps add and reset out.
LEMMA BusyTeam ==
  ASSUME TeamAtRest, NEW t \in Threads, pc[t] # "idle", UNCHANGED indexVars
  PROVE  TeamAtRest'
BY DEF TeamAtRest, Quiescent, indexVars

\* Every thread but t stays where it is.
OthersKeep(t) ==
  \A u \in Threads \ {t} :
    /\ pc'[u] = pc[u] /\ job'[u] = job[u]
    /\ visited'[u] = visited[u] /\ expanded'[u] = expanded[u]
    /\ cands'[u] = cands[u] /\ nbrs'[u] = nbrs[u]
    /\ peer'[u] = peer[u] /\ hop'[u] = hop[u]

\* What remains to show of a step of t that leaves the layers alone.
LEMMA ThreadStepInv ==
  ASSUME IInv, NEW t \in Threads, Struct, OthersKeep(t), TypeOK',
         LayersNested', EdgesSound', TeamAtRest',
         JobNodesExist(t)', ReadNodesExist(t)'
  PROVE  IInv'
<1>1. HeldNodesExist'
  <2> SUFFICES ASSUME NEW u \in Threads, u # t
               PROVE  JobNodesExist(u)' /\ ReadNodesExist(u)'
    BY DEF HeldNodesExist
  <2> QED
    BY ThreadFrame DEF IInv, HeldNodesExist, OthersKeep
<1> QED
  BY <1>1 DEF IInv

\* Updating one thread's entry of a table of locals.
LEMMA Update ==
  ASSUME NEW S, NEW f \in [Threads -> S], NEW t \in Threads, NEW v \in S,
         NEW g, g = [f EXCEPT ![t] = v]
  PROVE  /\ g \in [Threads -> S] /\ g[t] = v
         /\ \A u \in Threads \ {t} : g[u] = f[u]
OBVIOUS

\* The types of the locals of one thread.
LEMMA LocalTypes ==
  ASSUME TypeOK, NEW t \in Threads
  PROVE  /\ job[t] \in Jobs /\ hop[t] \in Hops /\ pc[t] \in Labels
         /\ job[t].vec \in Nat /\ job[t].top \in Layers /\ job[t].assigned \in Layers
         /\ job[t].node \in Nat /\ job[t].entry \in Nat /\ job[t].layer \in Layers
         /\ chunk[t] \in Seq(Nat) /\ nbrs[t] \in Seq(Nat) /\ peer[t] \in Nat
         /\ visited[t] \subseteq Nat /\ expanded[t] \subseteq Nat /\ cands[t] \subseteq Nat
<1>1. /\ job[t] \in Jobs /\ hop[t] \in Hops /\ pc[t] \in Labels
      /\ chunk[t] \in Seq(Nat) /\ nbrs[t] \in Seq(Nat) /\ peer[t] \in Nat
      /\ visited[t] \in SUBSET Nat /\ expanded[t] \in SUBSET Nat /\ cands[t] \in SUBSET Nat
  BY DEF TypeOK
<1> QED
  BY <1>1 DEF Jobs

LEMMA TopLayerType == TopLayer \in Nat
BY ParameterAssumption

(***************************************************************************)
(* The steps before the first link.                                        *)
(***************************************************************************)

LEMMA ReadMaxLayerInv ==
  ASSUME IInv, NEW t \in Threads, ReadMaxLayer(t)
  PROVE  IInv'
<1> DEFINE j == NewJob(Head(chunk[t]), getMaxLayer)
<1>1. TypeOK /\ LayersNested /\ EdgesSound /\ HeldNodesExist /\ TeamAtRest
  BY DEF IInv
<1>2. /\ pc[t] = "idle" /\ chunk[t] # <<>>
      /\ job' = [job EXCEPT ![t] = j]
      /\ chunk' = [chunk EXCEPT ![t] = Tail(chunk[t])]
      /\ pc' = [pc EXCEPT ![t] = "addNode"]
      /\ UNCHANGED <<indexVars, graphVars, visited, expanded, cands, nbrs, peer, hop>>
  BY DEF ReadMaxLayer, Goto
<1>3. getMaxLayer \in Layers /\ (getMaxLayer = 0 \/ getMaxLayer < layers)
  BY <1>1, ParameterAssumption DEF getMaxLayer, Layers, TypeOK
<1>4. j \in Jobs /\ j.top = getMaxLayer
  <2>1. Head(chunk[t]) \in Nat
    BY <1>1, <1>2, LocalTypes
  <2> QED
    BY <2>1, <1>3, TopLayerType DEF NewJob, Jobs, Layers
<1> HIDE DEF j
<1>5. /\ job' \in [Threads -> Jobs] /\ job'[t] = j
      /\ pc' \in [Threads -> Labels] /\ pc'[t] = "addNode"
      /\ chunk' \in [Threads -> Seq(Nat)]
  <2>1. Tail(chunk[t]) \in Seq(Nat) /\ "addNode" \in Labels
    BY <1>1, <1>2, LocalTypes DEF Labels
  <2> QED
    BY <2>1, <1>1, <1>2, <1>4, Update DEF TypeOK
<1>6. TypeOK'
  BY <1>1, <1>2, <1>5 DEF TypeOK, indexVars, graphVars
<1>7. OthersKeep(t)
  BY <1>1, <1>2 DEF OthersKeep, TypeOK
<1>8. Struct /\ LayersNested' /\ EdgesSound'
  BY <1>1, <1>2, GraphFrame
<1>9. TeamAtRest'
  <2>1. ~ Quiescent
    BY <1>1, <1>2 DEF TeamAtRest
  <2> QED
    BY <2>1, <1>1, <1>2 DEF TeamAtRest, Quiescent, indexVars
<1>10. JobNodesExist(t)' /\ ReadNodesExist(t)'
  BY <1>3, <1>4, <1>5, <1>8 DEF JobNodesExist, ReadNodesExist, Linking, Pruning, Struct
<1> QED
  BY <1>6, <1>7, <1>8, <1>9, <1>10, ThreadStepInv

LEMMA ExpandInv ==
  ASSUME IInv, NEW t \in Threads, Expand(t)
  PROVE  IInv'
<1> DEFINE l == job[t].layer
<1>1. TypeOK /\ LayersNested /\ EdgesSound /\ HeldNodesExist /\ TeamAtRest
  BY DEF IInv
<1>2. /\ pc[t] \in {"descend", "search"}
      /\ UNCHANGED <<indexVars, graphVars, pc, chunk, job, cands, nbrs, peer, hop>>
  BY DEF Expand
<1>3. PICK n \in Best(l, Query(t), Frontier(t)) :
        /\ visited' = [visited EXCEPT ![t] =
             @ \cup {graph[l][n][i] : i \in {k \in DOMAIN graph[l][n] : k <= M}}]
        /\ expanded' = [expanded EXCEPT ![t] = @ \cup {n}]
  BY DEF Expand
<1> DEFINE seen == {graph[l][n][i] : i \in {k \in DOMAIN graph[l][n] : k <= M}}
<1>4. visited[t] \subseteq Nodes(l) /\ expanded[t] \subseteq Nodes(l) /\ l \in Layers
  BY <1>1, <1>2, LocalTypes DEF HeldNodesExist, ReadNodesExist
<1>5. n \in Nodes(l) /\ Nodes(l) \subseteq Nat
  BY <1>3, <1>4 DEF Best, Frontier, NearestOf, Nodes
<1>6. seen \subseteq Nodes(l)
  <2>1. graph[l][n] \in Seq(Nodes(l) \ {n})
    BY <1>1, <1>4, <1>5 DEF EdgesSound
  <2>2. seen \subseteq Nodes(l) \ {n}
    BY <2>1, PrefixElements
  <2> QED
    BY <2>2
<1>7. /\ visited' = [visited EXCEPT ![t] = visited[t] \cup seen]
      /\ expanded' = [expanded EXCEPT ![t] = expanded[t] \cup {n}]
  BY <1>3
<1> HIDE DEF seen
<1>8. /\ visited' \in [Threads -> SUBSET Nat] /\ visited'[t] \subseteq Nodes(l)
      /\ expanded' \in [Threads -> SUBSET Nat] /\ expanded'[t] \subseteq Nodes(l)
      /\ \A u \in Threads \ {t} : visited'[u] = visited[u] /\ expanded'[u] = expanded[u]
  <2>1. /\ visited \in [Threads -> SUBSET Nat] /\ visited[t] \cup seen \in SUBSET Nat
        /\ expanded \in [Threads -> SUBSET Nat] /\ expanded[t] \cup {n} \in SUBSET Nat
    BY <1>1, <1>4, <1>5, <1>6 DEF TypeOK
  <2> QED
    BY <2>1, <1>4, <1>5, <1>6, <1>7
<1>9. TypeOK'
  BY <1>1, <1>2, <1>8 DEF TypeOK, indexVars, graphVars
<1>10. OthersKeep(t)
  BY <1>2, <1>8 DEF OthersKeep
<1>11. Struct /\ LayersNested' /\ EdgesSound' /\ TeamAtRest'
  BY <1>1, <1>2, GraphFrame, BusyTeam
<1>12. JobNodesExist(t)' /\ ReadNodesExist(t)'
  BY <1>1, <1>2, <1>8, <1>11 DEF JobNodesExist, ReadNodesExist, HeldNodesExist,
     Linking, Pruning, Struct, Nodes, FirstLinkedLayer
<1> QED
  BY <1>9, <1>10, <1>11, <1>12, ThreadStepInv

\* The node below a node is a node.
LEMMA DownIsNode ==
  ASSUME LayersNested, TypeOK, NEW l \in Layers, NEW n \in Nodes(l)
  PROVE  /\ l > 0 => getDownwardsNode(l, n) \in Nodes(l-1)
         /\ getDownwardsNode(l, n) \in Nodes(IF l = 0 THEN 0 ELSE l - 1)
         /\ getDownwardsNode(l, n) \in Nat
<1>1. CASE l > 0
  <2>1. Len(down[l]) = Len(indexes[l]) /\ down[l] \in Seq(Nat) /\ down[l][n] \in Nodes(l-1)
    BY <1>1 DEF LayersNested, TypeOK
  <2>2. getDownwardsNode(l, n) = down[l][n]
    BY <1>1, <2>1 DEF getDownwardsNode, Nodes
  <2> QED
    BY <1>1, <2>1, <2>2 DEF Nodes
<1>2. CASE ~ (l > 0)
  BY <1>2, TopLayerType DEF getDownwardsNode, Nodes, Layers
<1> QED
  BY <1>1, <1>2

LEMMA DescendEndInv ==
  ASSUME IInv, NEW t \in Threads, DescendEnd(t)
  PROVE  IInv'
<1> DEFINE l == job[t].layer
           a == job[t].assigned
<1>1. TypeOK /\ LayersNested /\ EdgesSound /\ HeldNodesExist /\ TeamAtRest
  BY DEF IInv
<1>2. /\ pc[t] = "descend"
      /\ UNCHANGED <<indexVars, graphVars, chunk, cands, nbrs, peer, hop>>
  BY DEF DescendEnd
<1>3. /\ l \in Layers /\ a \in Layers /\ job[t].top \in Layers
      /\ a < l /\ l <= job[t].top /\ l > 0 /\ l - 1 \in Layers
      /\ FirstLinkedLayer(job[t]) = a
      /\ job[t].top < layers /\ a < layers /\ job[t].node \in Nodes(a)
      /\ visited[t] \subseteq Nodes(l)
  <2>1. /\ l \in Layers /\ a \in Layers /\ job[t].top \in Layers
        /\ a < l /\ l <= job[t].top /\ visited[t] \subseteq Nodes(l)
        /\ job[t].top < layers /\ a < layers /\ job[t].node \in Nodes(FirstLinkedLayer(job[t]))
    BY <1>1, <1>2, LocalTypes DEF HeldNodesExist, JobNodesExist, ReadNodesExist
  <2>2. l > 0 /\ l - 1 \in Layers /\ FirstLinkedLayer(job[t]) = a
    BY <2>1, TopLayerType DEF FirstLinkedLayer, Layers
  <2> QED
    BY <2>1, <2>2
<1>4. PICK n \in Best(l, Query(t), visited[t]) :
        LET j == [job[t] EXCEPT !.entry = getDownwardsNode(l, n), !.layer = @ - 1]
        IN /\ job' = [job EXCEPT ![t] = j]
           /\ IF j.layer > j.assigned
              THEN StartSearch(t, j) /\ Goto(t, "descend")
              ELSE /\ visited' = [visited EXCEPT ![t] = {}]
                   /\ expanded' = [expanded EXCEPT ![t] = {}]
                   /\ Goto(t, "readTop")
  BY DEF DescendEnd
<1> DEFINE e == getDownwardsNode(l, n)
           j == [job[t] EXCEPT !.entry = e, !.layer = l - 1]
<1>5. e \in Nodes(l-1) /\ e \in Nat
  <2>1. n \in Nodes(l)
    BY <1>3 DEF Best
  <2> QED
    BY <2>1, <1>1, <1>3, DownIsNode
<1>6. /\ j \in Jobs /\ j.entry = e /\ j.layer = l - 1 /\ j.top = job[t].top
      /\ j.assigned = a /\ j.node = job[t].node
  BY <1>1, <1>3, <1>5, LocalTypes DEF Jobs
<1>7. FirstLinkedLayer(j) = a
  BY <1>3, <1>6 DEF FirstLinkedLayer
<1>8. job' = [job EXCEPT ![t] = j]
  BY <1>4
<1>9. \/ /\ a < l - 1 /\ pc' = [pc EXCEPT ![t] = "descend"]
         /\ visited' = [visited EXCEPT ![t] = {e}]
         /\ expanded' = [expanded EXCEPT ![t] = {}]
      \/ /\ a = l - 1 /\ pc' = [pc EXCEPT ![t] = "readTop"]
         /\ visited' = [visited EXCEPT ![t] = {}]
         /\ expanded' = [expanded EXCEPT ![t] = {}]
  <2>1. a \in Int /\ l \in Int
    BY <1>3, TopLayerType DEF Layers
  <2>2. IF j.layer > j.assigned
        THEN StartSearch(t, j) /\ Goto(t, "descend")
        ELSE /\ visited' = [visited EXCEPT ![t] = {}]
             /\ expanded' = [expanded EXCEPT ![t] = {}]
             /\ Goto(t, "readTop")
    BY <1>4
  <2> QED
    BY <2>1, <2>2, <1>3, <1>6 DEF StartSearch, Goto
<1> HIDE DEF j, e
<1>10. /\ job' \in [Threads -> Jobs] /\ job'[t] = j
       /\ pc' \in [Threads -> Labels] /\ pc'[t] \in {"descend", "readTop"}
       /\ pc'[t] = "descend" <=> a < l - 1
       /\ visited' \in [Threads -> SUBSET Nat] /\ visited'[t] \subseteq {e}
       /\ expanded' \in [Threads -> SUBSET Nat] /\ expanded'[t] = {}
  <2>1. /\ job \in [Threads -> Jobs] /\ pc \in [Threads -> Labels]
        /\ visited \in [Threads -> SUBSET Nat] /\ expanded \in [Threads -> SUBSET Nat]
        /\ "descend" \in Labels /\ "readTop" \in Labels
    BY <1>1 DEF TypeOK, Labels
  <2>2. a \in Int /\ l \in Int
    BY <1>3, TopLayerType DEF Layers
  <2> QED
    BY <2>1, <2>2, <1>5, <1>6, <1>8, <1>9
<1>11. TypeOK'
  BY <1>1, <1>2, <1>10 DEF TypeOK, indexVars, graphVars
<1>12. OthersKeep(t)
  BY <1>1, <1>2, <1>8, <1>9 DEF OthersKeep, TypeOK
<1>13. Struct /\ LayersNested' /\ EdgesSound' /\ TeamAtRest'
  BY <1>1, <1>2, GraphFrame, BusyTeam
<1>14. \A k : Nodes(k)' = Nodes(k)
  BY <1>13 DEF Struct, Nodes
<1>15. JobNodesExist(t)'
  <2>1. pc'[t] = "descend" => j.assigned < j.layer /\ j.layer <= j.top
    <3>1. a \in Int /\ l \in Int /\ job[t].top \in Int
      BY <1>3, TopLayerType DEF Layers
    <3> QED
      BY <3>1, <1>3, <1>6, <1>10
  <2>2. pc'[t] = "readTop" => l - 1 = a
    <3>1. a \in Int /\ l \in Int
      BY <1>3, TopLayerType DEF Layers
    <3> QED
      BY <3>1, <1>3, <1>10
  <2> QED
    BY <2>1, <2>2, <1>3, <1>5, <1>6, <1>7, <1>10, <1>13, <1>14
    DEF JobNodesExist, Linking, Struct
<1>16. ReadNodesExist(t)'
  BY <1>5, <1>6, <1>10, <1>14 DEF ReadNodesExist, Linking, Pruning
<1> QED
  BY <1>11, <1>12, <1>13, <1>15, <1>16, ThreadStepInv

LEMMA ReadTopInv ==
  ASSUME IInv, NEW t \in Threads, ReadTop(t)
  PROVE  IInv'
<1> DEFINE j == [job[t] EXCEPT !.layer = getMaxLayer]
<1>1. TypeOK /\ LayersNested /\ EdgesSound /\ HeldNodesExist /\ TeamAtRest
  BY DEF IInv
<1>2. /\ pc[t] = "readTop" /\ pc' = [pc EXCEPT ![t] = "remap"]
      /\ job' = [job EXCEPT ![t] = j]
      /\ UNCHANGED <<indexVars, graphVars, chunk, visited, expanded, cands, nbrs, peer, hop>>
  BY DEF ReadTop, Goto
<1>3. getMaxLayer \in Layers
  BY <1>1, ParameterAssumption DEF getMaxLayer, Layers, TypeOK
<1>4. /\ j \in Jobs /\ j.layer = getMaxLayer /\ j.top = job[t].top
      /\ j.assigned = job[t].assigned /\ j.node = job[t].node /\ j.entry = job[t].entry
  BY <1>1, <1>3, LocalTypes DEF Jobs
<1> HIDE DEF j
<1>5. /\ job' \in [Threads -> Jobs] /\ job'[t] = j
      /\ pc' \in [Threads -> Labels] /\ pc'[t] = "remap"
  <2>1. job \in [Threads -> Jobs] /\ pc \in [Threads -> Labels] /\ "remap" \in Labels
    BY <1>1 DEF TypeOK, Labels
  <2> QED
    BY <2>1, <1>2, <1>4
<1>6. TypeOK'
  BY <1>1, <1>2, <1>5 DEF TypeOK, indexVars, graphVars
<1>7. OthersKeep(t)
  BY <1>1, <1>2 DEF OthersKeep, TypeOK
<1>8. Struct /\ LayersNested' /\ EdgesSound' /\ TeamAtRest'
  BY <1>1, <1>2, GraphFrame, BusyTeam
<1>9. \A k : Nodes(k)' = Nodes(k)
  BY <1>8 DEF Struct, Nodes
<1>10. FirstLinkedLayer(j) = FirstLinkedLayer(job[t])
  BY <1>4 DEF FirstLinkedLayer
<1>11. /\ job[t].top < layers /\ job[t].assigned < layers
       /\ job[t].node \in Nodes(FirstLinkedLayer(job[t]))
       /\ job[t].entry \in Nodes(FirstLinkedLayer(job[t]))
  BY <1>1, <1>2 DEF HeldNodesExist, JobNodesExist
<1>12. JobNodesExist(t)' /\ ReadNodesExist(t)'
  BY <1>4, <1>5, <1>8, <1>9, <1>10, <1>11
  DEF JobNodesExist, ReadNodesExist, Linking, Pruning, Struct
<1> QED
  BY <1>6, <1>7, <1>8, <1>12, ThreadStepInv

\* The heart of the second loop of addSingle: the node number may come to
\* name a node of another vector, but never one that does not exist.
LEMMA RemapInv ==
  ASSUME IInv, NEW t \in Threads, Remap(t)
  PROVE  IInv'
<1> DEFINE l == job[t].layer
           d == getDownwardsNode(l, job[t].node)
           j == [job[t] EXCEPT !.node = d, !.layer = l - 1]
           F == FirstLinkedLayer(job[t])
<1>1. TypeOK /\ LayersNested /\ EdgesSound /\ HeldNodesExist /\ TeamAtRest
  BY DEF IInv
<1>2. /\ pc[t] = "remap" /\ l > job[t].top
      /\ job' = [job EXCEPT ![t] = j]
      /\ UNCHANGED <<indexVars, graphVars, pc, chunk, visited, expanded, cands, nbrs, peer, hop>>
  BY DEF Remap, NodeBelow
<1>3. /\ job[t].top < layers /\ job[t].assigned < layers
      /\ job[t].node \in Nodes(F) /\ job[t].entry \in Nodes(F)
  BY <1>1, <1>2 DEF HeldNodesExist, JobNodesExist
<1>4. /\ l \in Layers /\ l > 0 /\ l - 1 \in Layers /\ F \in Layers /\ F <= l - 1
  <2>1. l \in Layers /\ job[t].top \in Layers /\ job[t].assigned \in Layers
    BY <1>1, LocalTypes
  <2> QED
    BY <2>1, <1>2, TopLayerType DEF FirstLinkedLayer, Layers
<1>5. d \in Nodes(F) /\ d \in Nat
  <2>1. CASE job[t].node \in DOMAIN down[l]
    <3>1. Len(down[l]) = Len(indexes[l]) /\ down[l] \in Seq(Nat)
      BY <1>1, <1>4 DEF LayersNested, TypeOK
    <3>2. job[t].node \in Nodes(l)
      BY <2>1, <3>1 DEF Nodes
    <3>3. d \in Nodes(l-1) /\ d \in Nat
      BY <3>2, <1>1, <1>4, DownIsNode
    <3>4. F \in 0 .. l - 1
      BY <1>4, TopLayerType DEF Layers
    <3>5. Nodes(l-1) \subseteq Nodes(F)
      BY <3>4, <1>1, <1>4 DEF LayersNested
    <3> QED
      BY <3>3, <3>5
  <2>2. CASE job[t].node \notin DOMAIN down[l]
    BY <2>2, <1>3 DEF getDownwardsNode, Nodes
  <2> QED
    BY <2>1, <2>2
<1>6. /\ j \in Jobs /\ j.layer = l - 1 /\ j.top = job[t].top
      /\ j.assigned = job[t].assigned /\ j.node = d /\ j.entry = job[t].entry
  BY <1>1, <1>4, <1>5, LocalTypes DEF Jobs
<1> HIDE DEF j, d
<1>7. job' \in [Threads -> Jobs] /\ job'[t] = j
  <2>1. job \in [Threads -> Jobs]
    BY <1>1 DEF TypeOK
  <2> QED
    BY <2>1, <1>2, <1>6
<1>8. TypeOK'
  BY <1>1, <1>2, <1>7 DEF TypeOK, indexVars, graphVars
<1>9. OthersKeep(t)
  BY <1>1, <1>2 DEF OthersKeep, TypeOK
<1>10. Struct /\ LayersNested' /\ EdgesSound' /\ TeamAtRest'
  BY <1>1, <1>2, GraphFrame, BusyTeam
<1>11. \A k : Nodes(k)' = Nodes(k)
  BY <1>10 DEF Struct, Nodes
<1>12. FirstLinkedLayer(j) = F
  BY <1>6 DEF FirstLinkedLayer
<1> HIDE DEF F
<1>13. JobNodesExist(t)' /\ ReadNodesExist(t)'
  BY <1>2, <1>3, <1>5, <1>6, <1>7, <1>10, <1>11, <1>12
  DEF JobNodesExist, ReadNodesExist, Linking, Pruning, Struct
<1> QED
  BY <1>8, <1>9, <1>10, <1>13, ThreadStepInv

LEMMA RemapEndInv ==
  ASSUME IInv, NEW t \in Threads, RemapEnd(t)
  PROVE  IInv'
<1> DEFINE F == FirstLinkedLayer(job[t])
           j == [job[t] EXCEPT !.layer = F]
<1>1. TypeOK /\ LayersNested /\ EdgesSound /\ HeldNodesExist /\ TeamAtRest
  BY DEF IInv
<1>2. /\ pc[t] = "remap" /\ pc' = [pc EXCEPT ![t] = "search"]
      /\ job' = [job EXCEPT ![t] = j]
      /\ visited' = [visited EXCEPT ![t] = {j.entry}]
      /\ expanded' = [expanded EXCEPT ![t] = {}]
      /\ UNCHANGED <<indexVars, graphVars, chunk, cands, nbrs, peer, hop>>
  BY DEF RemapEnd, StartSearch, Goto
<1>3. job[t].node \in Nodes(F) /\ job[t].entry \in Nodes(F)
  BY <1>1, <1>2 DEF HeldNodesExist, JobNodesExist
<1>4. F \in Layers
  BY <1>1, LocalTypes DEF FirstLinkedLayer
<1>5. /\ j \in Jobs /\ j.layer = F /\ j.node = job[t].node /\ j.entry = job[t].entry
      /\ j.entry \in Nat
  BY <1>1, <1>4, LocalTypes DEF Jobs
<1> HIDE DEF j, F
<1>6. /\ job' \in [Threads -> Jobs] /\ job'[t] = j
      /\ pc' \in [Threads -> Labels] /\ pc'[t] = "search"
      /\ visited' \in [Threads -> SUBSET Nat] /\ visited'[t] = {j.entry}
      /\ expanded' \in [Threads -> SUBSET Nat] /\ expanded'[t] = {}
  <2>1. /\ job \in [Threads -> Jobs] /\ pc \in [Threads -> Labels] /\ "search" \in Labels
        /\ visited \in [Threads -> SUBSET Nat] /\ expanded \in [Threads -> SUBSET Nat]
    BY <1>1 DEF TypeOK, Labels
  <2> QED
    BY <2>1, <1>2, <1>5
<1>7. TypeOK'
  BY <1>1, <1>2, <1>6 DEF TypeOK, indexVars, graphVars
<1>8. OthersKeep(t)
  BY <1>1, <1>2 DEF OthersKeep, TypeOK
<1>9. Struct /\ LayersNested' /\ EdgesSound' /\ TeamAtRest'
  BY <1>1, <1>2, GraphFrame, BusyTeam
<1>10. \A k : Nodes(k)' = Nodes(k)
  BY <1>9 DEF Struct, Nodes
<1>11. JobNodesExist(t)' /\ ReadNodesExist(t)'
  BY <1>3, <1>5, <1>6, <1>10 DEF JobNodesExist, ReadNodesExist, Linking, Pruning
<1> QED
  BY <1>7, <1>8, <1>9, <1>11, ThreadStepInv

(***************************************************************************)
(* Search and links of one layer.                                          *)
(***************************************************************************)

LEMMA SearchEndInv ==
  ASSUME IInv, NEW t \in Threads, SearchEnd(t)
  PROVE  IInv'
<1> DEFINE l == job[t].layer
           near == NearestOf(max_neighbors, l, Query(t), visited[t])
<1>1. TypeOK /\ LayersNested /\ EdgesSound /\ HeldNodesExist /\ TeamAtRest
  BY DEF IInv
<1>2. /\ pc[t] = "search" /\ pc' = [pc EXCEPT ![t] = "link"]
      /\ cands' = [cands EXCEPT ![t] = near]
      /\ visited' = [visited EXCEPT ![t] = {}]
      /\ expanded' = [expanded EXCEPT ![t] = {}]
      /\ UNCHANGED <<indexVars, graphVars, chunk, nbrs, peer, hop>>
  BY DEF SearchEnd, Goto
<1>3. PICK n \in Best(l, Query(t), visited[t]) :
        job' = [job EXCEPT ![t].entry = getDownwardsNode(l, n)]
  BY DEF SearchEnd
<1> DEFINE e == getDownwardsNode(l, n)
           j == [job[t] EXCEPT !.entry = e]
<1>4. /\ l \in Layers /\ visited[t] \subseteq Nodes(l) /\ job[t].node \in Nodes(l)
  BY <1>1, <1>2, LocalTypes DEF HeldNodesExist, JobNodesExist, ReadNodesExist
<1>5. e \in Nodes(IF l = 0 THEN 0 ELSE l - 1) /\ e \in Nat
  <2>1. n \in Nodes(l)
    BY <1>4 DEF Best
  <2> QED
    BY <2>1, <1>1, <1>4, DownIsNode
<1>6. near \subseteq Nodes(l) /\ near \subseteq Nat
  BY <1>4 DEF NearestOf, Nodes
<1>7. /\ j \in Jobs /\ j.entry = e /\ j.layer = l /\ j.node = job[t].node
      /\ job' = [job EXCEPT ![t] = j]
  BY <1>1, <1>3, <1>5, LocalTypes DEF Jobs, TypeOK
<1> HIDE DEF j, e, near
<1>8. /\ job' \in [Threads -> Jobs] /\ job'[t] = j
      /\ pc' \in [Threads -> Labels] /\ pc'[t] = "link"
      /\ cands' \in [Threads -> SUBSET Nat] /\ cands'[t] = near
      /\ visited' \in [Threads -> SUBSET Nat]
      /\ expanded' \in [Threads -> SUBSET Nat]
  <2>1. /\ job \in [Threads -> Jobs] /\ pc \in [Threads -> Labels] /\ "link" \in Labels
        /\ visited \in [Threads -> SUBSET Nat] /\ expanded \in [Threads -> SUBSET Nat]
        /\ cands \in [Threads -> SUBSET Nat]
    BY <1>1 DEF TypeOK, Labels
  <2> QED
    BY <2>1, <1>2, <1>6, <1>7
<1>9. TypeOK'
  BY <1>1, <1>2, <1>8 DEF TypeOK, indexVars, graphVars
<1>10. OthersKeep(t)
  BY <1>1, <1>2, <1>7 DEF OthersKeep, TypeOK
<1>11. Struct /\ LayersNested' /\ EdgesSound' /\ TeamAtRest'
  BY <1>1, <1>2, GraphFrame, BusyTeam
<1>12. \A k : Nodes(k)' = Nodes(k)
  BY <1>11 DEF Struct, Nodes
<1>13. JobNodesExist(t)' /\ ReadNodesExist(t)'
  BY <1>4, <1>5, <1>6, <1>7, <1>8, <1>12
  DEF JobNodesExist, ReadNodesExist, Linking, Pruning
<1> QED
  BY <1>9, <1>10, <1>11, <1>13, ThreadStepInv

LEMMA LinkInInv ==
  ASSUME IInv, NEW t \in Threads, LinkIn(t)
  PROVE  IInv'
<1> DEFINE l == job[t].layer
           new == job[t].node
<1>1. TypeOK /\ LayersNested /\ EdgesSound /\ HeldNodesExist /\ TeamAtRest
  BY DEF IInv
<1>2. /\ pc[t] = "link" /\ Struct
      /\ UNCHANGED <<indexVars, layers, indexes, down, chunk, job, visited, expanded, nbrs, hop>>
  BY DEF LinkIn, Struct
<1>3. PICK c \in Best(l, Query(t), cands[t]) :
        /\ cands' = [cands EXCEPT ![t] = @ \ {c}]
        /\ IF RefusedEdge(c, new)
           THEN UNCHANGED <<graph, pc, peer>>
           ELSE /\ \E i \in InsertPositions(l, c, new) :
                     graph' = [graph EXCEPT ![l][c] = InsertAt(@, i, new)]
                /\ peer' = [peer EXCEPT ![t] = c]
                /\ Goto(t, "linkBack")
  BY DEF LinkIn
<1>4. /\ l \in Layers /\ cands[t] \subseteq Nodes(l) /\ new \in Nodes(l)
      /\ job[t].entry \in Nodes(IF l = 0 THEN 0 ELSE l - 1)
  BY <1>1, <1>2, LocalTypes DEF HeldNodesExist, JobNodesExist, ReadNodesExist, Linking
<1>5. c \in Nodes(l) /\ c \in Nat
  BY <1>3, <1>4 DEF Best, Nodes
<1>6. /\ cands' \in [Threads -> SUBSET Nat] /\ cands'[t] \subseteq Nodes(l)
      /\ \A u \in Threads \ {t} : cands'[u] = cands[u]
  <2>1. cands \in [Threads -> SUBSET Nat]
    BY <1>1 DEF TypeOK
  <2> QED
    BY <2>1, <1>3, <1>4
<1>7. TeamAtRest'
  BY <1>1, <1>2, BusyTeam
<1>8. \A k : Nodes(k)' = Nodes(k)
  BY <1>2 DEF Struct, Nodes
<1>9. CASE c = new
  <2>1. UNCHANGED <<graph, pc, peer>>
    BY <1>3, <1>9 DEF RefusedEdge
  <2>2. TypeOK'
    BY <2>1, <1>1, <1>2, <1>6 DEF TypeOK, indexVars
  <2>3. OthersKeep(t)
    BY <2>1, <1>2, <1>6 DEF OthersKeep
  <2>4. LayersNested' /\ EdgesSound'
    BY <2>1, <1>1, <1>2, GraphFrame DEF graphVars
  <2>5. JobNodesExist(t)' /\ ReadNodesExist(t)'
    BY <2>1, <1>2, <1>4, <1>6, <1>8 DEF JobNodesExist, ReadNodesExist, Linking, Pruning
  <2> QED
    BY <2>2, <2>3, <2>4, <2>5, <1>2, <1>7, ThreadStepInv
<1>10. CASE c # new
  <2>1. /\ peer' = [peer EXCEPT ![t] = c]
        /\ pc' = [pc EXCEPT ![t] = "linkBack"]
        /\ \E i \in InsertPositions(l, c, new) :
             graph' = [graph EXCEPT ![l][c] = InsertAt(@, i, new)]
    BY <1>3, <1>10 DEF RefusedEdge, Goto
  <2>2. PICK i \in InsertPositions(l, c, new) :
          graph' = [graph EXCEPT ![l][c] = InsertAt(@, i, new)]
    BY <2>1
  <2> DEFINE s == InsertAt(graph[l][c], i, new)
  <2>3. s \in Seq(Nodes(l) \ {c})
    <3>1. graph[l][c] \in Seq(Nodes(l) \ {c}) /\ new \in Nodes(l) \ {c}
      BY <1>1, <1>4, <1>5, <1>10 DEF EdgesSound
    <3>2. i \in 1 .. Len(graph[l][c]) + 1
      BY <2>2 DEF InsertPositions
    <3> QED
      BY <3>1, <3>2, InsertAtType
  <2>4. graph' = [graph EXCEPT ![l][c] = s]
    BY <2>2
  <2> HIDE DEF s
  <2>5. LayersNested' /\ EdgesSound' /\ graph' \in [Layers -> Seq(Seq(Nat))]
    BY <2>3, <2>4, <1>1, <1>2, <1>4, <1>5, OneListWrite
  <2>6. /\ peer' \in [Threads -> Nat] /\ peer'[t] = c
        /\ pc' \in [Threads -> Labels] /\ pc'[t] = "linkBack"
    <3>1. peer \in [Threads -> Nat] /\ pc \in [Threads -> Labels] /\ "linkBack" \in Labels
      BY <1>1 DEF TypeOK, Labels
    <3> QED
      BY <3>1, <2>1, <1>5
  <2>7. TypeOK'
    BY <2>5, <2>6, <1>1, <1>2, <1>6 DEF TypeOK, indexVars
  <2>8. OthersKeep(t)
    BY <2>1, <1>1, <1>2, <1>6 DEF OthersKeep, TypeOK
  <2>9. JobNodesExist(t)' /\ ReadNodesExist(t)'
    BY <2>6, <1>2, <1>4, <1>5, <1>6, <1>8, <1>10
    DEF JobNodesExist, ReadNodesExist, Linking, Pruning
  <2> QED
    BY <2>5, <2>7, <2>8, <2>9, <1>2, <1>7, ThreadStepInv
<1> QED
  BY <1>9, <1>10

LEMMA LinkBackInv ==
  ASSUME IInv, NEW t \in Threads, LinkBack(t)
  PROVE  IInv'
<1> DEFINE l == job[t].layer
           new == job[t].node
           s == Append(graph[l][new], peer[t])
<1>1. TypeOK /\ LayersNested /\ EdgesSound /\ HeldNodesExist /\ TeamAtRest
  BY DEF IInv
<1>2. /\ pc[t] = "linkBack" /\ Struct
      /\ graph' = [graph EXCEPT ![l][new] = s]
      /\ peer' = [peer EXCEPT ![t] = 0]
      /\ pc' = [pc EXCEPT ![t] = "link"]
      /\ UNCHANGED <<indexVars, layers, indexes, down, chunk, job, visited, expanded, cands, nbrs, hop>>
  BY DEF LinkBack, Goto, Struct
<1>3. /\ l \in Layers /\ cands[t] \subseteq Nodes(l) /\ new \in Nodes(l)
      /\ job[t].entry \in Nodes(IF l = 0 THEN 0 ELSE l - 1)
      /\ peer[t] \in Nodes(l) \ {new}
  BY <1>1, <1>2, LocalTypes DEF HeldNodesExist, JobNodesExist, ReadNodesExist, Linking
<1>4. s \in Seq(Nodes(l) \ {new})
  <2>1. graph[l][new] \in Seq(Nodes(l) \ {new})
    BY <1>1, <1>3 DEF EdgesSound
  <2> QED
    BY <2>1, <1>3
<1> HIDE DEF s
<1>5. LayersNested' /\ EdgesSound' /\ graph' \in [Layers -> Seq(Seq(Nat))]
  BY <1>1, <1>2, <1>3, <1>4, OneListWrite
<1>6. peer' \in [Threads -> Nat] /\ pc' \in [Threads -> Labels] /\ pc'[t] = "link"
  <2>1. peer \in [Threads -> Nat] /\ pc \in [Threads -> Labels] /\ "link" \in Labels
    BY <1>1 DEF TypeOK, Labels
  <2> QED
    BY <2>1, <1>2
<1>7. TypeOK'
  BY <1>1, <1>2, <1>5, <1>6 DEF TypeOK, indexVars
<1>8. OthersKeep(t)
  BY <1>1, <1>2 DEF OthersKeep, TypeOK
<1>9. TeamAtRest'
  BY <1>1, <1>2, BusyTeam
<1>10. \A k : Nodes(k)' = Nodes(k)
  BY <1>2 DEF Struct, Nodes
<1>11. JobNodesExist(t)' /\ ReadNodesExist(t)'
  BY <1>2, <1>3, <1>6, <1>10 DEF JobNodesExist, ReadNodesExist, Linking, Pruning
<1> QED
  BY <1>2, <1>5, <1>7, <1>8, <1>9, <1>11, ThreadStepInv

LEMMA ReadNeighborsInv ==
  ASSUME IInv, NEW t \in Threads, ReadNeighbors(t)
  PROVE  IInv'
<1> DEFINE l == job[t].layer
           new == job[t].node
<1>1. TypeOK /\ LayersNested /\ EdgesSound /\ HeldNodesExist /\ TeamAtRest
  BY DEF IInv
<1>2. /\ pc[t] = "link" /\ pc' = [pc EXCEPT ![t] = "check"]
      /\ nbrs' = [nbrs EXCEPT ![t] = graph[l][new]]
      /\ UNCHANGED <<indexVars, graphVars, chunk, job, visited, expanded, cands, peer, hop>>
  BY DEF ReadNeighbors, Goto
<1>3. /\ l \in Layers /\ new \in Nodes(l)
      /\ job[t].entry \in Nodes(IF l = 0 THEN 0 ELSE l - 1)
  BY <1>1, <1>2, LocalTypes DEF HeldNodesExist, JobNodesExist, Linking
<1>4. graph[l][new] \in Seq(Nodes(l)) /\ graph[l][new] \in Seq(Nat)
  <2>1. graph[l][new] \in Seq(Nodes(l) \ {new})
    BY <1>1, <1>3 DEF EdgesSound
  <2>2. Nodes(l) \ {new} \subseteq Nat
    BY DEF Nodes
  <2> QED
    BY <2>1, <2>2, SeqIsMonotonic
<1>5. /\ nbrs' \in [Threads -> Seq(Nat)] /\ nbrs'[t] \in Seq(Nodes(l))
      /\ pc' \in [Threads -> Labels] /\ pc'[t] = "check"
  <2>1. nbrs \in [Threads -> Seq(Nat)] /\ pc \in [Threads -> Labels] /\ "check" \in Labels
    BY <1>1 DEF TypeOK, Labels
  <2> QED
    BY <2>1, <1>2, <1>4
<1>6. TypeOK'
  BY <1>1, <1>2, <1>5 DEF TypeOK, indexVars, graphVars
<1>7. OthersKeep(t)
  BY <1>1, <1>2 DEF OthersKeep, TypeOK
<1>8. Struct /\ LayersNested' /\ EdgesSound' /\ TeamAtRest'
  BY <1>1, <1>2, GraphFrame, BusyTeam
<1>9. \A k : Nodes(k)' = Nodes(k)
  BY <1>8 DEF Struct, Nodes
<1>10. JobNodesExist(t)' /\ ReadNodesExist(t)'
  BY <1>2, <1>3, <1>5, <1>9 DEF JobNodesExist, ReadNodesExist, Linking, Pruning
<1> QED
  BY <1>6, <1>7, <1>8, <1>10, ThreadStepInv

LEMMA CheckInv ==
  ASSUME IInv, NEW t \in Threads, Check(t)
  PROVE  IInv'
<1> DEFINE l == job[t].layer
           goal == IF l > 0 THEN "readLast" ELSE "twoHop"
<1>1. TypeOK /\ LayersNested /\ EdgesSound /\ HeldNodesExist /\ TeamAtRest
  BY DEF IInv
<1>2. /\ pc[t] = "check" /\ nbrs[t] # <<>>
      /\ UNCHANGED <<indexVars, graphVars, chunk, job, visited, expanded, cands, peer, hop>>
      /\ \/ pc' = [pc EXCEPT ![t] = goal] /\ nbrs' = nbrs
         \/ pc' = [pc EXCEPT ![t] = "check"] /\ nbrs' = [nbrs EXCEPT ![t] = Tail(@)]
  BY DEF Check, Goto, NextNeighbor
<1>3. /\ l \in Layers /\ job[t].node \in Nodes(l)
      /\ job[t].entry \in Nodes(IF l = 0 THEN 0 ELSE l - 1)
      /\ nbrs[t] \in Seq(Nodes(l)) /\ nbrs[t] \in Seq(Nat)
  BY <1>1, <1>2, LocalTypes DEF HeldNodesExist, JobNodesExist, ReadNodesExist, Linking
<1>4. /\ nbrs' \in [Threads -> Seq(Nat)] /\ nbrs'[t] \in Seq(Nodes(l))
      /\ pc' \in [Threads -> Labels]
      /\ \/ pc'[t] = goal /\ nbrs'[t] # <<>>
         \/ pc'[t] = "check"
      /\ \A u \in Threads \ {t} : pc'[u] = pc[u] /\ nbrs'[u] = nbrs[u]
  <2>1. /\ nbrs \in [Threads -> Seq(Nat)] /\ pc \in [Threads -> Labels]
        /\ "check" \in Labels /\ goal \in Labels
    BY <1>1 DEF TypeOK, Labels
  <2>2. Tail(nbrs[t]) \in Seq(Nodes(l)) /\ Tail(nbrs[t]) \in Seq(Nat)
    BY <1>2, <1>3, TailType
  <2> QED
    BY <2>1, <2>2, <1>2, <1>3
<1>5. TypeOK'
  BY <1>1, <1>2, <1>4 DEF TypeOK, indexVars, graphVars
<1>6. OthersKeep(t)
  BY <1>2, <1>4 DEF OthersKeep
<1>7. Struct /\ LayersNested' /\ EdgesSound' /\ TeamAtRest'
  BY <1>1, <1>2, GraphFrame, BusyTeam
<1>8. \A k : Nodes(k)' = Nodes(k)
  BY <1>7 DEF Struct, Nodes
<1>9. l > 0 \/ l = 0
  BY <1>3, TopLayerType DEF Layers
<1>10. JobNodesExist(t)' /\ ReadNodesExist(t)'
  BY <1>2, <1>3, <1>4, <1>8, <1>9 DEF JobNodesExist, ReadNodesExist, Linking, Pruning
<1> QED
  BY <1>5, <1>6, <1>7, <1>10, ThreadStepInv

LEMMA NextLayerInv ==
  ASSUME IInv, NEW t \in Threads, NextLayer(t)
  PROVE  IInv'
<1> DEFINE l == job[t].layer
           d == getDownwardsNode(l, job[t].node)
           j == [job[t] EXCEPT !.node = d, !.layer = l - 1]
<1>1. TypeOK /\ LayersNested /\ EdgesSound /\ HeldNodesExist /\ TeamAtRest
  BY DEF IInv
<1>2. /\ pc[t] = "check"
      /\ UNCHANGED <<indexVars, graphVars, chunk, cands, nbrs, peer, hop>>
      /\ IF j.layer >= 0
         THEN job' = [job EXCEPT ![t] = j] /\ StartSearch(t, j) /\ Goto(t, "search")
         ELSE /\ job' = [job EXCEPT ![t] = NoJob] /\ Goto(t, "idle")
              /\ UNCHANGED <<visited, expanded>>
  BY DEF NextLayer, NodeBelow
<1>3. /\ l \in Layers /\ job[t].node \in Nodes(l)
      /\ job[t].entry \in Nodes(IF l = 0 THEN 0 ELSE l - 1) /\ job[t].entry \in Nat
  BY <1>1, <1>2, LocalTypes DEF HeldNodesExist, JobNodesExist, Linking
<1>4. Struct /\ LayersNested' /\ EdgesSound' /\ TeamAtRest'
  BY <1>1, <1>2, GraphFrame, BusyTeam
<1>5. \A k : Nodes(k)' = Nodes(k)
  BY <1>4 DEF Struct, Nodes
<1>6. /\ job \in [Threads -> Jobs] /\ pc \in [Threads -> Labels]
      /\ "search" \in Labels /\ "idle" \in Labels
      /\ visited \in [Threads -> SUBSET Nat] /\ expanded \in [Threads -> SUBSET Nat]
  BY <1>1 DEF TypeOK, Labels
<1>7. j.layer = l - 1
  BY <1>1, LocalTypes DEF Jobs
<1>8. CASE l > 0
  <2>1. l - 1 \in Layers /\ l - 1 >= 0 /\ l # 0
    BY <1>3, <1>8, TopLayerType DEF Layers
  <2>2. d \in Nodes(l-1) /\ d \in Nat
    BY <1>1, <1>3, <1>8, DownIsNode
  <2>3. j \in Jobs /\ j.node = d /\ j.entry = job[t].entry
    BY <1>1, <2>1, <2>2, LocalTypes DEF Jobs
  <2>4. /\ job' = [job EXCEPT ![t] = j] /\ pc' = [pc EXCEPT ![t] = "search"]
        /\ visited' = [visited EXCEPT ![t] = {j.entry}]
        /\ expanded' = [expanded EXCEPT ![t] = {}]
    BY <1>2, <1>7, <2>1 DEF StartSearch, Goto
  <2> HIDE DEF j, d
  <2>5. /\ job' \in [Threads -> Jobs] /\ job'[t] = j
        /\ pc' \in [Threads -> Labels] /\ pc'[t] = "search"
        /\ visited' \in [Threads -> SUBSET Nat] /\ visited'[t] = {j.entry}
        /\ expanded' \in [Threads -> SUBSET Nat] /\ expanded'[t] = {}
    BY <1>3, <1>6, <2>3, <2>4
  <2>6. TypeOK'
    BY <1>1, <1>2, <2>5 DEF TypeOK, indexVars, graphVars
  <2>7. OthersKeep(t)
    BY <1>2, <1>6, <2>4 DEF OthersKeep
  <2>8. JobNodesExist(t)' /\ ReadNodesExist(t)'
    BY <1>3, <1>5, <1>7, <2>1, <2>2, <2>3, <2>5
    DEF JobNodesExist, ReadNodesExist, Linking, Pruning
  <2> QED
    BY <1>4, <2>6, <2>7, <2>8, ThreadStepInv
<1>9. CASE ~ (l > 0)
  <2>1. ~ (j.layer >= 0)
    BY <1>3, <1>7, <1>9, TopLayerType DEF Layers
  <2>2. /\ job' = [job EXCEPT ![t] = NoJob] /\ pc' = [pc EXCEPT ![t] = "idle"]
        /\ visited' = visited /\ expanded' = expanded
    BY <1>2, <2>1 DEF Goto
  <2>3. NoJob \in Jobs
    BY TopLayerType DEF NoJob, NewJob, Jobs, Layers
  <2>4. /\ job' \in [Threads -> Jobs]
        /\ pc' \in [Threads -> Labels] /\ pc'[t] = "idle"
    BY <1>6, <2>2, <2>3
  <2>5. TypeOK'
    BY <1>1, <1>2, <2>2, <2>4 DEF TypeOK, indexVars, graphVars
  <2>6. OthersKeep(t)
    BY <1>2, <1>6, <2>2 DEF OthersKeep
  <2>7. JobNodesExist(t)' /\ ReadNodesExist(t)'
    BY <2>4 DEF JobNodesExist, ReadNodesExist, Linking, Pruning
  <2> QED
    BY <1>4, <2>5, <2>6, <2>7, ThreadStepInv
<1> QED
  BY <1>8, <1>9

(***************************************************************************)
(* removeLast.                                                             *)
(***************************************************************************)

LEMMA ReadLastInv ==
  ASSUME IInv, NEW t \in Threads, ReadLast(t)
  PROVE  IInv'
<1> DEFINE l == job[t].layer
           h == Head(nbrs[t])
           list == graph[l][h]
<1>1. TypeOK /\ LayersNested /\ EdgesSound /\ HeldNodesExist /\ TeamAtRest
  BY DEF IInv
<1>2. /\ pc[t] = "readLast"
      /\ UNCHANGED <<indexVars, graphVars, chunk, job, visited, expanded, cands, nbrs, hop>>
      /\ IF list = <<>>
         THEN pc' = [pc EXCEPT ![t] = "fault"] /\ peer' = peer
         ELSE pc' = [pc EXCEPT ![t] = "popLast"] /\ peer' = [peer EXCEPT ![t] = Last(list)]
  BY DEF ReadLast, Goto
<1>3. /\ l \in Layers /\ job[t].node \in Nodes(l)
      /\ job[t].entry \in Nodes(IF l = 0 THEN 0 ELSE l - 1)
      /\ nbrs[t] \in Seq(Nodes(l)) /\ nbrs[t] # <<>>
  BY <1>1, <1>2, LocalTypes
  DEF HeldNodesExist, JobNodesExist, ReadNodesExist, Linking, Pruning
<1>4. h \in Nodes(l)
  BY <1>3
<1>5. list # <<>> => Last(list) \in Nodes(l) \ {h} /\ Last(list) \in Nat
  <2>1. list \in Seq(Nodes(l) \ {h})
    BY <1>1, <1>3, <1>4 DEF EdgesSound
  <2>2. list # <<>> => Last(list) \in Nodes(l) \ {h}
    BY <2>1, FrontType
  <2> QED
    BY <2>2 DEF Nodes
<1> HIDE DEF list
<1>6. /\ pc' \in [Threads -> Labels] /\ peer' \in [Threads -> Nat]
      /\ \/ pc'[t] = "fault"
         \/ pc'[t] = "popLast" /\ peer'[t] \in Nodes(l) \ {h}
      /\ \A u \in Threads \ {t} : pc'[u] = pc[u] /\ peer'[u] = peer[u]
  <2>1. /\ pc \in [Threads -> Labels] /\ peer \in [Threads -> Nat]
        /\ "fault" \in Labels /\ "popLast" \in Labels
    BY <1>1 DEF TypeOK, Labels
  <2> QED
    BY <2>1, <1>2, <1>5
<1>7. TypeOK'
  BY <1>1, <1>2, <1>6 DEF TypeOK, indexVars, graphVars
<1>8. OthersKeep(t)
  BY <1>2, <1>6 DEF OthersKeep
<1>9. Struct /\ LayersNested' /\ EdgesSound' /\ TeamAtRest'
  BY <1>1, <1>2, GraphFrame, BusyTeam
<1>10. \A k : Nodes(k)' = Nodes(k)
  BY <1>9 DEF Struct, Nodes
<1>11. JobNodesExist(t)' /\ ReadNodesExist(t)'
  BY <1>2, <1>3, <1>6, <1>10 DEF JobNodesExist, ReadNodesExist, Linking, Pruning
<1> QED
  BY <1>7, <1>8, <1>9, <1>11, ThreadStepInv

LEMMA PopLastInv ==
  ASSUME IInv, NEW t \in Threads, PopLast(t)
  PROVE  IInv'
<1> DEFINE l == job[t].layer
           h == Head(nbrs[t])
           p == peer[t]
<1>1. TypeOK /\ LayersNested /\ EdgesSound /\ HeldNodesExist /\ TeamAtRest
  BY DEF IInv
<1>2. /\ pc[t] = "popLast" /\ Struct
      /\ UNCHANGED <<indexVars, layers, indexes, down, chunk, job, visited, expanded, cands, hop>>
  BY DEF PopLast, Struct
<1>3. /\ l \in Layers /\ job[t].node \in Nodes(l)
      /\ job[t].entry \in Nodes(IF l = 0 THEN 0 ELSE l - 1)
      /\ nbrs[t] \in Seq(Nodes(l)) /\ nbrs[t] # <<>> /\ p \in Nodes(l) \ {h}
      /\ nbrs[t] \in Seq(Nat)
  BY <1>1, <1>2, LocalTypes
  DEF HeldNodesExist, JobNodesExist, ReadNodesExist, Linking, Pruning
<1>4. h \in Nodes(l)
  BY <1>3
<1>5. \A k : Nodes(k)' = Nodes(k)
  BY <1>2 DEF Struct, Nodes
<1>6. TeamAtRest'
  BY <1>1, <1>2, BusyTeam
<1>7. /\ pc \in [Threads -> Labels] /\ peer \in [Threads -> Nat]
      /\ nbrs \in [Threads -> Seq(Nat)] /\ "fault" \in Labels /\ "check" \in Labels
  BY <1>1 DEF TypeOK, Labels
<1>8. CASE graph[l][h] = <<>>
  <2>1. pc' = [pc EXCEPT ![t] = "fault"] /\ UNCHANGED <<graph, nbrs, peer>>
    BY <1>8 DEF PopLast, Goto
  <2>2. pc' \in [Threads -> Labels] /\ pc'[t] = "fault"
    BY <1>7, <2>1
  <2>3. TypeOK'
    BY <1>1, <1>2, <2>1, <2>2 DEF TypeOK, indexVars
  <2>4. OthersKeep(t)
    BY <1>2, <1>7, <2>1 DEF OthersKeep
  <2>5. LayersNested' /\ EdgesSound'
    BY <1>1, <1>2, <2>1, GraphFrame DEF graphVars
  <2>6. JobNodesExist(t)' /\ ReadNodesExist(t)'
    BY <2>2 DEF JobNodesExist, ReadNodesExist, Linking, Pruning
  <2> QED
    BY <1>2, <1>6, <2>3, <2>4, <2>5, <2>6, ThreadStepInv
<1>9. CASE graph[l][h] # <<>>
  <2>1. PICK rest \in Erased(graph[l][p], h) :
          graph' = [graph EXCEPT ![l][h] = Front(@), ![l][p] = rest]
    BY <1>9 DEF PopLast
  <2>2. /\ peer' = [peer EXCEPT ![t] = 0] /\ pc' = [pc EXCEPT ![t] = "check"]
        /\ nbrs' = [nbrs EXCEPT ![t] = Tail(nbrs[t])]
    BY <1>9 DEF PopLast, NextNeighbor, Goto
  <2> DEFINE s == Front(graph[l][h])
  <2>3. s \in Seq(Nodes(l) \ {h}) /\ rest \in Seq(Nodes(l) \ {p})
    <3>1. graph[l][h] \in Seq(Nodes(l) \ {h}) /\ graph[l][p] \in Seq(Nodes(l) \ {p})
      BY <1>1, <1>3, <1>4 DEF EdgesSound
    <3>2. Front(graph[l][h]) \in Seq(Nodes(l) \ {h})
      BY <3>1, <1>9, FrontType
    <3>3. rest \in Seq(Nodes(l) \ {p})
      BY <3>1, <2>1, ErasedType
    <3> QED
      BY <3>2, <3>3
  <2>4. graph' = [graph EXCEPT ![l][h] = s, ![l][p] = rest]
    BY <2>1
  <2> HIDE DEF s
  <2>5. LayersNested' /\ EdgesSound' /\ graph' \in [Layers -> Seq(Seq(Nat))]
    BY <1>1, <1>2, <1>3, <1>4, <2>3, <2>4, TwoListsWrite
  <2>6. /\ peer' \in [Threads -> Nat] /\ pc' \in [Threads -> Labels] /\ pc'[t] = "check"
        /\ nbrs' \in [Threads -> Seq(Nat)] /\ nbrs'[t] \in Seq(Nodes(l))
    <3>1. Tail(nbrs[t]) \in Seq(Nodes(l)) /\ Tail(nbrs[t]) \in Seq(Nat)
      BY <1>3, TailType
    <3> QED
      BY <3>1, <1>7, <2>2
  <2>7. TypeOK'
    BY <1>1, <1>2, <2>5, <2>6 DEF TypeOK, indexVars
  <2>8. OthersKeep(t)
    BY <1>2, <1>7, <2>2 DEF OthersKeep
  <2>9. JobNodesExist(t)' /\ ReadNodesExist(t)'
    BY <1>2, <1>3, <1>5, <2>6 DEF JobNodesExist, ReadNodesExist, Linking, Pruning
  <2> QED
    BY <1>2, <1>6, <2>5, <2>7, <2>8, <2>9, ThreadStepInv
<1> QED
  BY <1>8, <1>9

(***************************************************************************)
(* twoHopPruning.                                                          *)
(***************************************************************************)

\* What a thread in twoHopPruning works on.
LEMMA PruningFacts ==
  ASSUME IInv, NEW t \in Threads, pc[t] \in {"twoHop", "twoHopScan", "unlink"}
  PROVE  /\ job[t].layer = 0 /\ 0 \in Layers /\ job[t].node \in Nodes(0)
         /\ job[t].entry \in Nodes(0)
         /\ nbrs[t] \in Seq(Nodes(0)) /\ nbrs[t] # <<>> /\ Head(nbrs[t]) \in Nodes(0)
         /\ graph[0][Head(nbrs[t])] \in Seq(Nodes(0) \ {Head(nbrs[t])})
         /\ pc[t] \in {"twoHopScan", "unlink"} =>
              /\ hop[t].rest \in Seq(Nodes(0) \ {Head(nbrs[t])})
              /\ hop[t].kept \in Seq(Nodes(0) \ {Head(nbrs[t])})
              /\ hop[t].disc \in Seq(Nodes(0) \ {Head(nbrs[t])})
              /\ hop[t].dyn \subseteq Nat
<1> DEFINE h == Head(nbrs[t])
<1>1. TypeOK /\ LayersNested /\ EdgesSound /\ HeldNodesExist /\ TeamAtRest
  BY DEF IInv
<1>2. job[t].layer = 0 /\ 0 \in Layers
  <2>1. job[t].layer = 0
    BY <1>1 DEF HeldNodesExist, ReadNodesExist
  <2> QED
    BY <2>1, TopLayerType DEF Layers
<1>3. job[t].node \in Nodes(0) /\ job[t].entry \in Nodes(0)
  BY <1>1, <1>2 DEF HeldNodesExist, JobNodesExist, Linking
<1>4. nbrs[t] \in Seq(Nodes(0)) /\ nbrs[t] # <<>>
  BY <1>1, <1>2 DEF HeldNodesExist, ReadNodesExist, Pruning
<1>5. h \in Nodes(0)
  BY <1>4, TailType
<1>6. graph[0][h] \in Seq(Nodes(0) \ {h})
  BY <1>1, <1>2, <1>5 DEF EdgesSound
<1>7. hop[t].dyn \subseteq Nat
  <2>1. hop[t] \in Hops
    BY <1>1, LocalTypes
  <2> QED
    BY <2>1 DEF Hops
<1>8. pc[t] \in {"twoHopScan", "unlink"} =>
        /\ hop[t].rest \in Seq(Nodes(0) \ {h})
        /\ hop[t].kept \in Seq(Nodes(0) \ {h})
        /\ hop[t].disc \in Seq(Nodes(0) \ {h})
  BY <1>1, <1>2 DEF HeldNodesExist, ReadNodesExist
<1> QED
  BY <1>2, <1>3, <1>4, <1>5, <1>6, <1>7, <1>8

\* A step of twoHopPruning that keeps the shape of the graph and leaves its
\* lists over the layer's other nodes preserves the invariant.
LEMMA PruningStep ==
  ASSUME IInv, NEW t \in Threads, pc[t] \in {"twoHop", "twoHopScan", "unlink"},
         Struct, LayersNested', EdgesSound', graph' \in [Layers -> Seq(Seq(Nat))],
         UNCHANGED <<indexVars, chunk, job, visited, expanded, cands, nbrs, peer>>,
         \/ pc' = [pc EXCEPT ![t] = "twoHopScan"]
         \/ pc' = [pc EXCEPT ![t] = "unlink"],
         hop' \in [Threads -> Hops],
         \A u \in Threads \ {t} : hop'[u] = hop[u],
         hop'[t].rest \in Seq(Nodes(0) \ {Head(nbrs[t])}),
         hop'[t].kept \in Seq(Nodes(0) \ {Head(nbrs[t])}),
         hop'[t].disc \in Seq(Nodes(0) \ {Head(nbrs[t])})
  PROVE  IInv'
<1>1. TypeOK /\ LayersNested /\ EdgesSound /\ HeldNodesExist /\ TeamAtRest
  BY DEF IInv
<1>2. /\ job[t].layer = 0 /\ job[t].node \in Nodes(0) /\ job[t].entry \in Nodes(0)
      /\ nbrs[t] \in Seq(Nodes(0)) /\ nbrs[t] # <<>>
  BY PruningFacts
<1>3. /\ pc' \in [Threads -> Labels] /\ pc'[t] \in {"twoHopScan", "unlink"}
      /\ \A u \in Threads \ {t} : pc'[u] = pc[u]
  <2>1. pc \in [Threads -> Labels] /\ "twoHopScan" \in Labels /\ "unlink" \in Labels
    BY <1>1 DEF TypeOK, Labels
  <2> QED
    BY <2>1
<1>4. TypeOK'
  BY <1>1, <1>3 DEF TypeOK, Struct, indexVars
<1>5. OthersKeep(t)
  BY <1>3 DEF OthersKeep
<1>6. TeamAtRest'
  BY <1>1, BusyTeam
<1>7. Nodes(0)' = Nodes(0)
  BY DEF Struct, Nodes
<1>8. JobNodesExist(t)'
  BY <1>2, <1>3, <1>7 DEF JobNodesExist, Linking
<1>9. ReadNodesExist(t)'
  BY <1>2, <1>3, <1>7 DEF ReadNodesExist, Pruning
<1> QED
  BY <1>4, <1>5, <1>6, <1>8, <1>9, ThreadStepInv

\* The table of the locals of twoHopPruning after a write of t's entry.
LEMMA HopWrite ==
  ASSUME TypeOK, NEW t \in Threads, NEW N, N \subseteq Nat,
         NEW rest \in Seq(N), NEW kept \in Seq(N), NEW disc \in Seq(N),
         NEW dyn \in SUBSET Nat,
         hop' = [hop EXCEPT ![t] = [rest |-> rest, kept |-> kept, disc |-> disc,
                                    dyn |-> dyn]]
  PROVE  /\ hop' \in [Threads -> Hops]
         /\ \A u \in Threads \ {t} : hop'[u] = hop[u]
         /\ hop'[t].rest \in Seq(N) /\ hop'[t].kept \in Seq(N) /\ hop'[t].disc \in Seq(N)
<1> DEFINE hp == [rest |-> rest, kept |-> kept, disc |-> disc, dyn |-> dyn]
<1>1. rest \in Seq(Nat) /\ kept \in Seq(Nat) /\ disc \in Seq(Nat)
  BY SeqIsMonotonic
<1>2. hp \in Hops /\ hp.rest \in Seq(N) /\ hp.kept \in Seq(N) /\ hp.disc \in Seq(N)
  BY <1>1 DEF Hops
<1>3. hop \in [Threads -> Hops] /\ hop' = [hop EXCEPT ![t] = hp]
  BY DEF TypeOK
<1> HIDE DEF hp
<1> QED
  BY <1>2, <1>3

LEMMA SubSeqType ==
  ASSUME NEW S, NEW s \in Seq(S), NEW i \in Nat \ {0}, NEW k \in 0 .. Len(s)
  PROVE  SubSeq(s, i, k) \in Seq(S)
OBVIOUS

LEMMA twoHopPruningInv ==
  ASSUME IInv, NEW t \in Threads, twoHopPruning(t)
  PROVE  IInv'
<1> DEFINE old == graph[0][Head(nbrs[t])]
           cut == IF Len(old) < Mbeta THEN Len(old) ELSE Mbeta
           N == Nodes(0) \ {Head(nbrs[t])}
           rest == SubSeq(old, cut + 1, Len(old))
           kept == SubSeq(old, 1, cut)
           hp == [rest |-> rest, kept |-> kept, disc |-> <<>>, dyn |-> {}]
<1>1. /\ pc[t] = "twoHop" /\ pc' = [pc EXCEPT ![t] = "twoHopScan"]
      /\ hop' = [hop EXCEPT ![t] = hp]
      /\ UNCHANGED <<indexVars, graphVars, chunk, job, visited, expanded, cands, nbrs, peer>>
  BY DEF twoHopPruning, Goto
<1>2. old \in Seq(N)
  BY <1>1, PruningFacts
<1>3. rest \in Seq(N) /\ kept \in Seq(N)
  <2> HIDE DEF old, N
  <2>1. Len(old) \in Nat /\ Mbeta \in Nat
    BY <1>2, ParameterAssumption
  <2>2. cut \in 0 .. Len(old) /\ cut + 1 \in Nat \ {0} /\ Len(old) \in 0 .. Len(old)
    BY <2>1
  <2> QED
    BY <1>2, <2>2, SubSeqType
<1>4. <<>> \in Seq(N) /\ {} \in SUBSET Nat
  OBVIOUS
<1>5. Struct /\ LayersNested' /\ EdgesSound' /\ graph' \in [Layers -> Seq(Seq(Nat))]
  BY <1>1, GraphFrame DEF IInv, TypeOK, graphVars
<1>6. N \subseteq Nat /\ TypeOK
  BY DEF Nodes, IInv
<1>7. /\ hop' \in [Threads -> Hops]
      /\ \A u \in Threads \ {t} : hop'[u] = hop[u]
      /\ hop'[t].rest \in Seq(N) /\ hop'[t].kept \in Seq(N) /\ hop'[t].disc \in Seq(N)
  <2> HIDE DEF rest, kept, old, N
  <2> QED
    BY <1>1, <1>3, <1>4, <1>6, HopWrite
<1> QED
  BY <1>1, <1>5, <1>7, PruningStep

LEMMA TwoHopScanInv ==
  ASSUME IInv, NEW t \in Threads, TwoHopScan(t)
  PROVE  IInv'
<1> DEFINE N == Nodes(0) \ {Head(nbrs[t])}
           h == hop[t]
           c == Head(h.rest)
           rest == Tail(h.rest)
           kept == IF c \in h.dyn THEN h.kept ELSE Append(h.kept, c)
           disc == IF c \in h.dyn THEN Append(h.disc, c) ELSE h.disc
           dyn == IF c \in h.dyn THEN h.dyn ELSE h.dyn \cup ToSet(graph[0][c])
<1>1. /\ pc[t] = "twoHopScan" /\ h.rest # <<>>
      /\ hop' = [hop EXCEPT ![t] =
                   [rest |-> rest, kept |-> kept, disc |-> disc, dyn |-> dyn]]
      /\ UNCHANGED <<indexVars, graphVars, pc, chunk, job, visited, expanded, cands, nbrs, peer>>
  BY DEF TwoHopScan, TwoHopOpen
<1>2. /\ h.rest \in Seq(N) /\ h.kept \in Seq(N) /\ h.disc \in Seq(N)
      /\ h.dyn \subseteq Nat
  BY <1>1, PruningFacts
<1>3. c \in N /\ rest \in Seq(N)
  BY <1>1, <1>2, TailType
<1>4. kept \in Seq(N) /\ disc \in Seq(N)
  BY <1>2, <1>3
<1>5. dyn \in SUBSET Nat
  <2>1. c \in Nodes(0) /\ 0 \in Layers
    BY <1>1, <1>3, PruningFacts
  <2>2. graph[0][c] \in Seq(Nat)
    BY <2>1 DEF IInv, TypeOK, LayersNested, Nodes
  <2>3. ToSet(graph[0][c]) \subseteq Nat
    BY <2>2 DEF ToSet
  <2> QED
    BY <1>2, <2>3
<1>6. Struct /\ LayersNested' /\ EdgesSound' /\ graph' \in [Layers -> Seq(Seq(Nat))]
  BY <1>1, GraphFrame DEF IInv, TypeOK, graphVars
<1>7. pc' = [pc EXCEPT ![t] = "twoHopScan"]
  BY <1>1 DEF IInv, TypeOK
<1>8. N \subseteq Nat /\ TypeOK
  BY DEF Nodes, IInv
<1>9. /\ hop' \in [Threads -> Hops]
      /\ \A u \in Threads \ {t} : hop'[u] = hop[u]
      /\ hop'[t].rest \in Seq(N) /\ hop'[t].kept \in Seq(N) /\ hop'[t].disc \in Seq(N)
  <2> HIDE DEF rest, kept, disc, dyn, N
  <2> QED
    BY <1>1, <1>3, <1>4, <1>5, <1>8, HopWrite
<1> QED
  BY <1>1, <1>6, <1>7, <1>9, PruningStep

LEMMA TwoHopWriteInv ==
  ASSUME IInv, NEW t \in Threads, TwoHopWrite(t)
  PROVE  IInv'
<1> DEFINE h == Head(nbrs[t])
           N == Nodes(0) \ {h}
           disc == hop[t].disc \o hop[t].rest
<1>1. /\ pc[t] = "twoHopScan" /\ Struct
      /\ graph' = [graph EXCEPT ![0][h] = hop[t].kept]
      /\ hop' = [hop EXCEPT ![t] =
                   [rest |-> <<>>, kept |-> <<>>, disc |-> disc, dyn |-> {}]]
      /\ pc' = [pc EXCEPT ![t] = "unlink"]
      /\ UNCHANGED <<indexVars, chunk, job, visited, expanded, cands, nbrs, peer>>
  BY DEF TwoHopWrite, Goto, Struct
<1>2. /\ hop[t].rest \in Seq(N) /\ hop[t].kept \in Seq(N) /\ hop[t].disc \in Seq(N)
      /\ 0 \in Layers /\ h \in Nodes(0)
  BY <1>1, PruningFacts
<1>3. disc \in Seq(N) /\ <<>> \in Seq(N) /\ {} \in SUBSET Nat
  BY <1>2
<1>4. LayersNested' /\ EdgesSound' /\ graph' \in [Layers -> Seq(Seq(Nat))]
  BY <1>1, <1>2, OneListWrite DEF IInv
<1>5. N \subseteq Nat /\ TypeOK
  BY DEF Nodes, IInv
<1>6. /\ hop' \in [Threads -> Hops]
      /\ \A u \in Threads \ {t} : hop'[u] = hop[u]
      /\ hop'[t].rest \in Seq(N) /\ hop'[t].kept \in Seq(N) /\ hop'[t].disc \in Seq(N)
  <2> HIDE DEF disc, N
  <2> QED
    BY <1>1, <1>3, <1>5, HopWrite
<1> QED
  BY <1>1, <1>4, <1>6, PruningStep

LEMMA HopUnlink ==
  ASSUME NEW h \in Hops, NEW d
  PROVE  [h EXCEPT !.disc = d]
           = [rest |-> h.rest, kept |-> h.kept, disc |-> d, dyn |-> h.dyn]
<1>1. PICK a, b, c, e : h = [rest |-> a, kept |-> b, disc |-> c, dyn |-> e]
  BY DEF Hops
<1> QED
  BY <1>1

LEMMA UnlinkInv ==
  ASSUME IInv, NEW t \in Threads, Unlink(t)
  PROVE  IInv'
<1> DEFINE N == Nodes(0) \ {Head(nbrs[t])}
           h == hop[t]
           d == Head(h.disc)
           disc == Tail(h.disc)
<1>1. /\ pc[t] = "unlink" /\ Struct /\ h.disc # <<>>
      /\ hop' = [hop EXCEPT ![t] = [h EXCEPT !.disc = disc]]
      /\ UNCHANGED <<indexVars, pc, chunk, job, visited, expanded, cands, nbrs, peer>>
  BY DEF Unlink, Struct
<1>2. PICK rest \in Erased(graph[0][d], Head(nbrs[t])) :
        graph' = [graph EXCEPT ![0][d] = rest]
  BY DEF Unlink
<1>3. /\ h.rest \in Seq(N) /\ h.kept \in Seq(N) /\ h.disc \in Seq(N)
      /\ h.dyn \in SUBSET Nat /\ 0 \in Layers
  BY <1>1, PruningFacts
<1>4. d \in Nodes(0) /\ disc \in Seq(N)
  BY <1>1, <1>3, TailType
<1>5. rest \in Seq(Nodes(0) \ {d})
  <2>1. graph[0][d] \in Seq(Nodes(0) \ {d})
    BY <1>3, <1>4 DEF IInv, EdgesSound
  <2> QED
    BY <1>2, <2>1, ErasedType
<1>6. LayersNested' /\ EdgesSound' /\ graph' \in [Layers -> Seq(Seq(Nat))]
  BY <1>1, <1>2, <1>3, <1>4, <1>5, OneListWrite DEF IInv
<1>7. pc' = [pc EXCEPT ![t] = "unlink"]
  BY <1>1 DEF IInv, TypeOK
<1>8. N \subseteq Nat /\ TypeOK /\ h \in Hops
  BY LocalTypes DEF Nodes, IInv
<1>9. hop' = [hop EXCEPT ![t] =
                [rest |-> h.rest, kept |-> h.kept, disc |-> disc, dyn |-> h.dyn]]
  <2> HIDE DEF disc, h
  <2> QED
    BY <1>1, <1>8, HopUnlink
<1>10. /\ hop' \in [Threads -> Hops]
       /\ \A u \in Threads \ {t} : hop'[u] = hop[u]
       /\ hop'[t].rest \in Seq(N) /\ hop'[t].kept \in Seq(N) /\ hop'[t].disc \in Seq(N)
  <2> HIDE DEF disc, h, N
  <2> QED
    BY <1>3, <1>4, <1>8, <1>9, HopWrite
<1> QED
  BY <1>1, <1>6, <1>7, <1>10, PruningStep

LEMMA UnlinkEndInv ==
  ASSUME IInv, NEW t \in Threads, UnlinkEnd(t)
  PROVE  IInv'
<1>1. TypeOK /\ LayersNested /\ EdgesSound /\ HeldNodesExist /\ TeamAtRest
  BY DEF IInv
<1>2. /\ pc[t] = "unlink" /\ pc' = [pc EXCEPT ![t] = "check"]
      /\ nbrs' = [nbrs EXCEPT ![t] = Tail(nbrs[t])]
      /\ UNCHANGED <<indexVars, graphVars, chunk, job, visited, expanded, cands, peer, hop>>
  BY DEF UnlinkEnd, NextNeighbor, Goto
<1>3. /\ job[t].layer = 0 /\ job[t].node \in Nodes(0) /\ job[t].entry \in Nodes(0)
      /\ nbrs[t] \in Seq(Nodes(0)) /\ nbrs[t] # <<>> /\ nbrs[t] \in Seq(Nat)
  BY <1>1, <1>2, PruningFacts, LocalTypes
<1>4. /\ pc' \in [Threads -> Labels] /\ pc'[t] = "check"
      /\ nbrs' \in [Threads -> Seq(Nat)] /\ nbrs'[t] \in Seq(Nodes(0))
      /\ \A u \in Threads \ {t} : pc'[u] = pc[u] /\ nbrs'[u] = nbrs[u]
  <2>1. /\ pc \in [Threads -> Labels] /\ nbrs \in [Threads -> Seq(Nat)]
        /\ "check" \in Labels
    BY <1>1 DEF TypeOK, Labels
  <2>2. Tail(nbrs[t]) \in Seq(Nodes(0)) /\ Tail(nbrs[t]) \in Seq(Nat)
    BY <1>3, TailType
  <2> QED
    BY <1>2, <2>1, <2>2
<1>5. TypeOK'
  BY <1>1, <1>2, <1>4 DEF TypeOK, indexVars, graphVars
<1>6. OthersKeep(t)
  BY <1>2, <1>4 DEF OthersKeep
<1>7. Struct /\ LayersNested' /\ EdgesSound' /\ TeamAtRest'
  BY <1>1, <1>2, GraphFrame, BusyTeam
<1>8. Nodes(0)' = Nodes(0)
  BY <1>7 DEF Struct, Nodes
<1>9. JobNodesExist(t)' /\ ReadNodesExist(t)'
  BY <1>2, <1>3, <1>4, <1>8 DEF JobNodesExist, ReadNodesExist, Linking, Pruning
<1> QED
  BY <1>5, <1>6, <1>7, <1>9, ThreadStepInv

(***************************************************************************)
(* The steps of add, reset and the team.                                   *)
(***************************************************************************)

LEMMA ClaimInv ==
  ASSUME IInv, NEW t \in Threads, Claim(t)
  PROVE  IInv'
<1> DEFINE last == IF claimed + Chunk < Len(storage) THEN claimed + Chunk ELSE Len(storage)
           mine == [i \in 1 .. last - claimed |-> claimed + i]
<1>1. TypeOK /\ LayersNested /\ EdgesSound /\ HeldNodesExist /\ TeamAtRest
  BY DEF IInv
<1>2. /\ pc[t] = "idle" /\ claimed < Len(storage)
      /\ chunk' = [chunk EXCEPT ![t] = mine] /\ claimed' = last
      /\ UNCHANGED <<storage, ntotal, graphVars, pc, locals>>
  BY DEF Claim
<1>3. storage \in Seq(Points) /\ claimed \in Nat /\ ntotal \in Nat /\ Chunk \in Nat
  BY <1>1, ParameterAssumption DEF TypeOK
<1>4. last \in Nat /\ claimed <= last /\ last <= Len(storage)
  BY <1>2, <1>3
<1>5. mine \in Seq(Nat)
  <2>1. last - claimed \in Nat /\ \A i \in 1 .. last - claimed : claimed + i \in Nat
    BY <1>3, <1>4
  <2> QED
    BY <2>1
<1> HIDE DEF last, mine
<1>6. chunk' \in [Threads -> Seq(Nat)]
  BY <1>1, <1>2, <1>5 DEF TypeOK
<1>7. TypeOK'
  BY <1>1, <1>2, <1>4, <1>6 DEF TypeOK, graphVars, locals
<1>8. OthersKeep(t)
  BY <1>2 DEF OthersKeep, locals
<1>9. Struct /\ LayersNested' /\ EdgesSound'
  BY <1>1, <1>2, GraphFrame
<1>10. TeamAtRest'
  <2>1. ntotal <= claimed
    BY <1>1 DEF TeamAtRest
  <2> QED
    BY <2>1, <1>2, <1>3, <1>4 DEF TeamAtRest, Quiescent
<1>11. JobNodesExist(t)' /\ ReadNodesExist(t)'
  BY <1>2 DEF JobNodesExist, ReadNodesExist, Linking, Pruning
<1> QED
  BY <1>7, <1>8, <1>9, <1>10, <1>11, ThreadStepInv

\* Nothing the threads hold is disturbed by a step that leaves their locals
\* and the graph alone.
LEMMA HeldFrame ==
  ASSUME HeldNodesExist, UNCHANGED <<graphVars, pc, locals>>
  PROVE  HeldNodesExist'
<1> SUFFICES ASSUME NEW u \in Threads
             PROVE  JobNodesExist(u)' /\ ReadNodesExist(u)'
  BY DEF HeldNodesExist
<1>1. Struct
  BY DEF Struct, graphVars
<1> QED
  BY <1>1, ThreadFrame DEF HeldNodesExist, locals

LEMMA ConcatType ==
  ASSUME NEW S, NEW s \in Seq(S), NEW r \in Seq(S)
  PROVE  s \o r \in Seq(S) /\ Len(s \o r) = Len(s) + Len(r)
OBVIOUS

LEMMA AddInv ==
  ASSUME IInv, Add
  PROVE  IInv'
<1>1. TypeOK /\ LayersNested /\ EdgesSound /\ HeldNodesExist /\ TeamAtRest
  BY DEF IInv
<1>2. Quiescent /\ UNCHANGED <<ntotal, claimed, graphVars, pc, chunk, locals>>
  BY DEF Add
<1>3. PICK n \in BatchSizes :
        \E batch \in [1 .. n -> Points \ ToSet(storage)] : storage' = storage \o batch
  BY DEF Add
<1>4. PICK batch \in [1 .. n -> Points \ ToSet(storage)] : storage' = storage \o batch
  BY <1>3
<1>5. storage \in Seq(Points) /\ ntotal \in Nat /\ claimed \in Nat
  BY <1>1 DEF TypeOK
<1>6. n \in Nat \ {0}
  BY <1>3, ParameterAssumption
<1>7. batch \in Seq(Points) /\ Len(batch) = n
  BY <1>4, <1>6
<1>8. storage' \in Seq(Points) /\ Len(storage') = Len(storage) + n
  BY <1>4, <1>5, <1>7, ConcatType
<1>9. TypeOK'
  BY <1>1, <1>2, <1>8 DEF TypeOK, graphVars, locals
<1>10. LayersNested' /\ EdgesSound' /\ HeldNodesExist'
  BY <1>1, <1>2, GraphFrame, HeldFrame
<1>11. TeamAtRest'
  BY <1>1, <1>2, <1>5, <1>6, <1>8 DEF TeamAtRest, Quiescent
<1> QED
  BY <1>9, <1>10, <1>11 DEF IInv

LEMMA AddEndInv ==
  ASSUME IInv, AddEnd
  PROVE  IInv'
<1>1. TypeOK /\ LayersNested /\ EdgesSound /\ HeldNodesExist /\ TeamAtRest
  BY DEF IInv
<1>2. /\ TeamDone /\ ntotal' = Len(storage)
      /\ UNCHANGED <<storage, claimed, graphVars, pc, chunk, locals>>
  BY DEF AddEnd
<1>3. TypeOK'
  BY <1>1, <1>2 DEF TypeOK, graphVars, locals
<1>4. LayersNested' /\ EdgesSound' /\ HeldNodesExist'
  BY <1>1, <1>2, GraphFrame, HeldFrame
<1>5. TeamAtRest'
  BY <1>1, <1>2 DEF TeamAtRest, Quiescent, TeamDone, TypeOK
<1> QED
  BY <1>3, <1>4, <1>5 DEF IInv

LEMMA IdleThread ==
  ASSUME NEW u, pc'[u] = "idle"
  PROVE  JobNodesExist(u)' /\ ReadNodesExist(u)'
BY DEF JobNodesExist, ReadNodesExist, Linking, Pruning

LEMMA resetInv ==
  ASSUME IInv, reset
  PROVE  IInv'
<1>1. TypeOK /\ TeamAtRest
  BY DEF IInv
<1>2. /\ Quiescent
      /\ storage' = <<>> /\ ntotal' = 0 /\ claimed' = 0 /\ layers' = 0
      /\ indexes' = [l \in Layers |-> <<>>] /\ down' = [l \in Layers |-> <<>>]
      /\ graph' = [l \in Layers |-> <<>>]
      /\ UNCHANGED <<pc, chunk, locals>>
  BY DEF reset
<1>3. \A t \in Threads : pc'[t] = "idle" /\ chunk'[t] = <<>>
  BY <1>1, <1>2 DEF TeamAtRest
<1>4. TypeOK'
  <2>1. layers' \in 0 .. TopLayer + 1
    BY <1>2, TopLayerType
  <2>2. /\ indexes' \in [Layers -> Seq(Nat)] /\ down' \in [Layers -> Seq(Nat)]
        /\ graph' \in [Layers -> Seq(Seq(Nat))]
    BY <1>2
  <2> QED
    BY <1>1, <1>2, <2>1, <2>2 DEF TypeOK, locals
<1>5. \A l \in Layers : Nodes(l)' = {}
  BY <1>2 DEF Nodes
<1>6. LayersNested'
  <2>1. \A l \in Layers : Len(graph'[l]) = Len(indexes'[l]) /\ Len(down'[l]) = Len(indexes'[l])
    BY <1>2
  <2>2. \A l \in Layers : ~ (l < layers')
    BY <1>2, TopLayerType DEF Layers
  <2> QED
    BY <1>5, <2>1, <2>2 DEF LayersNested
<1>7. EdgesSound'
  BY <1>5 DEF EdgesSound
<1>8. HeldNodesExist'
  BY <1>3, IdleThread DEF HeldNodesExist
<1>9. TeamAtRest'
  BY <1>2, <1>3 DEF TeamAtRest, Quiescent
<1> QED
  BY <1>4, <1>6, <1>7, <1>8, <1>9 DEF IInv

LEMMA InitIInv == Init => IInv
<1> SUFFICES ASSUME Init
             PROVE  IInv
  OBVIOUS
<1>1. NoJob \in Jobs /\ NoHop \in Hops
  BY TopLayerType DEF NoJob, NewJob, Jobs, Layers, NoHop, Hops
<1>2. TypeOK
  <2>1. layers \in 0 .. TopLayer + 1
    BY TopLayerType DEF Init
  <2> QED
    BY <1>1, <2>1 DEF Init, TypeOK, Labels
<1>3. \A l \in Layers : Nodes(l) = {} /\ ~ (l < layers)
  BY TopLayerType DEF Init, Nodes, Layers
<1>4. LayersNested
  BY <1>3 DEF Init, LayersNested
<1>5. EdgesSound
  BY <1>3 DEF EdgesSound
<1>6. HeldNodesExist
  BY DEF Init, HeldNodesExist, JobNodesExist, ReadNodesExist, Linking, Pruning
<1>7. TeamAtRest
  BY DEF Init, TeamAtRest, Quiescent
<1> QED
  BY <1>2, <1>4, <1>5, <1>6, <1>7 DEF IInv

LEMMA StutterInv ==
  ASSUME IInv, UNCHANGED vars
  PROVE  IInv'
<1>1. TypeOK /\ LayersNested /\ EdgesSound /\ HeldNodesExist /\ TeamAtRest
  BY DEF IInv
<1>2. LayersNested' /\ EdgesSound' /\ HeldNodesExist'
  BY <1>1, GraphFrame, HeldFrame DEF vars
<1>3. TypeOK'
  BY <1>1 DEF TypeOK, vars, indexVars, graphVars, locals
<1>4. TeamAtRest'
  BY <1>1 DEF TeamAtRest, Quiescent, vars, indexVars
<1> QED
  BY <1>2, <1>3, <1>4 DEF IInv

(***************************************************************************)
(* addNode: the layers grow.                                               *)
(***************************************************************************)

\* push_back keeps the elements and their positions.
LEMMA AppendFacts ==
  ASSUME NEW S, NEW s \in Seq(S), NEW e \in S
  PROVE  /\ Append(s, e) \in Seq(S) /\ Len(Append(s, e)) = Len(s) + 1
         /\ Append(s, e)[Len(s) + 1] = e
         /\ \A i \in 1 .. Len(s) : Append(s, e)[i] = s[i]
OBVIOUS

LEMMA IntervalLength ==
  ASSUME NEW a \in Nat, NEW b \in Nat, 1 .. a \subseteq 1 .. b
  PROVE  a <= b
<1>1. CASE a = 0
  BY <1>1
<1>2. CASE a # 0
  <2>1. a \in 1 .. a
    BY <1>2
  <2> QED
    BY <2>1
<1> QED
  BY <1>1, <1>2

Grown == layers <= layers' /\ \A k \in Layers : Nodes(k) \subseteq Nodes(k)'

\* A thread keeps what it holds while another adds its node.
LEMMA ThreadGrow ==
  ASSUME NEW u \in Threads, TypeOK, layers' \in Nat, Grown,
         JobNodesExist(u), ReadNodesExist(u),
         pc'[u] = pc[u], job'[u] = job[u],
         visited'[u] = visited[u], expanded'[u] = expanded[u],
         cands'[u] = cands[u], nbrs'[u] = nbrs[u], peer'[u] = peer[u],
         hop'[u] = hop[u]
  PROVE  JobNodesExist(u)' /\ ReadNodesExist(u)'
<1> DEFINE j == job[u]
           first == FirstLinkedLayer(j)
           below == IF j.layer = 0 THEN 0 ELSE j.layer - 1
<1>1. /\ j.top \in Layers /\ j.assigned \in Layers /\ j.layer \in Layers
      /\ layers \in Nat
  BY LocalTypes DEF TypeOK
<1>2. first \in Layers /\ below \in Layers
  BY <1>1, TopLayerType DEF FirstLinkedLayer, Layers
<1>3. /\ Nodes(first) \subseteq Nodes(first)' /\ Nodes(below) \subseteq Nodes(below)'
      /\ Nodes(j.layer) \subseteq Nodes(j.layer)'
  BY <1>1, <1>2 DEF Grown
<1>4. \A k \in Layers : k < layers => k < layers'
  BY <1>1, TopLayerType DEF Grown, Layers
<1>5. JobNodesExist(u)'
  <2>1. pc[u] \in {"descend", "readTop", "remap"} =>
          /\ job[u].top < layers' /\ job[u].assigned < layers'
          /\ job[u].node \in Nodes(FirstLinkedLayer(job[u]))'
    BY <1>1, <1>3, <1>4 DEF JobNodesExist, FirstLinkedLayer
  <2>2. pc[u] \in {"readTop", "remap"} => job[u].entry \in Nodes(FirstLinkedLayer(job[u]))'
    BY <1>3 DEF JobNodesExist, FirstLinkedLayer
  <2>3. pc[u] \in {"search"} \cup Linking => job[u].node \in Nodes(job[u].layer)'
    BY <1>3 DEF JobNodesExist
  <2>4. pc[u] \in Linking =>
          job[u].entry \in Nodes(IF job[u].layer = 0 THEN 0 ELSE job[u].layer - 1)'
    BY <1>3 DEF JobNodesExist
  <2>5. /\ pc[u] = "addNode" => job[u].top = 0 \/ job[u].top < layers'
        /\ pc[u] = "descend" =>
             job[u].assigned < job[u].layer /\ job[u].layer <= job[u].top
    BY <1>1, <1>4 DEF JobNodesExist
  <2> HIDE DEF first, below, j
  <2> QED
    BY <2>1, <2>2, <2>3, <2>4, <2>5 DEF JobNodesExist, Linking
<1>6. ReadNodesExist(u)'
  <2> DEFINE N == Nodes(job[u].layer)
             P == Nodes(job[u].layer)'
             h == Head(nbrs[u])
  <2>1. N \subseteq P /\ N \ {h} \subseteq P \ {h}
    BY <1>3
  <2> HIDE DEF N, P
  <2>2. Seq(N) \subseteq Seq(P) /\ Seq(N \ {h}) \subseteq Seq(P \ {h})
    BY <2>1, SeqIsMonotonic
  <2> QED
    BY <2>1, <2>2 DEF ReadNodesExist, N, P
<1> QED
  BY <1>5, <1>6

\* The graph after addNode.
LEMMA AppendedShape ==
  ASSUME IInv, NEW l \in Layers, NEW v \in Nat,
         layers' = IF layers <= l THEN l + 1 ELSE layers,
         indexes' = [k \in Layers |-> IF k <= l THEN Append(indexes[k], v) ELSE indexes[k]],
         down' = [k \in Layers |-> IF k \in 1 .. l
                                   THEN Append(down[k], Len(indexes[k-1]) + 1) ELSE down[k]],
         graph' = [k \in Layers |-> IF k <= l THEN Append(graph[k], <<>>) ELSE graph[k]]
  PROVE  /\ layers' \in 0 .. TopLayer + 1
         /\ indexes' \in [Layers -> Seq(Nat)] /\ down' \in [Layers -> Seq(Nat)]
         /\ graph' \in [Layers -> Seq(Seq(Nat))]
         /\ LayersNested' /\ EdgesSound' /\ Grown
         /\ Len(indexes[l]) + 1 \in Nat
         /\ \A k \in Layers : k <= l => Len(indexes[l]) + 1 \in Nodes(k)'
<1>1. TypeOK /\ LayersNested /\ EdgesSound
  BY DEF IInv
<1>2. layers \in 0 .. TopLayer + 1 /\ l \in 0 .. TopLayer /\ TopLayer \in Nat
  BY <1>1, TopLayerType DEF TypeOK, Layers
<1>3. \A k \in Layers : indexes[k] \in Seq(Nat) /\ down[k] \in Seq(Nat) /\ graph[k] \in Seq(Seq(Nat))
  BY <1>1 DEF TypeOK
<1>4. \A k \in Layers : k \in 0 .. TopLayer /\ k \in Nat /\ (k <= l \/ k > l)
  BY <1>2 DEF Layers
<1>5. \A k \in Layers : k <= l =>
        /\ indexes'[k] \in Seq(Nat) /\ Len(indexes'[k]) = Len(indexes[k]) + 1
        /\ indexes'[k][Len(indexes[k]) + 1] = v
        /\ \A n \in 1 .. Len(indexes[k]) : indexes'[k][n] = indexes[k][n]
  BY <1>3, AppendFacts
<1>6. \A k \in Layers : k <= l =>
        /\ graph'[k] \in Seq(Seq(Nat)) /\ Len(graph'[k]) = Len(graph[k]) + 1
        /\ graph'[k][Len(graph[k]) + 1] = <<>>
        /\ \A n \in 1 .. Len(graph[k]) : graph'[k][n] = graph[k][n]
  <2>1. <<>> \in Seq(Nat)
    OBVIOUS
  <2> QED
    BY <1>3, <2>1, AppendFacts
<1>7. \A k \in Layers : k \in 1 .. l =>
        /\ k - 1 \in Layers /\ down'[k] \in Seq(Nat) /\ Len(down'[k]) = Len(down[k]) + 1
        /\ down'[k][Len(down[k]) + 1] = Len(indexes[k-1]) + 1
        /\ \A n \in 1 .. Len(down[k]) : down'[k][n] = down[k][n]
  <2> TAKE k \in Layers
  <2> HAVE k \in 1 .. l
  <2>1. k - 1 \in Layers
    BY <1>2 DEF Layers
  <2>2. Len(indexes[k-1]) + 1 \in Nat /\ down[k] \in Seq(Nat)
    BY <1>3, <2>1
  <2>3. down'[k] = Append(down[k], Len(indexes[k-1]) + 1)
    OBVIOUS
  <2> QED
    BY <2>1, <2>2, <2>3, AppendFacts
<1>8. \A k \in Layers : k > l =>
        indexes'[k] = indexes[k] /\ down'[k] = down[k] /\ graph'[k] = graph[k]
  BY <1>2, <1>4
<1>9. 0 <= l /\ (0 \in Layers => down'[0] = down[0])
  BY <1>2
<1>10. /\ layers' \in 0 .. TopLayer + 1
       /\ indexes' \in [Layers -> Seq(Nat)]
       /\ graph' \in [Layers -> Seq(Seq(Nat))]
  <2>1. layers' \in 0 .. TopLayer + 1
    BY <1>2
  <2>2. \A k \in Layers : indexes'[k] \in Seq(Nat) /\ graph'[k] \in Seq(Seq(Nat))
    BY <1>3, <1>4, <1>5, <1>6, <1>8
  <2> QED
    BY <2>1, <2>2
<1>11. down' \in [Layers -> Seq(Nat)]
  <2>1. \A k \in Layers : down'[k] \in Seq(Nat)
    <3> TAKE k \in Layers
    <3>1. CASE k \in 1 .. l
      BY <1>7, <3>1
    <3>2. CASE k \notin 1 .. l
      BY <1>3, <3>2
    <3> QED
      BY <3>1, <3>2
  <2> QED
    BY <2>1
<1>12. \A k \in Layers :
         /\ Len(indexes[k]) \in Nat
         /\ k <= l => Nodes(k)' = Nodes(k) \cup {Len(indexes[k]) + 1}
         /\ k > l => Nodes(k)' = Nodes(k)
  <2> TAKE k \in Layers
  <2>1. Len(indexes[k]) \in Nat
    BY <1>3
  <2>2. k <= l => Nodes(k)' = 1 .. Len(indexes[k]) + 1
    BY <1>5 DEF Nodes
  <2>3. k > l => Nodes(k)' = Nodes(k)
    BY <1>8 DEF Nodes
  <2>4. Nodes(k) = 1 .. Len(indexes[k])
    BY DEF Nodes
  <2> QED
    BY <2>1, <2>2, <2>3, <2>4
<1>13. Grown
  BY <1>2, <1>4, <1>12 DEF Grown
<1>14. \A k \in Layers : k <= l => Len(indexes[l]) + 1 \in Nodes(k)'
  <2> TAKE k \in Layers
  <2> HAVE k <= l
  <2>1. Nodes(l) \subseteq Nodes(k)
    BY <1>1, <1>2, <1>4 DEF LayersNested
  <2>2. Len(indexes[l]) <= Len(indexes[k])
    BY <1>12, <2>1 DEF Nodes
  <2>3. Len(indexes'[k]) = Len(indexes[k]) + 1
    BY <1>5
  <2> QED
    BY <1>12, <2>2, <2>3 DEF Nodes
<1>15. LayersNested'
  <2> SUFFICES ASSUME NEW k \in Layers
               PROVE  /\ Len(graph'[k]) = Len(indexes'[k])
                      /\ (Nodes(k)' # {}) <=> (k < layers')
                      /\ \A m \in 0 .. k : Nodes(k)' \subseteq Nodes(m)'
                      /\ k > 0 =>
                           /\ Len(down'[k]) = Len(indexes'[k])
                           /\ \A n \in Nodes(k)' :
                                /\ down'[k][n] \in Nodes(k-1)'
                                /\ indexes'[k-1][down'[k][n]] = indexes'[k][n]
    BY DEF LayersNested
  <2>1. Len(graph'[k]) = Len(indexes'[k])
    BY <1>1, <1>4, <1>5, <1>6, <1>8 DEF LayersNested
  <2>2. (Nodes(k)' # {}) <=> (k < layers')
    <3>1. (Nodes(k) # {}) <=> (k < layers)
      BY <1>1 DEF LayersNested
    <3>2. CASE k <= l
      <4>1. k < layers' /\ Len(indexes[k]) + 1 \in Nodes(k)'
        BY <1>2, <1>4, <1>12, <3>2
      <4> QED
        BY <4>1
    <3>3. CASE k > l
      <4>1. Nodes(k)' = Nodes(k) /\ (k < layers' <=> k < layers)
        BY <1>2, <1>4, <1>12, <3>3
      <4> QED
        BY <3>1, <4>1
    <3> QED
      BY <1>4, <3>2, <3>3
  <2>3. \A m \in 0 .. k : Nodes(k)' \subseteq Nodes(m)'
    <3> TAKE m \in 0 .. k
    <3>1. m \in Layers /\ m <= k
      BY <1>4, TopLayerType DEF Layers
    <3>2. Nodes(k) \subseteq Nodes(m) /\ Nodes(m) \subseteq Nodes(m)'
      BY <1>1, <1>13, <3>1 DEF LayersNested, Grown
    <3>3. CASE k > l
      BY <1>12, <3>2, <3>3
    <3>4. CASE k <= l
      <4>1. Len(indexes[k]) <= Len(indexes[m])
        BY <1>12, <3>1, <3>2, IntervalLength DEF Nodes
      <4>2. m <= l
        BY <1>2, <1>4, <3>1, <3>4
      <4>3. Len(indexes'[k]) = Len(indexes[k]) + 1 /\ Len(indexes'[m]) = Len(indexes[m]) + 1
        BY <1>5, <3>1, <3>4, <4>2
      <4> QED
        BY <1>12, <3>1, <4>1, <4>3 DEF Nodes
    <3> QED
      BY <1>4, <3>3, <3>4
  <2>4. ASSUME k > 0
        PROVE  /\ Len(down'[k]) = Len(indexes'[k])
               /\ \A n \in Nodes(k)' :
                    /\ down'[k][n] \in Nodes(k-1)'
                    /\ indexes'[k-1][down'[k][n]] = indexes'[k][n]
    <3>1. k - 1 \in Layers /\ (k <= l => k \in 1 .. l /\ k - 1 <= l)
      BY <1>2, <1>4, <2>4, TopLayerType DEF Layers
    <3>2. /\ Len(down[k]) = Len(indexes[k])
          /\ \A n \in Nodes(k) : /\ down[k][n] \in Nodes(k-1)
                                 /\ indexes[k-1][down[k][n]] = indexes[k][n]
      BY <1>1, <2>4 DEF LayersNested
    <3>3. Len(down'[k]) = Len(indexes'[k])
      BY <1>4, <1>5, <1>7, <1>8, <3>1, <3>2
    <3>4. \A n \in Nodes(k) : down'[k][n] = down[k][n] /\ indexes'[k][n] = indexes[k][n]
      BY <1>4, <1>5, <1>7, <1>8, <3>1, <3>2 DEF Nodes
    <3>5. \A n \in Nodes(k-1) : n \in Nodes(k-1)' /\ indexes'[k-1][n] = indexes[k-1][n]
      BY <1>4, <1>5, <1>8, <1>13, <3>1 DEF Nodes, Grown
    <3>6. CASE k > l
      BY <1>12, <3>2, <3>3, <3>4, <3>5, <3>6
    <3>7. CASE k <= l
      <4>1. /\ down'[k][Len(indexes[k]) + 1] = Len(indexes[k-1]) + 1
            /\ indexes'[k][Len(indexes[k]) + 1] = v
            /\ indexes'[k-1][Len(indexes[k-1]) + 1] = v
            /\ Len(indexes[k-1]) + 1 \in Nodes(k-1)'
        BY <1>5, <1>7, <1>12, <3>1, <3>2, <3>7
      <4>2. ASSUME NEW n \in Nodes(k)'
            PROVE  down'[k][n] \in Nodes(k-1)' /\ indexes'[k-1][down'[k][n]] = indexes'[k][n]
        <5>1. n \in Nodes(k) \/ n = Len(indexes[k]) + 1
          BY <1>12, <3>7
        <5>2. CASE n \in Nodes(k)
          <6>1. /\ down[k][n] \in Nodes(k-1) /\ down'[k][n] = down[k][n]
                /\ indexes[k-1][down[k][n]] = indexes[k][n]
                /\ indexes'[k][n] = indexes[k][n]
            BY <3>2, <3>4, <5>2
          <6> QED
            BY <3>5, <6>1
        <5>3. CASE n = Len(indexes[k]) + 1
          BY <4>1, <5>3
        <5> QED
          BY <5>1, <5>2, <5>3
      <4> QED
        BY <3>3, <4>2
    <3> QED
      BY <1>4, <3>6, <3>7
  <2> QED
    BY <2>1, <2>2, <2>3, <2>4
<1>16. EdgesSound'
  <2> SUFFICES ASSUME NEW k \in Layers, NEW n \in Nodes(k)'
               PROVE  graph'[k][n] \in Seq(Nodes(k)' \ {n})
    BY DEF EdgesSound
  <2>1. CASE n \in Nodes(k)
    <3>1. graph'[k][n] = graph[k][n]
      BY <1>1, <1>4, <1>6, <1>8, <2>1 DEF LayersNested, Nodes
    <3>2. graph[k][n] \in Seq(Nodes(k) \ {n})
      BY <1>1, <2>1 DEF EdgesSound
    <3>3. Nodes(k) \ {n} \subseteq Nodes(k)' \ {n}
      BY <1>13 DEF Grown
    <3> QED
      BY <3>1, <3>2, <3>3, SeqIsMonotonic
  <2>2. CASE n \notin Nodes(k)
    <3>1. k <= l /\ n = Len(graph[k]) + 1
      BY <1>1, <1>4, <1>12, <2>2 DEF LayersNested
    <3>2. graph'[k][n] = <<>>
      BY <1>6, <3>1
    <3>3. <<>> \in Seq(Nodes(k)' \ {n})
      OBVIOUS
    <3> QED
      BY <3>2, <3>3
  <2> QED
    BY <2>1, <2>2
<1>17. Len(indexes[l]) + 1 \in Nat
  BY <1>12
<1> QED
  BY <1>10, <1>11, <1>13, <1>14, <1>15, <1>16, <1>17

LEMMA addNodeInv ==
  ASSUME IInv, NEW t \in Threads, addNode(t)
  PROVE  IInv'
<1>1. TypeOK /\ LayersNested /\ EdgesSound /\ HeldNodesExist /\ TeamAtRest
  BY DEF IInv
<1>2. /\ pc[t] = "addNode"
      /\ UNCHANGED <<indexVars, chunk, cands, nbrs, peer, hop>>
  BY DEF addNode
<1>3. PICK l \in Layers :
        LET j == [job[t] EXCEPT !.assigned = l, !.node = Len(indexes[l]) + 1,
                                !.entry = getEntryPoint, !.layer = job[t].top]
        IN /\ layers' = IF layers <= l THEN l + 1 ELSE layers
           /\ indexes' = [k \in Layers |->
                IF k <= l THEN PushBack(indexes[k], job[t].vec) ELSE indexes[k]]
           /\ down' = [k \in Layers |->
                IF k \in 1 .. l THEN PushBack(down[k], DownwardsEdge(k)) ELSE down[k]]
           /\ graph' = [k \in Layers |->
                IF k <= l THEN PushBack(graph[k], <<>>) ELSE graph[k]]
           /\ job' = [job EXCEPT ![t] = j]
           /\ IF j.top > l THEN StartSearch(t, j) /\ Goto(t, "descend")
              ELSE UNCHANGED <<visited, expanded>> /\ Goto(t, "readTop")
  BY DEF addNode
<1> DEFINE new == Len(indexes[l]) + 1
           j == [job[t] EXCEPT !.assigned = l, !.node = new, !.entry = 1,
                               !.layer = job[t].top]
<1>4. /\ job[t] \in Jobs /\ job[t].vec \in Nat /\ job[t].top \in Layers
      /\ layers \in Nat /\ l \in Nat /\ job[t].top \in Nat
  <2>1. job[t] \in Jobs /\ job[t].vec \in Nat /\ job[t].top \in Layers /\ layers \in Nat
    BY <1>1, LocalTypes DEF TypeOK
  <2> QED
    BY <2>1, TopLayerType DEF Layers
<1>5. /\ layers' \in 0 .. TopLayer + 1
      /\ indexes' \in [Layers -> Seq(Nat)] /\ down' \in [Layers -> Seq(Nat)]
      /\ graph' \in [Layers -> Seq(Seq(Nat))]
      /\ LayersNested' /\ EdgesSound' /\ Grown
      /\ new \in Nat /\ \A k \in Layers : k <= l => new \in Nodes(k)'
  <2> DEFINE v == job[t].vec
  <2>1. /\ layers' = IF layers <= l THEN l + 1 ELSE layers
        /\ indexes' = [k \in Layers |-> IF k <= l THEN Append(indexes[k], v) ELSE indexes[k]]
        /\ down' = [k \in Layers |-> IF k \in 1 .. l
                                     THEN Append(down[k], Len(indexes[k-1]) + 1) ELSE down[k]]
        /\ graph' = [k \in Layers |-> IF k <= l THEN Append(graph[k], <<>>) ELSE graph[k]]
    BY <1>3 DEF PushBack, DownwardsEdge
  <2>2. v \in Nat
    BY <1>4
  <2> HIDE DEF v
  <2> QED
    BY <2>1, <2>2, AppendedShape
<1>6. /\ j \in Jobs /\ j.top = job[t].top /\ j.assigned = l /\ j.node = new
      /\ j.entry = 1 /\ j.layer = job[t].top
  BY <1>4, <1>5 DEF Jobs
<1>7. /\ job' = [job EXCEPT ![t] = j]
      /\ IF job[t].top > l
         THEN /\ visited' = [visited EXCEPT ![t] = {1}]
              /\ expanded' = [expanded EXCEPT ![t] = {}]
              /\ pc' = [pc EXCEPT ![t] = "descend"]
         ELSE /\ UNCHANGED <<visited, expanded>>
              /\ pc' = [pc EXCEPT ![t] = "readTop"]
  <2>1. /\ job' = [job EXCEPT ![t] = j]
        /\ IF j.top > l THEN StartSearch(t, j) /\ Goto(t, "descend")
           ELSE UNCHANGED <<visited, expanded>> /\ Goto(t, "readTop")
    BY <1>3 DEF getEntryPoint
  <2> HIDE DEF j
  <2> QED
    BY <2>1, <1>6 DEF StartSearch, Goto
<1> HIDE DEF j, new
<1>8. /\ job' \in [Threads -> Jobs] /\ job'[t] = j
      /\ pc' \in [Threads -> Labels]
      /\ visited' \in [Threads -> SUBSET Nat] /\ expanded' \in [Threads -> SUBSET Nat]
      /\ \/ /\ job[t].top > l /\ pc'[t] = "descend"
            /\ visited'[t] = {1} /\ expanded'[t] = {}
         \/ job[t].top <= l /\ pc'[t] = "readTop"
      /\ \A u \in Threads \ {t} : /\ pc'[u] = pc[u] /\ job'[u] = job[u]
                                  /\ visited'[u] = visited[u]
                                  /\ expanded'[u] = expanded[u]
  <2>1. /\ job \in [Threads -> Jobs] /\ pc \in [Threads -> Labels]
        /\ visited \in [Threads -> SUBSET Nat] /\ expanded \in [Threads -> SUBSET Nat]
        /\ "descend" \in Labels /\ "readTop" \in Labels
    BY <1>1 DEF TypeOK, Labels
  <2>2. {1} \in SUBSET Nat /\ {} \in SUBSET Nat
    OBVIOUS
  <2>3. CASE job[t].top > l
    BY <1>6, <1>7, <2>1, <2>2, <2>3
  <2>4. CASE ~ (job[t].top > l)
    BY <1>4, <1>6, <1>7, <2>1, <2>4
  <2> QED
    BY <2>3, <2>4
<1>9. TypeOK'
  BY <1>1, <1>2, <1>5, <1>8 DEF TypeOK, indexVars
<1>10. TeamAtRest'
  BY <1>1, <1>2, BusyTeam
<1>11. job[t].top < layers' /\ l < layers' /\ layers' \in Nat
  <2>1. job[t].top = 0 \/ job[t].top < layers
    BY <1>1, <1>2 DEF HeldNodesExist, JobNodesExist
  <2>2. layers' = IF layers <= l THEN l + 1 ELSE layers
    BY <1>3
  <2> QED
    BY <1>4, <2>1, <2>2
<1>12. \A k \in Layers : k < layers' => 1 \in Nodes(k)'
  <2> TAKE k \in Layers
  <2> HAVE k < layers'
  <2>1. Nodes(k)' # {} /\ Len(indexes'[k]) \in Nat
    BY <1>5 DEF LayersNested
  <2> QED
    BY <2>1 DEF Nodes
<1>13. JobNodesExist(t)' /\ ReadNodesExist(t)'
  <2>1. PICK top \in Layers : top = job[t].top
    BY <1>4
  <2>2. PICK first \in Layers : first = IF top <= l THEN top ELSE l
    BY <2>1
  <2>3. first <= l /\ first < layers' /\ top < layers'
    BY <1>4, <1>11, <2>1, <2>2
  <2>4. new \in Nodes(first)' /\ 1 \in Nodes(first)' /\ 1 \in Nodes(top)'
    BY <1>5, <1>12, <2>3
  <2>5. /\ job'[t].top = top /\ job'[t].assigned = l /\ job'[t].node = new
        /\ job'[t].entry = 1 /\ job'[t].layer = top
    BY <1>6, <1>8, <2>1
  <2>6. FirstLinkedLayer(job[t])' = first
    BY <2>2, <2>5 DEF FirstLinkedLayer
  <2>7. CASE pc'[t] = "descend"
    <3>1. l < top /\ visited'[t] = {1} /\ expanded'[t] = {} /\ top <= top
      BY <1>4, <1>8, <2>1, <2>7
    <3>2. JobNodesExist(t)'
      BY <1>11, <2>3, <2>4, <2>5, <2>6, <2>7, <3>1 DEF JobNodesExist, Linking
    <3>3. ReadNodesExist(t)'
      BY <2>4, <2>5, <2>7, <3>1 DEF ReadNodesExist, Pruning
    <3> QED
      BY <3>2, <3>3
  <2>8. CASE pc'[t] = "readTop"
    BY <1>11, <2>3, <2>4, <2>5, <2>6, <2>8
    DEF JobNodesExist, ReadNodesExist, Linking, Pruning
  <2> QED
    BY <1>8, <2>7, <2>8
<1>14. HeldNodesExist'
  <2> SUFFICES ASSUME NEW u \in Threads, u # t
               PROVE  JobNodesExist(u)' /\ ReadNodesExist(u)'
    BY <1>13 DEF HeldNodesExist
  <2> QED
    BY <1>1, <1>2, <1>5, <1>8, <1>11, ThreadGrow DEF HeldNodesExist
<1> QED
  BY <1>5, <1>9, <1>10, <1>14 DEF IInv

(***************************************************************************)
(* The inductive invariant.                                                *)
(***************************************************************************)

LEMMA NextIInv == IInv /\ [Next]_vars => IInv'
<1> SUFFICES ASSUME IInv, [Next]_vars
             PROVE  IInv'
  OBVIOUS
<1>1. CASE Add
  BY <1>1, AddInv
<1>2. CASE AddEnd
  BY <1>2, AddEndInv
<1>3. CASE reset
  BY <1>3, resetInv
<1>4. ASSUME NEW t \in Threads, ThreadStep(t)
      PROVE  IInv'
  <2>1. CASE Claim(t)
    BY <2>1, ClaimInv
  <2>2. CASE ReadMaxLayer(t) \/ addNode(t) \/ Expand(t) \/ DescendEnd(t)
    BY <2>2, ReadMaxLayerInv, addNodeInv, ExpandInv, DescendEndInv
  <2>3. CASE ReadTop(t) \/ Remap(t) \/ RemapEnd(t) \/ SearchEnd(t)
    BY <2>3, ReadTopInv, RemapInv, RemapEndInv, SearchEndInv
  <2>4. CASE LinkIn(t) \/ LinkBack(t) \/ ReadNeighbors(t) \/ Check(t) \/ NextLayer(t)
    BY <2>4, LinkInInv, LinkBackInv, ReadNeighborsInv, CheckInv, NextLayerInv
  <2>5. CASE ReadLast(t) \/ PopLast(t)
    BY <2>5, ReadLastInv, PopLastInv
  <2>6. CASE \/ twoHopPruning(t) \/ TwoHopScan(t) \/ TwoHopWrite(t)
             \/ Unlink(t) \/ UnlinkEnd(t)
    BY <2>6, twoHopPruningInv, TwoHopScanInv, TwoHopWriteInv, UnlinkInv, UnlinkEndInv
  <2> QED
    BY <1>4, <2>1, <2>2, <2>3, <2>4, <2>5, <2>6 DEF ThreadStep, addSingle
<1>5. CASE Undefined \/ UNCHANGED vars
  BY <1>5, StutterInv DEF Undefined
<1> QED
  BY <1>1, <1>2, <1>3, <1>4, <1>5 DEF Next

\* The shape of the graph, what the threads hold and the state of the team
\* are an invariant of add and reset for any number of OpenMP threads, any
\* batches and any M, gamma, M_beta and efConstruction.
THEOREM Invariance == Spec => []IInv
<1>1. Init => IInv
  BY InitIInv
<1>2. IInv /\ [Next]_vars => IInv'
  BY NextIInv
<1> QED
  BY <1>1, <1>2, PTL DEF Spec

\* Every variable of IndexAcorn and HierarchicalGraph keeps its type: no
\* layer above TopLayer, no negative id, node or count.
THEOREM TypeCorrect == Spec => []TypeOK
<1>1. IInv => TypeOK
  BY DEF IInv
<1> QED
  BY <1>1, Invariance, PTL

\* The deques of HierarchicalGraph stay parallel and the layers nested under
\* any interleaving of addNode, addDirectedEdge, removeLast and twoHopPruning.
THEOREM LayersAlwaysNested == Spec => []LayersNested
<1>1. IInv => LayersNested
  BY DEF IInv
<1> QED
  BY <1>1, Invariance, PTL

\* No adjacency list ever names a node its layer does not have, nor its own
\* owner, although twoHopPruning overwrites lists it read long before.
THEOREM EdgesAlwaysSound == Spec => []EdgesSound
<1>1. IInv => EdgesSound
  BY DEF IInv
<1> QED
  BY <1>1, Invariance, PTL

\* Every node number a thread of add keeps between two critical sections is a
\* node of the layer it works on when the thread uses it.
THEOREM HeldNodesAlwaysExist == Spec => []HeldNodesExist
<1>1. IInv => HeldNodesExist
  BY DEF IInv
<1> QED
  BY <1>1, Invariance, PTL

(***************************************************************************)
(* Nodes are stable.                                                       *)
(***************************************************************************)

Stable == \A l \in Layers : IsPrefix(indexes[l], indexes'[l]) /\ IsPrefix(down[l], down'[l])

LEMMA PrefixFacts ==
  ASSUME NEW S, NEW s \in Seq(S)
  PROVE  /\ IsPrefix(s, s)
         /\ \A e \in S : IsPrefix(s, Append(s, e))
BY DEF IsPrefix

LEMMA UnchangedIsStable ==
  ASSUME TypeOK, indexes' = indexes, down' = down
  PROVE  Stable
<1>1. \A l \in Layers : indexes[l] \in Seq(Nat) /\ down[l] \in Seq(Nat)
  BY DEF TypeOK
<1> QED
  BY <1>1, PrefixFacts DEF Stable

LEMMA addNodeIsStable ==
  ASSUME TypeOK, NEW t \in Threads, addNode(t)
  PROVE  Stable
<1>1. PICK l \in Layers :
        /\ indexes' = [k \in Layers |->
             IF k <= l THEN Append(indexes[k], job[t].vec) ELSE indexes[k]]
        /\ down' = [k \in Layers |->
             IF k \in 1 .. l THEN Append(down[k], Len(indexes[k-1]) + 1) ELSE down[k]]
  BY DEF addNode, PushBack, DownwardsEdge
<1> SUFFICES ASSUME NEW k \in Layers
             PROVE  IsPrefix(indexes[k], indexes'[k]) /\ IsPrefix(down[k], down'[k])
  BY DEF Stable
<1>2. indexes[k] \in Seq(Nat) /\ down[k] \in Seq(Nat) /\ job[t].vec \in Nat
  BY LocalTypes DEF TypeOK
<1>3. IsPrefix(indexes[k], indexes'[k])
  <2>1. indexes'[k] = Append(indexes[k], job[t].vec) \/ indexes'[k] = indexes[k]
    BY <1>1
  <2> QED
    BY <2>1, <1>2, PrefixFacts
<1>4. IsPrefix(down[k], down'[k])
  <2>1. CASE k \in 1 .. l
    <3>1. k - 1 \in Layers
      BY <2>1, TopLayerType DEF Layers
    <3>2. Len(indexes[k-1]) + 1 \in Nat
      BY <3>1 DEF TypeOK
    <3>3. down'[k] = Append(down[k], Len(indexes[k-1]) + 1)
      BY <1>1, <2>1
    <3> QED
      BY <3>2, <3>3, <1>2, PrefixFacts
  <2>2. CASE k \notin 1 .. l
    <3>1. down'[k] = down[k]
      BY <1>1, <2>2
    <3> QED
      BY <3>1, <1>2, PrefixFacts
  <2> QED
    BY <2>1, <2>2
<1> QED
  BY <1>3, <1>4

LEMMA StepIsStable ==
  ASSUME TypeOK, [Next]_vars, storage' # <<>>
  PROVE  Stable
<1>1. CASE Add \/ AddEnd
  BY <1>1, UnchangedIsStable DEF Add, AddEnd, graphVars
<1>2. CASE reset
  BY <1>2 DEF reset
<1>3. ASSUME NEW t \in Threads, ThreadStep(t)
      PROVE  Stable
  <2>1. CASE addNode(t)
    BY <2>1, addNodeIsStable
  <2>2. CASE Claim(t) \/ ReadMaxLayer(t) \/ Expand(t) \/ DescendEnd(t)
    BY <2>2, UnchangedIsStable
    DEF Claim, ReadMaxLayer, Expand, DescendEnd, graphVars
  <2>3. CASE ReadTop(t) \/ Remap(t) \/ RemapEnd(t) \/ SearchEnd(t)
    BY <2>3, UnchangedIsStable DEF ReadTop, Remap, RemapEnd, SearchEnd, graphVars
  <2>4. CASE LinkIn(t) \/ LinkBack(t) \/ ReadNeighbors(t) \/ Check(t) \/ NextLayer(t)
    BY <2>4, UnchangedIsStable
    DEF LinkIn, LinkBack, ReadNeighbors, Check, NextLayer, graphVars
  <2>5. CASE ReadLast(t) \/ PopLast(t)
    BY <2>5, UnchangedIsStable DEF ReadLast, PopLast, graphVars
  <2>6. CASE \/ twoHopPruning(t) \/ TwoHopScan(t) \/ TwoHopWrite(t)
             \/ Unlink(t) \/ UnlinkEnd(t)
    BY <2>6, UnchangedIsStable
    DEF twoHopPruning, TwoHopScan, TwoHopWrite, Unlink, UnlinkEnd, graphVars
  <2> QED
    BY <1>3, <2>1, <2>2, <2>3, <2>4, <2>5, <2>6 DEF ThreadStep, addSingle
<1>4. CASE Undefined \/ UNCHANGED vars
  BY <1>4, UnchangedIsStable DEF Undefined, vars, graphVars
<1> QED
  BY <1>1, <1>2, <1>3, <1>4 DEF Next

\* Until reset() a node keeps its number, its vector and its downward edge:
\* addNode only appends, so the numbers the threads keep without a lock go on
\* naming the same nodes.
THEOREM NodesAreStable == Spec => NodesStable
<1>1. TypeOK /\ [Next]_vars =>
        [storage' # <<>> =>
           \A l \in Layers : /\ IsPrefix(indexes[l], indexes'[l])
                             /\ IsPrefix(down[l], down'[l])]_vars
  BY StepIsStable DEF Stable
<1> QED
  BY <1>1, TypeCorrect, PTL DEF Spec, NodesStable

=============================================================================
