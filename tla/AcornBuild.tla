------------------------------ MODULE AcornBuild ------------------------------
(***************************************************************************)
(* IndexAcorn::add: the OpenMP threads of one add() call insert the        *)
(* vectors of a batch into the HierarchicalGraph they share.               *)
(*                                                                         *)
(* A critical section of the code (expansion_lock, or the node_locks of    *)
(* one or two nodes) is one step: every section takes its locks in         *)
(* increasing node order and ends by releasing all of them.  What the code *)
(* does between two sections is a step of its own, so the threads          *)
(* interleave wherever the code lets go of its locks.                      *)
(*                                                                         *)
(* Ids, node numbers and the entry point count from 1 (the code from 0);   *)
(* layers count from 0 as in the code.  downwards_edges[l-1] is down[l].   *)
(***************************************************************************)
EXTENDS Integers, SequencesExt

CONSTANTS
  Threads,         \* the OpenMP team
  Points,          \* the vectors add() may be given
  Dist,            \* Dist[p][q]: the metric of the storage
  M, gamma, Mbeta, efConstruction,
  TopLayer,        \* bound: the highest layer assignLayer draws
  Chunk,           \* schedule(dynamic, Chunk); 100 in the code
  BatchSizes,      \* bound: the sizes n of an add() call
  MaxVecs          \* bound: vectors in the index

Layers == 0 .. TopLayer

ASSUME ThreadsAssumption == Threads # {}
ASSUME DistAssumption == Dist \in [Points -> [Points -> Nat]]
ASSUME NoTies == \A p \in Points : IsInjective(Dist[p])
ASSUME ParameterAssumption ==
  /\ M \in Nat \ {0} /\ gamma \in Nat \ {0} /\ efConstruction \in Nat \ {0}
  /\ Mbeta \in 0 .. M * gamma
  /\ TopLayer \in Nat /\ Chunk \in Nat \ {0} /\ MaxVecs \in Nat
  /\ BatchSizes \subseteq Nat \ {0}

VARIABLES
  storage,     \* IndexFlat: the vectors, in id order
  ntotal,      \* Index::ntotal
  claimed,     \* loop iterations the team has taken, as the last id
  layers,      \* graph.size()
  indexes,     \* indexes[l][n]: the vector of node n of layer l
  down,        \* down[l][n]: that node's number in layer l-1
  graph,       \* graph[l][n]: its adjacency list
  pc, chunk,   \* per thread: next step; ids still to insert
  job,         \* per thread: the locals of addSingle
  visited, expanded,   \* searchLayerSafe: its sets for the current layer
  cands,       \* addInitialEdges: candidates not yet linked
  nbrs,        \* new_neighbors not yet checked, the current one first
  peer,        \* the second node of the section under way
  hop          \* the locals of twoHopPruning

graphVars == <<layers, indexes, down, graph>>
indexVars == <<storage, ntotal, claimed>>
locals    == <<job, visited, expanded, cands, nbrs, peer, hop>>
vars      == <<indexVars, graphVars, pc, chunk, locals>>

(***************************************************************************)
(* The code's derived parameters and reading operators.                    *)
(***************************************************************************)
max_neighbors == M * gamma
two_hop_prune_cutoff == Mbeta + (M * gamma - Mbeta) \div 5

Nodes(l) == 1 .. Len(indexes[l])
getEntryPoint == 1

\* Mutants of getMaxLayer: without std::max; one layer too low.
UnclampedMaxLayer == layers - 1
LowMaxLayer == IF layers <= 1 THEN 0 ELSE layers - 2
getMaxLayer == IF layers = 0 THEN 0 ELSE layers - 1

\* The layers above 0 are pruned by removeLast, layer 0 by twoHopPruning.
PruneLength(l) == IF l > 0 THEN max_neighbors ELSE two_hop_prune_cutoff

\* Mutant: == for >= (the list of a new node is full from the start).
ExactlyFull(l, length) == length = PruneLength(l)
Overfull(l, length) == length >= PruneLength(l)

\* getDownwardsNode, with its fallback for a node the layer does not have.
getDownwardsNode(l, n) ==
  IF l > 0 /\ n \in DOMAIN down[l] THEN down[l][n] ELSE n

\* The vector of node n of layer l, and its distance to the vector q.
VectorOf(l, n) == storage[indexes[l][n]]
DistTo(l, q, n) == Dist[q][VectorOf(l, n)]

Closer(l, q, m, n) == DistTo(l, q, m) < DistTo(l, q, n)

\* The k nodes of S nearest to q: what a MinimaxHeap of size k holds.
NearestOf(k, l, q, S) ==
  {n \in S : Cardinality({m \in S : Closer(l, q, m, n)}) < k}

\* The nodes of S that pop_min may return first.
Best(l, q, S) == {n \in S : \A m \in S : ~ Closer(l, q, m, n)}

\* find_index: the positions std::lower_bound may return.  On a list sorted
\* by distance to its owner there is one; on any other list the search stops
\* at some position whose left neighbour is nearer and right one is not.
\* Mutant: push_back.
AtTheEnd(l, n, new) == {Len(graph[l][n]) + 1}
InsertPositions(l, n, new) ==
  LET list == graph[l][n]
      q    == VectorOf(l, n)
  IN {i \in 1 .. Len(list) + 1 :
        /\ i > 1 => Closer(l, q, list[i-1], new)
        /\ i <= Len(list) => ~ Closer(l, q, list[i], new)}

\* removeDirectedEdge: the list without its first occurrence of n.
\* Mutant: forget the other direction.
NotErased(list, n) == {list}
Erased(list, n) ==
  IF Contains(list, n)
  THEN {RemoveAt(list, i) :
          i \in {j \in DOMAIN list : /\ list[j] = n
                                     /\ \A k \in 1 .. j-1 : list[k] # n}}
  ELSE {list}

-----------------------------------------------------------------------------
NewJob(v, max_layer) ==
  [vec |-> v, top |-> max_layer, assigned |-> 0, node |-> 0, entry |-> 0,
   layer |-> 0]
NoJob == NewJob(0, 0)
NoHop == [rest |-> <<>>, kept |-> <<>>, disc |-> <<>>, dyn |-> {}]

Init ==
  /\ storage = <<>> /\ ntotal = 0 /\ claimed = 0
  /\ layers = 0
  /\ indexes = [l \in Layers |-> <<>>]
  /\ down = [l \in Layers |-> <<>>]
  /\ graph = [l \in Layers |-> <<>>]
  /\ pc = [t \in Threads |-> "idle"]
  /\ chunk = [t \in Threads |-> <<>>]
  /\ job = [t \in Threads |-> NoJob]
  /\ visited = [t \in Threads |-> {}]
  /\ expanded = [t \in Threads |-> {}]
  /\ cands = [t \in Threads |-> {}]
  /\ nbrs = [t \in Threads |-> <<>>]
  /\ peer = [t \in Threads |-> 0]
  /\ hop = [t \in Threads |-> NoHop]

Goto(t, label) == pc' = [pc EXCEPT ![t] = label]

\* No add() is under way.
Quiescent == ntotal = Len(storage)

-----------------------------------------------------------------------------
(* IndexAcorn::add and reset, called by one client thread.                 *)

Add ==
  /\ Quiescent
  /\ \E n \in BatchSizes :
       /\ Len(storage) + n <= MaxVecs
       /\ \E batch \in [1 .. n -> Points \ ToSet(storage)] :
            /\ IsInjective(batch)
            /\ storage' = storage \o batch
  /\ UNCHANGED <<ntotal, claimed, graphVars, pc, chunk, locals>>

\* A free thread takes the next chunk of the parallel loop.
Claim(t) ==
  /\ pc[t] = "idle" /\ chunk[t] = <<>>
  /\ claimed < Len(storage)
  /\ LET last == IF claimed + Chunk < Len(storage)
                 THEN claimed + Chunk ELSE Len(storage)
     IN /\ chunk' = [chunk EXCEPT ![t] = [i \in 1 .. last - claimed |-> claimed + i]]
        /\ claimed' = last
  /\ UNCHANGED <<storage, ntotal, graphVars, pc, locals>>

\* The barrier that ends the parallel region.  Mutant: nowait.
TeamNowait == claimed = Len(storage)
TeamDone ==
  /\ claimed = Len(storage)
  /\ \A t \in Threads : pc[t] = "idle" /\ chunk[t] = <<>>

\* The last line of add().
AddEnd ==
  /\ ~ Quiescent /\ TeamDone
  /\ ntotal' = Len(storage)
  /\ UNCHANGED <<storage, claimed, graphVars, pc, chunk, locals>>

reset ==
  /\ Quiescent /\ ntotal > 0
  /\ storage' = <<>> /\ ntotal' = 0 /\ claimed' = 0
  /\ layers' = 0
  /\ indexes' = [l \in Layers |-> <<>>]
  /\ down' = [l \in Layers |-> <<>>]
  /\ graph' = [l \in Layers |-> <<>>]
  /\ UNCHANGED <<pc, chunk, locals>>

-----------------------------------------------------------------------------
(* addSingle, up to the layer where the new node is linked first.          *)

\* Start searchLayerSafe from the entry node of the job j.
StartSearch(t, j) ==
  /\ visited' = [visited EXCEPT ![t] = {j.entry}]
  /\ expanded' = [expanded EXCEPT ![t] = {}]

ReadMaxLayer(t) ==
  /\ pc[t] = "idle" /\ chunk[t] # <<>>
  /\ job' = [job EXCEPT ![t] = NewJob(Head(chunk[t]), getMaxLayer)]
  /\ chunk' = [chunk EXCEPT ![t] = Tail(@)]
  /\ Goto(t, "addNode")
  /\ UNCHANGED <<indexVars, graphVars, visited, expanded, cands, nbrs, peer, hop>>

\* The number of a new node in the layer below, appended just before.
\* Mutant: size() before the push_back.
StaleDownwardsEdge(k) == Len(indexes[k-1])
DownwardsEdge(k) == Len(indexes[k-1]) + 1

\* addNode appends.  Mutant: push_front.
PushFront(list, e) == <<e>> \o list
PushBack(list, e) == Append(list, e)

\* assignLayer draws any layer; addNode appends the vector to it and to all
\* layers below, under expansion_lock.
addNode(t) ==
  /\ pc[t] = "addNode"
  /\ \E l \in Layers :
       LET j == [job[t] EXCEPT !.assigned = l,
                               !.node = Len(indexes[l]) + 1,
                               !.entry = getEntryPoint,
                               !.layer = job[t].top]
       IN /\ layers' = IF layers <= l THEN l + 1 ELSE layers
          /\ indexes' = [k \in Layers |->
               IF k <= l THEN PushBack(indexes[k], job[t].vec) ELSE indexes[k]]
          /\ down' = [k \in Layers |->
               IF k \in 1 .. l THEN PushBack(down[k], DownwardsEdge(k)) ELSE down[k]]
          /\ graph' = [k \in Layers |->
               IF k <= l THEN PushBack(graph[k], <<>>) ELSE graph[k]]
          /\ job' = [job EXCEPT ![t] = j]
          /\ IF j.top > l THEN StartSearch(t, j) /\ Goto(t, "descend")
             ELSE UNCHANGED <<visited, expanded>> /\ Goto(t, "readTop")
  /\ UNCHANGED <<indexVars, chunk, cands, nbrs, peer, hop>>

\* The vector the thread inserts, and ef of the search it is in.
Query(t) == storage[job[t].vec]
SearchEf(t) == IF pc[t] = "descend" THEN 1 ELSE efConstruction

\* The nodes in the frontier that still beat the worst result.
Frontier(t) ==
  NearestOf(SearchEf(t), job[t].layer, Query(t), visited[t]) \ expanded[t]

\* One round of searchLayerSafe: pop the best node of the frontier and visit
\* the first M of its neighbours, read under its lock.
Expand(t) ==
  /\ pc[t] \in {"descend", "search"}
  /\ \E n \in Best(job[t].layer, Query(t), Frontier(t)) :
       LET list == graph[job[t].layer][n]
           seen == {list[i] : i \in {k \in DOMAIN list : k <= M}}
       IN /\ visited' = [visited EXCEPT ![t] = @ \cup seen]
          /\ expanded' = [expanded EXCEPT ![t] = @ \cup {n}]
  /\ UNCHANGED <<indexVars, graphVars, pc, chunk, job, cands, nbrs, peer, hop>>

\* End of one round of the descent: go down through the best node.
DescendEnd(t) ==
  /\ pc[t] = "descend" /\ Frontier(t) = {}
  /\ \E n \in Best(job[t].layer, Query(t), visited[t]) :
       LET j == [job[t] EXCEPT !.entry = getDownwardsNode(job[t].layer, n),
                               !.layer = @ - 1]
       IN /\ job' = [job EXCEPT ![t] = j]
          /\ IF j.layer > j.assigned
             THEN StartSearch(t, j) /\ Goto(t, "descend")
             ELSE /\ visited' = [visited EXCEPT ![t] = {}]
                  /\ expanded' = [expanded EXCEPT ![t] = {}]
                  /\ Goto(t, "readTop")
  /\ UNCHANGED <<indexVars, graphVars, chunk, cands, nbrs, peer, hop>>

\* One layer down with the new node.
NodeBelow(j) ==
  [j EXCEPT !.node = getDownwardsNode(j.layer, j.node), !.layer = j.layer - 1]

\* The second loop starts at the top layer of now, not of ReadMaxLayer.
ReadTop(t) ==
  /\ pc[t] = "readTop"
  /\ job' = [job EXCEPT ![t].layer = getMaxLayer]
  /\ Goto(t, "remap")
  /\ UNCHANGED <<indexVars, graphVars, chunk, visited, expanded, cands, nbrs, peer, hop>>

Remap(t) ==
  /\ pc[t] = "remap" /\ job[t].layer > job[t].top
  /\ job' = [job EXCEPT ![t] = NodeBelow(@)]
  /\ UNCHANGED <<indexVars, graphVars, pc, chunk, visited, expanded, cands, nbrs, peer, hop>>

\* The third loop starts at std::min(max_layer, assigned_layer).
\* Mutant: at the assigned layer.
AssignedLayer(j) == j.assigned
FirstLinkedLayer(j) == IF j.top <= j.assigned THEN j.top ELSE j.assigned

RemapEnd(t) ==
  /\ pc[t] = "remap" /\ job[t].layer <= job[t].top
  /\ LET j == [job[t] EXCEPT !.layer = FirstLinkedLayer(job[t])]
     IN job' = [job EXCEPT ![t] = j] /\ StartSearch(t, j)
  /\ Goto(t, "search")
  /\ UNCHANGED <<indexVars, graphVars, chunk, cands, nbrs, peer, hop>>

-----------------------------------------------------------------------------
(* One layer of the third loop: search, addInitialEdges, then the pruning  *)
(* of the new node's neighbours.                                           *)

SearchEnd(t) ==
  /\ pc[t] = "search" /\ Frontier(t) = {}
  /\ \E n \in Best(job[t].layer, Query(t), visited[t]) :
       job' = [job EXCEPT ![t].entry = getDownwardsNode(job[t].layer, n)]
  /\ cands' = [cands EXCEPT ![t] =
       NearestOf(max_neighbors, job[t].layer, Query(t), visited[t])]
  /\ visited' = [visited EXCEPT ![t] = {}]
  /\ expanded' = [expanded EXCEPT ![t] = {}]
  /\ Goto(t, "link")
  /\ UNCHANGED <<indexVars, graphVars, chunk, nbrs, peer, hop>>

\* addDirectedEdge refuses an edge of a node to itself.  Mutant: it does not.
NeverRefused(n1, n2) == FALSE
RefusedEdge(n1, n2) == n1 = n2

\* addDirectedEdge(candidate, new_node), under both node locks.
LinkIn(t) ==
  /\ pc[t] = "link"
  /\ \E c \in Best(job[t].layer, Query(t), cands[t]) :
       /\ cands' = [cands EXCEPT ![t] = @ \ {c}]
       /\ IF RefusedEdge(c, job[t].node)
          THEN UNCHANGED <<graph, pc, peer>>
          ELSE /\ \E i \in InsertPositions(job[t].layer, c, job[t].node) :
                    graph' = [graph EXCEPT ![job[t].layer][c] =
                                InsertAt(@, i, job[t].node)]
               /\ peer' = [peer EXCEPT ![t] = c]
               /\ Goto(t, "linkBack")
  /\ UNCHANGED <<indexVars, layers, indexes, down, chunk, job, visited, expanded, nbrs, hop>>

\* The other direction, later, under the new node's lock.
LinkBack(t) ==
  /\ pc[t] = "linkBack"
  /\ graph' = [graph EXCEPT ![job[t].layer][job[t].node] = Append(@, peer[t])]
  /\ peer' = [peer EXCEPT ![t] = 0]
  /\ Goto(t, "link")
  /\ UNCHANGED <<indexVars, layers, indexes, down, chunk, job, visited, expanded, cands, nbrs, hop>>

\* new_neighbors: a copy of the new node's list.
ReadNeighbors(t) ==
  /\ pc[t] = "link" /\ cands[t] = {}
  /\ nbrs' = [nbrs EXCEPT ![t] = graph[job[t].layer][job[t].node]]
  /\ Goto(t, "check")
  /\ UNCHANGED <<indexVars, graphVars, chunk, job, visited, expanded, cands, peer, hop>>

\* Mutant: without i++.
SameNeighbor(t) == UNCHANGED nbrs /\ Goto(t, "check")
NextNeighbor(t) ==
  /\ nbrs' = [nbrs EXCEPT ![t] = Tail(@)]
  /\ Goto(t, "check")

\* The length of the next neighbour's list decides whether it is pruned.
Check(t) ==
  /\ pc[t] = "check" /\ nbrs[t] # <<>>
  /\ LET length == Len(graph[job[t].layer][Head(nbrs[t])])
     IN \/ /\ Overfull(job[t].layer, length)
           /\ Goto(t, IF job[t].layer > 0 THEN "readLast" ELSE "twoHop")
           /\ UNCHANGED nbrs
        \/ /\ ~ Overfull(job[t].layer, length)
           /\ NextNeighbor(t)
  /\ UNCHANGED <<indexVars, graphVars, chunk, job, visited, expanded, cands, peer, hop>>

\* All neighbours checked: on to the layer below, or to the next vector.
NextLayer(t) ==
  /\ pc[t] = "check" /\ nbrs[t] = <<>>
  /\ LET j == NodeBelow(job[t])
     IN IF j.layer >= 0
        THEN /\ job' = [job EXCEPT ![t] = j]
             /\ StartSearch(t, j)
             /\ Goto(t, "search")
        ELSE /\ job' = [job EXCEPT ![t] = NoJob]
             /\ Goto(t, "idle")
             /\ UNCHANGED <<visited, expanded>>
  /\ UNCHANGED <<indexVars, graphVars, chunk, cands, nbrs, peer, hop>>

-----------------------------------------------------------------------------
(* removeLast, layers above 0.  back() and pop_back() of an empty vector    *)
(* are undefined: the thread is lost.                                       *)

ReadLast(t) ==
  /\ pc[t] = "readLast"
  /\ LET list == graph[job[t].layer][Head(nbrs[t])]
     IN IF list = <<>>
        THEN Goto(t, "fault") /\ UNCHANGED peer
        ELSE Goto(t, "popLast") /\ peer' = [peer EXCEPT ![t] = Last(list)]
  /\ UNCHANGED <<indexVars, graphVars, chunk, job, visited, expanded, cands, nbrs, hop>>

\* Both locks are held: whatever is last now is dropped, and the node that
\* was last before loses its edge to h.  A lock cannot be taken twice.
PopLast(t) ==
  LET l == job[t].layer
      h == Head(nbrs[t])
  IN /\ pc[t] = "popLast" /\ peer[t] # h
     /\ IF graph[l][h] = <<>>
        THEN Goto(t, "fault") /\ UNCHANGED <<graph, nbrs, peer>>
        ELSE /\ \E rest \in Erased(graph[l][peer[t]], h) :
                  graph' = [graph EXCEPT ![l][h] = Front(@), ![l][peer[t]] = rest]
             /\ peer' = [peer EXCEPT ![t] = 0]
             /\ NextNeighbor(t)
     /\ UNCHANGED <<indexVars, layers, indexes, down, chunk, job, visited, expanded, cands, hop>>

-----------------------------------------------------------------------------
(* twoHopPruning, layer 0.                                                  *)

\* old_neighbors, of which the first Mbeta are kept.
twoHopPruning(t) ==
  /\ pc[t] = "twoHop"
  /\ LET old == graph[0][Head(nbrs[t])]
         cut == IF Len(old) < Mbeta THEN Len(old) ELSE Mbeta
     IN hop' = [hop EXCEPT ![t] = [rest |-> SubSeq(old, cut + 1, Len(old)),
                                   kept |-> SubSeq(old, 1, cut),
                                   disc |-> <<>>, dyn |-> {}]]
  /\ Goto(t, "twoHopScan")
  /\ UNCHANGED <<indexVars, graphVars, chunk, job, visited, expanded, cands, nbrs, peer>>

TwoHopOpen(h) ==
  h.rest # <<>> /\ Len(h.kept) + Cardinality(h.dyn) < max_neighbors

\* A candidate two hops already reach is discarded; any other is kept and
\* its neighbours, read under its lock, are reached from now on.
TwoHopScan(t) ==
  LET h == hop[t]
      c == Head(h.rest)
      twoHop == c \in h.dyn
  IN /\ pc[t] = "twoHopScan" /\ TwoHopOpen(h)
     /\ hop' = [hop EXCEPT ![t] =
          [rest |-> Tail(h.rest),
           kept |-> IF twoHop THEN h.kept ELSE Append(h.kept, c),
           disc |-> IF twoHop THEN Append(h.disc, c) ELSE h.disc,
           dyn  |-> IF twoHop THEN h.dyn ELSE h.dyn \cup ToSet(graph[0][c])]]
     /\ UNCHANGED <<indexVars, graphVars, pc, chunk, job, visited, expanded, cands, nbrs, peer>>

\* The list read by twoHopPruning(t) is replaced, whatever it is by now.
TwoHopWrite(t) ==
  /\ pc[t] = "twoHopScan" /\ ~ TwoHopOpen(hop[t])
  /\ graph' = [graph EXCEPT ![0][Head(nbrs[t])] = hop[t].kept]
  /\ hop' = [hop EXCEPT ![t] = [rest |-> <<>>, kept |-> <<>>, dyn |-> {},
                                disc |-> hop[t].disc \o hop[t].rest]]
  /\ Goto(t, "unlink")
  /\ UNCHANGED <<indexVars, layers, indexes, down, chunk, job, visited, expanded, cands, nbrs, peer>>

\* removeDirectedEdge(discarded, node), one discarded neighbour at a time.
Unlink(t) ==
  /\ pc[t] = "unlink" /\ hop[t].disc # <<>>
  /\ LET d == Head(hop[t].disc)
     IN \E rest \in Erased(graph[0][d], Head(nbrs[t])) :
          graph' = [graph EXCEPT ![0][d] = rest]
  /\ hop' = [hop EXCEPT ![t].disc = Tail(@)]
  /\ UNCHANGED <<indexVars, layers, indexes, down, pc, chunk, job, visited, expanded, cands, nbrs, peer>>

UnlinkEnd(t) ==
  /\ pc[t] = "unlink" /\ hop[t].disc = <<>>
  /\ NextNeighbor(t)
  /\ UNCHANGED <<indexVars, graphVars, chunk, job, visited, expanded, cands, peer, hop>>

-----------------------------------------------------------------------------
addSingle(t) ==
  \/ ReadMaxLayer(t) \/ addNode(t) \/ Expand(t) \/ DescendEnd(t)
  \/ ReadTop(t) \/ Remap(t) \/ RemapEnd(t) \/ SearchEnd(t)
  \/ LinkIn(t) \/ LinkBack(t) \/ ReadNeighbors(t) \/ Check(t) \/ NextLayer(t)
  \/ ReadLast(t) \/ PopLast(t)
  \/ twoHopPruning(t) \/ TwoHopScan(t) \/ TwoHopWrite(t)
  \/ Unlink(t) \/ UnlinkEnd(t)

ThreadStep(t) == Claim(t) \/ addSingle(t)

\* A thread has run into undefined behaviour; the model keeps it there.
Faulted == \E t \in Threads : pc[t] = "fault"

Undefined == Faulted /\ UNCHANGED vars

Next ==
  \/ Add \/ AddEnd \/ reset
  \/ \E t \in Threads : ThreadStep(t)
  \/ Undefined

Spec == Init /\ [][Next]_vars

\* A running thread is scheduled; the client need not call add or reset.
Fairness ==
  /\ WF_vars(AddEnd)
  /\ \A t \in Threads : WF_vars(ThreadStep(t))
-----------------------------------------------------------------------------
(* Properties                                                               *)

Labels == {"idle", "addNode", "descend", "readTop", "remap", "search", "link",
           "linkBack", "check", "readLast", "popLast", "twoHop", "twoHopScan",
           "unlink", "fault"}

Jobs == [vec : Nat, top : Layers, assigned : Layers, node : Nat, entry : Nat,
         layer : Layers]
Hops == [rest : Seq(Nat), kept : Seq(Nat), disc : Seq(Nat), dyn : SUBSET Nat]

\* Every variable has its type (IndexAcorn.h:22-37, HierarchicalGraph.h:43-59).
TypeOK ==
  /\ storage \in Seq(Points) /\ ntotal \in Nat /\ claimed \in Nat
  /\ layers \in 0 .. TopLayer + 1
  /\ indexes \in [Layers -> Seq(Nat)]
  /\ down \in [Layers -> Seq(Nat)]
  /\ graph \in [Layers -> Seq(Seq(Nat))]
  /\ pc \in [Threads -> Labels]
  /\ chunk \in [Threads -> Seq(Nat)]
  /\ job \in [Threads -> Jobs]
  /\ visited \in [Threads -> SUBSET Nat]
  /\ expanded \in [Threads -> SUBSET Nat]
  /\ cands \in [Threads -> SUBSET Nat]
  /\ nbrs \in [Threads -> Seq(Nat)]
  /\ peer \in [Threads -> Nat]
  /\ hop \in [Threads -> Hops]

\* The deques of the graph stay parallel however the threads' addNode calls
\* interleave: a layer below graph.size() has a node and no more nodes than
\* the layers under it, each node has a list, and its downward edge names the
\* node of the same vector one layer down.
LayersNested ==
  \A l \in Layers :
    /\ Len(graph[l]) = Len(indexes[l])
    /\ (Nodes(l) # {}) <=> (l < layers)
    /\ \A k \in 0 .. l : Nodes(l) \subseteq Nodes(k)
    /\ l > 0 =>
         /\ Len(down[l]) = Len(indexes[l])
         /\ \A n \in Nodes(l) :
              /\ down[l][n] \in Nodes(l-1)
              /\ indexes[l-1][down[l][n]] = indexes[l][n]

\* Every edge goes to another node of its own layer: no search reads past a
\* deque, and addDirectedEdge and removeLast never lock one node twice.
EdgesSound ==
  \A l \in Layers : \A n \in Nodes(l) : graph[l][n] \in Seq(Nodes(l) \ {n})

\* When add() has returned, layer 0 holds every vector once, although the
\* threads appended in an order of their own (node n need not be vector n).
EveryVectorIndexed ==
  Quiescent =>
    /\ Len(indexes[0]) = ntotal
    /\ ToSet(indexes[0]) = 1 .. ntotal

\* Between its critical sections a thread keeps node numbers it read under a
\* lock.  Wherever it uses one again, that number is a node of the layer the
\* thread works on, whatever the others did to the graph in the meantime.
Linking == {"link", "linkBack", "check", "readLast", "popLast", "twoHop",
            "twoHopScan", "unlink"}
Pruning == {"readLast", "popLast", "twoHop", "twoHopScan", "unlink"}

\* The locals of addSingle.
JobNodesExist(t) ==
  LET j == job[t]
  IN /\ pc[t] = "addNode" => j.top = 0 \/ j.top < layers
     /\ pc[t] \in {"descend", "readTop", "remap"} =>
          j.top < layers /\ j.assigned < layers /\ j.node \in Nodes(FirstLinkedLayer(j))
     /\ pc[t] = "descend" => j.assigned < j.layer /\ j.layer <= j.top
     /\ pc[t] \in {"readTop", "remap"} => j.entry \in Nodes(FirstLinkedLayer(j))
     /\ pc[t] \in {"search"} \cup Linking => j.node \in Nodes(j.layer)
     /\ pc[t] \in Linking =>
          j.entry \in Nodes(IF j.layer = 0 THEN 0 ELSE j.layer - 1)

\* What its search, addInitialEdges, removeLast and twoHopPruning hold.
ReadNodesExist(t) ==
  LET N == Nodes(job[t].layer)
      h == Head(nbrs[t])
  IN /\ pc[t] \in {"descend", "search"} =>
          visited[t] \subseteq N /\ expanded[t] \subseteq N
     /\ pc[t] \in {"link", "linkBack"} => cands[t] \subseteq N
     /\ pc[t] = "linkBack" => peer[t] \in N \ {job[t].node}
     /\ pc[t] \in {"check"} \cup Pruning => nbrs[t] \in Seq(N)
     /\ pc[t] \in Pruning => nbrs[t] # <<>>
     /\ pc[t] = "popLast" => peer[t] \in N \ {h}
     /\ pc[t] \in {"twoHop", "twoHopScan", "unlink"} => job[t].layer = 0
     /\ pc[t] \in {"twoHopScan", "unlink"} =>
          /\ hop[t].rest \in Seq(N \ {h})
          /\ hop[t].kept \in Seq(N \ {h})
          /\ hop[t].disc \in Seq(N \ {h})

HeldNodesExist == \A t \in Threads : JobNodesExist(t) /\ ReadNodesExist(t)

\* add and reset find no thread at work.
TeamAtRest ==
  /\ ntotal <= claimed /\ claimed <= Len(storage)
  /\ Quiescent => \A t \in Threads : pc[t] = "idle" /\ chunk[t] = <<>>

\* The inductive invariant.
IInv == TypeOK /\ LayersNested /\ EdgesSound /\ HeldNodesExist /\ TeamAtRest

\* A node that is in the graph keeps its number, vector and downward edge
\* until reset(): threads hold node numbers without a lock.
NodesStable ==
  [][storage' # <<>> =>
       \A l \in Layers : /\ IsPrefix(indexes[l], indexes'[l])
                         /\ IsPrefix(down[l], down'[l])]_vars

\* add() returns, unless the threads ran into undefined behaviour.
AddTerminates == ~ Quiescent ~> (Quiescent \/ Faulted)

\* HierarchicalGraph.cpp:716-717: "since 100% bidirectional, undirected BFS
\* holds".  When add() has returned, every edge has its reverse.
Bidirectional ==
  Quiescent => \A l \in Layers : \A n \in Nodes(l) :
    \A i \in DOMAIN graph[l][n] : Contains(graph[l][graph[l][n][i]], n)

\* addDirectedEdge inserts "to sorted list" (HierarchicalGraph.cpp:226): each
\* list is in order of distance to its owner, whenever no thread is half-way.
ListsSorted ==
  Quiescent => \A l \in Layers : \A n \in Nodes(l) :
    \A i, j \in DOMAIN graph[l][n] :
      i < j => ~ Closer(l, VectorOf(l, n), graph[l][n][j], graph[l][n][i])

\* No list is longer than max_neighbors when add() has returned.
DegreeBound ==
  Quiescent => \A l \in Layers : \A n \in Nodes(l) :
    Len(graph[l][n]) <= max_neighbors

\* Every node of a layer can be reached from the entry point of the layer,
\* where every search of it begins (as long as no list had to be pruned).
Reached(l) ==
  LET grow[k \in 0 .. MaxVecs] ==
        IF k = 0 THEN {getEntryPoint}
        ELSE grow[k-1] \cup UNION {ToSet(graph[l][n]) : n \in grow[k-1]}
  IN grow[MaxVecs]

LayersConnected ==
  Quiescent => \A l \in Layers : l < layers => Reached(l) = Nodes(l)

\* HierarchicalGraph.cpp:282: "candidates are meant to be sorted regarding
\* dist to new_node".  The candidate linked next is the nearest to the node
\* it is linked to, not only to the vector the search was made for.
CandidatesFitNode ==
  \A t \in Threads : pc[t] = "link" =>
    LET l == job[t].layer
    IN Best(l, Query(t), cands[t]) = Best(l, VectorOf(l, job[t].node), cands[t])
===============================================================================
