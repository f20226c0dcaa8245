# Verification of benchmark_ANN_filter_algorithms

TLA+ specifications of the parts of this repository that carry its own logic:
the two indexes it adds to faiss (ACORN, built by several threads and searched
under a filter, and IVF-Squared, one index per label), the filters and the
thread pool of its algorithm wrappers, and the benchmark's files: the store of
saved indexes and the log of results. TLC checks them on small instances; TLAPS
proves the most important properties for every value of the constants.

## 1. The system

A benchmark script (`src/src/benchmark/*_bench.py`) calls `runFullBenchmark`,
which starts one worker process after the other. A worker
(`BenchmarkRunner.run`) asks `SaveManager` for a saved index, loads it or builds
and saves one, answers the queries through a thread pool (`BaseANNIndex.query`)
and logs the results (`BenchmarkLogger`), to which `postprocess.py` adds later.
The algorithms are native indexes under `src/faiss/faiss`, of which ACORN,
IVF-Squared and the shared label indexes are this repository's own.

| Component | State | Operations | Hard behaviour | What makes it correct |
|---|---|---|---|---|
| ACORN construction (`IndexAcorn.cpp:147-323`, `HierarchicalGraph.cpp`) | storage, layers, downward edges, adjacency lists, a lock per node | `add` (OpenMP team), `addSingle`, `addNode`, `addDirectedEdge`, `removeLast`, `twoHopPruning`, `reset` | node numbers and list copies kept across critical sections | parallel deques, sound edges, every vector indexed once, two-way sorted bounded lists |
| ACORN search (`IndexAcorn.cpp:325-522`) | none of its own | `search`, `searchLayer`, `searchSingle` | sampled switch to an exact scan, filter on two hops, entry node | labels are members of the filter, stored, in order; search returns |
| ACORN files (`IndexAcorn.cpp:52-145`) | index file, dataset file | `writeToFile`, file constructor | torn files, locks that are not restored | what is loaded is what was saved |
| Graph statistics (`HierarchicalGraph.cpp:440-876`) | none | connected components, averages | assumes a symmetric graph | the components reported are those of the graph |
| IVF-Squared (`IndexIVFSquared.cpp`) | storage, label, bit-vector and pair tables | `add_tags_c`, `search`, `reset`, `writeToFile`, file constructor | dispatch by four size limits, repeated `add_tags_c`, what a reload leaves out | each filter answered by an index that has all its members |
| Shared label indexes (`Index*Shared.cpp`) | ids in a shared storage | `add`, `search`, `get_candidates` | storage and comparator after a reload | local and global ids agree |
| Query pool (`baseIndex.py`) | futures, result rows | `query` | order of tasks, exceptions of both pools | row i is query i; the first failure surfaces |
| Attribute filters (`algorithms/utils.py`) and wrappers | attribute index | conjunction, CNF, CSR predicates; id lists | padding with -1, open dimensions, unknown values | both ways to apply a filter select the same rows |
| Saved indexes (`save_manager.py`) and runner (`benchmarkRunner.py`, `benchmark_helper.py`) | files | `prepare_folders`, `find_saved_files`, `run` | killed workers, concurrent scripts, timestamps | a run uses an index of its parameters |
| Result log (`logger.py`, `postprocess.py`) | run directories, registry | `log_benchmark`, `log_recall`, ..., `copy_construction_metrics` | four rewrites of one file by two programs, kills | a registered run can be read; its metrics are of its own index |
| Datasets, analysers, plots; vendored faiss and ParlayANN | – | – | – | not modelled: I/O and numerics, third-party code |

`PROJECT.json` lists each with its status, and the hazards of the code at the
line where they bite.

## 2. Modules

| Module | What it is |
|---|---|
| `AcornBuild` | `IndexAcorn::add` and `reset` over the `HierarchicalGraph` |
| `AcornSearch` | extends `AcornBuild` with `IndexAcorn::search` and maps it to `AnnIndex` |
| `GraphStats` | extends `AcornSearch` with `getConnectedComponents` |
| `AnnIndex` | what an index promises its client: the abstract specification |
| `IVFSquared` | `IndexIVFSquared` and what it asks of its label indexes; maps it to `AnnIndex` |
| `AttributeFilter` | the filters of the wrappers as operators |
| `QueryPool` | extends `AttributeFilter` with `BaseANNIndex.query` and the wrappers' single queries |
| `SaveStore` | the workers of `runFullBenchmark` over the files of `SaveManager` |
| `ResultLog` | extends `SaveStore` with `BenchmarkLogger` and `postprocess.py` |
| `MCAcornBuild`, `MCAcornSearch`, `MCIVFSquared`, `MCQueryPool`, `MCResultLog` | values of the constants, and symmetry, for TLC |
| `AcornBuild_proofs` | the inductive invariant of construction and what follows |
| `AcornIndexed_proofs` | no vector is lost or inserted twice |
| `AcornSequential_proofs` | the adjacency lists that a team of one thread makes |
| `AcornSearch_proofs` | which ids may escape the filter; refinement of `AnnIndex` |
| `IVFSquared_proofs` | the tables are those of the vectors; what each branch answers; refinement of `AnnIndex` |
| `QueryPool_proofs` | the rows, the two pools, the exceptions, and what the filters select |
| `AcornConnected_proofs` | reachability: the components that `getConnectedComponents` counts, connected layers, exact searches |
| `ResultLog_proofs` | a run loads and logs only what is its own |

`AnnIndex` is refined twice, by ACORN with one stray label and by IVF-Squared
with none. `QueryPool` asks of the index behind a wrapper no more than that: it
may miss any row, and an ACORN may list one row, that of its entry point, which
the filter does not hold.

### AcornBuild

Vectors are the ids 1, 2, ... of `storage`, a sequence over `Points`; `Dist` is
the metric, without ties between two neighbours of one point. `indexes`, `down`
and `graph` are the code's `indexes`, `downwards_edges` and `graph` (`down[l]` is
`downwards_edges[l-1]`). Numbers count from 1 where the code counts from 0.

Each thread walks through `addSingle`: `Claim` takes a chunk of the loop
(`schedule(dynamic, Chunk)`), `ReadMaxLayer` reads the top layer, `addNode`
appends the vector under `expansion_lock` to every layer up to the one
`assignLayer` drew (any), `Expand` and `DescendEnd` are the greedy descent,
`ReadTop` and `Remap` the second loop, which starts at the top layer *of now*,
and for each layer of the third loop `Expand`/`SearchEnd`, `LinkIn`/`LinkBack`
(the two halves of `addInitialEdges`), `ReadNeighbors`, `Check`, and either
`ReadLast`/`PopLast` (`removeLast`) or `twoHopPruning`, `TwoHopScan`,
`TwoHopWrite`, `Unlink`. A critical section is one step, because it takes its
locks in increasing order and releases all of them at its end; what lies between
two sections is a step of its own. `back()` and `pop_back()` of an empty vector
are undefined: the thread enters `"fault"` and stays.

`NearestOf` stands for the bounded max-heap, `Best` for `pop_min`; the
frontier is what is visited, among the best `ef`, and not expanded, which is when
the code's loop does not break. `InsertPositions` is what `std::lower_bound` can
return, also on a list that is not sorted.

### AcornSearch and GraphStats

One client at a time. `search` draws how many of `ntotal` sampled ids the filter
has (any number, unless the filter is empty or full) and takes `StorageSearch`
below selectivity 1/gamma, else the graph: `searchLayer` is one round of the
loop, with the first M new members met by the first hop and, on layer 0, by the
neighbours from Mbeta on (`Places`, `NewlyMet`); `Descend` and `searchSingle` end
a layer. A query without a selector is one whose filter is full.

`KeepsPromise` is refinement: with `stored` the first `ntotal` vectors and
`answer` the labels, each step of the index is a step of `AnnIndex` or changes
nothing there. The promise is the one the code keeps: at most one label (the
entry point's vector) outside the filter.

`getConnectedComponents` is a function of a layer: it walks in node order from
each node not yet visited, along the edges as stored. `ComponentsCounted` compares
its three numbers with the components in the undirected sense.

### IVFSquared

The state is the vectors and the four tables of the code: a label index per tag
(`kind` small or large by `cut_off`, its ids, whether its storage is bound, and
the comparator of its graph, which a small label does not have), a bit vector per
frequent tag, and a graph per frequent pair of
large labels. `tagged` is what the caller has passed so far; nothing but the
properties and the next `add_tags_c` reads it (the caller passes arrays that
cover all vectors). `search` keeps the query; one action per branch of the
dispatch answers it: `Unfiltered`, `SingleScan`, `SingleSearch`, `UnknownTag`,
`DualTiny` (the join of the smaller label with the membership of the larger),
`DualPair`, `DualGeneral`; a second tag without a first gets no label, as in the
code. k-means lists and graphs are approximate: `Candidates`
are any ids that lists filled up to `n_target` may give, `Walks` any ids a walk
may find. `rerank_candidates` orders what it gets. `readFromFile` is the file
constructor, with what it does not read back: the storage of a small label index
and the comparator of the graph of a large label or pair.

### AttributeFilter and QueryPool

A filter is a conjunction (one value or ANY per dimension), a CNF (a set of
values per dimension) or a set of tags. `get_valid_ids_*` are the id lists of
`AttributeIndex`, with the code's `None` for "no restriction yet"; `valid_*` are
the tests of one row, where -1 is the last row for numpy and no row for CSR.
`Narrowing` is the loop of both `get_valid_ids_*`, `Kept` the elements a loop
appends, `Postfiltered` the post-filter of `HNSWPostfilter`.

`QueryPool` has a main thread (`StartWarmUp`, `Submit`, `EndWarmUp`, `Collect`,
`WriteRows`, `Raise`) and the threads of the pool in use (`Take`,
`timed_single_query`). The two `with` statements are `Shutdown`; an outcome or
an exception goes to the task's future and `Collect` takes them in the order of
the queries. `Search` lists any of the rows it may, near ones first. For a wrapper
that passes a list of ids (`"idfilter"`: `acorn.py`, `ivf_id_filter.py`) these are
`Admitted`: the rows of the filter and, if there are any, the row of `entry`, which
`searchLayer` pushes without asking the filter (`IndexAcorn.cpp:388`); a filter
without rows is a scan (`IndexAcorn.cpp:349`). `entry` is fixed while `query()` runs
and absent for an inverted file.

### SaveStore and ResultLog

A worker's step is a read or write of one file: `find_saved_files` (the listing),
`Look` (one folder), `LoadGraph`, `LoadDataset`, or `build`, `prepare_folders`,
`WriteMetadata`, `OpenIndex`, `CloseIndex`, `OpenDataset`, `CloseDataset`. A file
that is open for writing is torn; a worker that finds a torn one throws and ends,
and `p.join()` does not look at its exit code. `Crash` ends a worker between any
two steps and leaves the files as they are. `now` is the second of the latest
`prepare_folders`; `FreshSecond` says that every build is saved in a second of
its own, which is what a build of more than a second gives.

A worker that holds an index logs: `SaveArrays`, `OpenMetadata`,
`CloseMetadata`, `_update_master_registry`, then the recall. The four rewrites of
`metadata.json` (recall, latency, file sizes, construction metrics) share their
steps: `Read`, `Change`, `Truncate`, `Write`, by a worker or by `postprocess.py`
(`Post`), which visits the directories it found at its start. A write into a file
another has filled since it was truncated may leave a tail of the longer content
(`Mixed`). `KillWorker` and `KillLogger` stop either anywhere.

`postprocess.py` runs once. Its search for construction metrics reads the
directories one by one; here it is one step, at the moment it comes upon a match or
ends, and `late` holds what workers write meanwhile, which it may have passed too
early. `MaxBeside` is a bound: up to that many runs `postprocess.py` starts and goes
on beside workers in any interleaving, and with more of them it starts only when all
are through.

A run directory is named by index, dataset and second of local time, and one that
exists is accepted (`logger.py:21-24`): `SaveArrays` makes a new one or, unless
`FreshLog`, takes any that is there, with the metadata of the run that has it.
`shared` notes the directories of two runs and those in which a writer began
(opened the metadata, or read it) while another was not through. What the arrays
hold is left out: a reader that finds them half overwritten raises, which ends it
as a kill does.

## 3. Runs

| Run | Bounds | What it shows |
|---|---|---|
| `acorn_search` | 1 thread, 4 vectors, 2 layers, lists capped at 2, Mbeta 1, two-hop cutoff 1 | the sequential graph is symmetric, sorted, within its degree bound, its components are those reported; only the entry point escapes the filter; refinement of `AnnIndex`; search returns |
| `acorn_conc` | 2 threads, 3 vectors, same caps | types, nested layers, sound edges, all vectors indexed, held node numbers valid, nodes stable, in every interleaving |
| `acorn_team` | 2 threads, 2 vectors, 2 layers, weak fairness | `add` returns (or has met undefined behaviour); then any query on any graph of the two: node numbers are a permutation of the ids, and filter, distance and label go by the id |
| `acorn_wide` | 1 thread, 4 vectors, 2 layers, M, Mbeta and efSearch 4: no cap binds | layers connected from the entry point; unfiltered search is exact |
| `ivf` | 2 tags, up to 4 vectors in 2 calls, 2 of them equal; cut_off and cut_off_bitvector 3; cut_off_tiny 1, 2, 4; every query with up to 2 tags | every branch lists carriers of the tags only; small labels are exact; tables follow the vectors; reload binds what is searched; refinement of `AnnIndex` |
| `pool` | 2 threads, 3 queries, 2 of them warm-up, 3 rows, k 2 of 4 hits; every kind of filter and wrapper, any entry point | row i answers query i, with rows of its filter up to the entry point; both ways to filter agree; padding is harmless; first failure raised; pools apart; `query` ends |
| `store` | 2 scripts, 3 workers, 2 parameters, a worker and a logger killed, run directories that may be shared, `postprocess.py` beside the first 2 runs or after all 3 | a run answers from its own parameters' graph; a logged index stays saved; a registered run has metadata, unreadable only while it is open, after a kill, or where two writers met; in other directories what is finished stays complete; metrics are of the run's own index |
| `acorn_bidirectional` | as `acorn_conc` | **violated**: `twoHopPruning` overwrites a list linked into since it was copied |
| `acorn_mismap` | as `acorn_conc` | **violated**: candidates of one vector are linked to another's node |
| `acorn_filter` | as `acorn_search` | **violated**: an answer lists an id outside the filter |
| `store_torn` | 1 script, 3 workers, 1 killed | **violated**: an index "already built" is torn, and never rebuilt |
| `ivf_reload` | as `ivf`, metric a similarity | **violated**: a reloaded graph of a large label is walked by the comparator of a distance |

The violations contradict what a comment, docstring or message of the repository
says; `PROJECT.json` quotes each.

*Why the bounds are enough.* The parameters are small so that their limits bind:
with M·gamma = 2 and a two-hop cutoff of 1 both prunings happen with three
vectors, two layers make a thread open a layer another has not seen, and chunks
of one vector let two threads meet in every step of `addSingle`. The points of a
line (0, 1, 3, 7) have distinct distances and distinct insertion orders. In
`acorn_search` Mbeta = 1 makes layer 0 prune and its searches take the second hop,
and every filter and sample count is tried. In `ivf` a label of two is small and
one of three large, cut_off_tiny lies below, at and above these sizes, and the
second call moves a label, a bit vector and a pair over its limit; both orders of
two tags, an unknown tag and a second tag without a first are asked. In `pool` the
first query fails or not, in the warm-up, the timed pool or both; its filter is
open, narrow or without rows, and the entry point is each row or none. `store`
needs two scripts for a reader next to a writer, a killed writer before a third
run, and two parameters for a mismatch; `MaxRuns`, `MaxCrashes` and `MaxKills` bound
it, and `MaxBeside` = 2 lets `postprocess.py` work on one directory while a worker is in
the same one or another. Metadata that is cut off or mixed on a registered run, a
lost update and a match that the search has passed too early all occur in it:
strict forms of `RegisteredReadable`, `VisitedComplete` and `MetricsTaken`, without what
they except, are violated there.
Threads, scripts and parameters are symmetric; symmetry is not used where
liveness or a refinement is checked.

*With more than one thread and more than one layer* the graph need not be
connected, and an unfiltered search with room for every node need not be exact:
TLC finds both when `acorn_wide` is given two threads. It is a consequence of
`acorn_mismap` (the new node's own edges go elsewhere), so those two properties
are stated where they hold. For the same reason `ComponentsCounted` is stated for
one thread: with two threads and three vectors TLC finds a layer whose reported
components are too many, a consequence of `acorn_bidirectional`.

*Fairness.* `Fairness` makes the steps of each OpenMP thread, and the end of
`add`, weakly fair: threads of a parallel region are scheduled, and critical
sections are short and take locks in one order. The client is not fair: it need
not call anything. `FairSearchSpec` makes the steps of a search that was begun
weakly fair: it runs on the caller's thread; `FairTeamSpec` has both. `QueryPool`
makes the main thread and each thread of a pool weakly fair: they are scheduled,
and every task ends. The other specifications claim no liveness: a process may be
killed anywhere.

*Deadlock* is checked except in the runs of `ResultLog` and `QueryPool`, which
stop: all workers are done, `query` has returned.

## 4. Proofs

All proofs assume only the modules' named assumptions: positive parameters, a
metric without ties for ACORN (any metric for IVF-Squared), a non-empty team.

**AcornBuild** (`Invariance` and its corollaries). The inductive invariant is

    IInv == TypeOK /\ LayersNested /\ EdgesSound /\ HeldNodesExist /\ TeamAtRest

- `EdgesSound` (edges stay in their layer and never loop) depends on the nodes
  a thread kept since an earlier section, hence `HeldNodesExist`: for each
  program point, which of its locals name a node of the layer it works on.
- `HeldNodesExist` is stable because other threads only append (`NodesStable`)
  and because `down` names existing nodes (`LayersNested`), and a thread's layer
  is below `graph.size()`.
- `TeamAtRest` is needed for `reset`: no thread holds a number when it happens.

`LinkIn` and `PopLast` need no lock to be taken twice because of `EdgesSound`:
the code's self-edge test in `addDirectedEdge` is what makes it hold.

**AcornIndexed** (`AllVectorsIndexed`). `Shared` says that the ids taken from the
loop are, disjointly, in layer 0 or owed by one thread (`Owed`: its chunk and the
vector between `ReadMaxLayer` and `addNode`), `Once` that neither layer 0 nor a
chunk repeats an id. When the team is at rest nothing is owed, so layer 0 is a
bijection onto the ids, and its length is `ntotal`.

**AcornSequential** (`BidirectionalAlone`, `ListsSortedAlone`,
`DegreeBoundAlone`, `NeverFaultedAlone`, each for `Threads = {t}`). With two
threads the first fails (`acorn_bidirectional`) and with it the others: a list
may grow or shrink between a copy and its use. With one, `AloneInv` is inductive:

- `StoredOnce`, `LayersOnce`: no point is stored, and no vector is in a layer,
  twice, so that distances from a node differ and bounded heaps have one content.
- `OwnNode`: the node of the layer being linked is that of the vector inserted,
  which is what `Remap` fails to ensure for two threads; `Fresh`: its lists in
  layers not yet linked are empty; `Room`: its candidates fit into the new list.
- `Mutual`: each edge has its reverse, but for those the thread has under way
  (`HalfEdge`, `Halfway`): linked one way, or removed from one list of two.
- `Ordered`: every list is sorted, which `InsertPositions` keeps, and appending
  candidates nearest first keeps the new list sorted (`InTurn`).
- `Short`: only the lists of neighbours not yet checked may be one too long
  (`Over`); `removeLast` or `twoHopPruning` makes each of them short again.
  `NoFault` follows, as a list that is too long is not empty.

At rest nothing is under way, which gives the three properties.

**AcornSearch** (`FilterEscape`, `PromiseKept`). `SearchInv` adds to `IInv` that
an index with vectors has an entry point (`Started`) and that every node met by
the search in progress belongs to its layer and is a member or the entry point's
vector (`Searching`). The last survives `Descend` because the downward edge of a
node names the same vector (`LayersNested`): the escape is one vector, not one
per layer. The refinement `PromiseKept` adds `Shared` and `Once`, which make the
labels of distinct nodes distinct stored ids, and `Posed`: the index holds still
while a query runs. Steps of threads are invisible to the client: what it sees
are the first `ntotal` vectors, and only the last line of `add` moves `ntotal`.
Both hold for any number of threads and over graphs damaged by the races above.

**AcornConnected** (`MutualIsCounted`, for any team: if every edge of a finished
graph has its reverse, the components are those counted; `ComponentsCountedAlone`,
`UnprunedConnected`, `LayersConnectedAlone`, `UnprunedExact`,
`WideSearchExactAlone` for `Threads = {t}`). A walk is a set that grows by what its
nodes point to; in a layer of at most `MaxVecs` nodes it is closed after `MaxVecs`
steps, since until then each step adds a node (`GrowthReaches`). When edges have
their reverse, what two nodes reach is the same or disjoint (`SameComponent`), so
a walk that skips visited nodes loses none and each component is counted once, at
its first node.

Connected layers and exact searches need that no list is pruned (`NeverPruned`): a
pruning may cut the only edge between two parts. `Joined` is then inductive:

- `Spanned`: every set of nodes that has the entry point and that no edge leaves is
  the whole layer, but for the node of the vector being inserted in the layers
  not yet linked (`Loose`). Stated over closed sets, it needs no paths: lists that
  only grow keep it, and the first pair of edges between a new node and another
  takes the new node in.
- `Apart`: the search for the new node's neighbours has met nodes of other vectors
  only, so that what the new node is linked to hangs on the entry point already.

That nothing is pruned is a hypothesis of the two `Unpruned` theorems, and follows
when the storage cannot outgrow the cut-off, `MaxVecs <= two_hop_prune_cutoff`, as
in `acorn_wide`: a list has each other node of its layer at most once (`ListFits`).
For the search, `Gathered` says that a wide query (all ids, `efSearch` and `M` at
least `ntotal`) has met all neighbours of the nodes it popped on layer 0. Its
frontier is empty only when the met nodes are closed under edges; as edges have
their reverse the other nodes are closed, too, and one of both sets has the entry
point: all nodes are met, wherever the descent came in. Layer 0 is a bijection onto
the ids, so their ranking is one of the storage.

**IVFSquared** (`IndexInvariant`, `AllAnswersCarryTags`,
`SmallSearchesAreExact`, `PairsAlwaysCurrent`, `MembershipAlwaysExact`,
`DelegatesAlwaysBound`, `TypeCorrect`, `PromiseKept`). The invariant
says that the tables, those on disk too, are `Current`: what one build over all
vectors of now would give, up to what a reload loses. Frequencies only grow
between two resets, which is why a bit vector or a pair that `add_tags_c` leaves
alone cannot be stale. Each branch then lists ids of the right tables. For the
order of the labels, `Places` shows that the number of ids before an id is an
injection into 0..n-1, hence onto: no place before the padding stays empty.

**QueryPool** (`TypeCorrect`, `RowsAlwaysMatch`, `FiltersAlwaysAgree`,
`PaddingNeverHarms`, `PoolsAlwaysApart`, `FirstFailureIsRaised`). The tasks in a
pool belong to the phase main is in, a future holds an exception exactly if its
query raises, and no query before the next one to collect does. `AskedOnce` says
that a timed query waits in one place (to be submitted, queued or running) and
has no outcome yet, so that no outcome is written over another and the results
main has taken stay those of the futures (`OwnOutcomes`). The rows then are right
because every outcome is: `KeptInOrder` enumerates the places that a loop keeps
in increasing order (the rank of a place is an injection into 1..n, hence onto),
`HitsInOrder` and `PostfilteredInOrder` use it for an index and for a
post-filter. `NarrowingResult` gives what the loop of `get_valid_ids_*` has after
each dimension, by induction on the dimensions. Assumed of the inputs: a ranking
has no row twice, and a CNF filter no open dimension, as in every data set.

**SaveStore and ResultLog**, both in `ResultLog_proofs`. The store
(`LoadsOwnParameters`, `LoggedStaysSaved`) is proved under `FreshSecond`. `StoreInv` says that folders of later seconds are empty, that an
index that is not torn is of the parameters in its metadata (`FoldersSound`), and
how far each worker's folder is (`WorkersSound`): while a worker saves, its folder
is nobody else's. Without `FreshSecond` TLC finds a run of a single script that
answers from another run's graph.

The log (`LoggedRunsLoadTheirOwn`, `MetricsAreOfABuild`, `RegisteredAreReadable`,
`VisitedAreComplete`, `MetricsAreTaken`) is proved over `StoreInv`. `LogInv` says
that metadata on record or in a writer's memory has no construction metrics but
those of its own parameters, and that its run is in the store's log, so that
`LoggedStaysSaved` applies to it. `SharedInv` assumes neither that directories are
of one run nor that `postprocess.py` runs alone:

- `Overlap`: two writers between reading or opening a file and writing it back work
  on different directories, or `shared` has the directory.
- `FilesSound`: a file is torn only while a writer holds it open or after one was
  killed that did, mixed only if its directory is shared; in the others a writer
  finds the file torn when it fills it.
- `KeptInv`, `PostSound`: in a directory that is not shared, what `postprocess.py`
  has finished is in the file and in the memory of whoever rewrites it, and how far
  it is with the directory it works on.

`RegisteredAreReadable`, `VisitedAreComplete` and `MetricsAreTaken` follow for any
interleaving of scripts and `postprocess.py`.

Only model-checked: liveness (`AddTerminates`, `SearchReturns`, `QueryReturns`).
Every safety property of a passing run is the property of a theorem. Induction
over numbers is a lemma about sets (`NumbersFromZero` and its like), since the
library's theorems with an operator parameter cannot be used.

## 5. Not modelled

- Growth of the deques in `addNode` is part of its critical section; readers that
  hold no lock while the containers grow (a data race) are not modelled.
- Ties of distances in ACORN, M = 1 (an infinite level multiplier), search of an
  empty index or during `add`, the node locks of a reloaded index.
- A second `add` to one label index (`IndexHNSWShared`), which nothing calls:
  `add_tags_c` builds label indexes anew.
- Of the graph's statistics, averages, percentiles and sampling: arithmetic on
  lists that are only read.
- The header of the registry: the registry is the set of its rows. The arrays of
  a run: in a directory that two runs share they overwrite each other's.
- Two builds saved within one second (`FreshSecond`): they share a folder of
  `SaveManager` and their writes of one file would mix. Two runs *logged* in one
  second are modelled.
- The bitset and Bloom-filter encoders of `utils.py`, which no algorithm uses.
- Datasets, analysers, plots: I/O and numerics. The subset directories of a
  dataset are written and looked for like saved indexes, without a check that they
  are whole; they are listed as a hazard.
- The rest of faiss, ParlayANN and parlaylib: third-party code, and nearly all of
  the lines under `src/`. The specifications cover the repository's own
  components, a small share of these lines.

## 6. Plan

1. `DatasetStore`: the subset directories of `datasets/glove.py` and its siblings,
   killed between two files, as in `SaveStore`.
2. `NodeLocks`: growth and reload of the graph's containers.
3. Proofs about reachability after pruning, for one thread: `removeLast` and
   `twoHopPruning` cut edges, and whether a layer stays connected then depends on
   the metric; a condition on it, checked first.
