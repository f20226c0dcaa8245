------------------------------- MODULE QueryPool -------------------------------
(***************************************************************************)
(* BaseANNIndex.query: a warm-up over some of the queries in one pool of   *)
(* threads, then all of them in a second pool; the results are taken from  *)
(* the futures in the order of the queries and written to the rows of I.   *)
(* A task is the wrapper's single query, over an index that promises no    *)
(* more than AnnIndex: it may miss any row, and an ACORN may list one row  *)
(* that its list of ids does not hold, that of its entry point.            *)
(*                                                                         *)
(* Main submits while workers run; an exception in a task is kept in its   *)
(* future and raised where the result is taken.                            *)
(***************************************************************************)
EXTENDS AttributeFilter

CONSTANTS
  Workers,       \* the threads of a pool: os.cpu_count()
  Batches,       \* what may be asked: [query_type, filters]
  Ranking,       \* per query: the rows from near to far
  k, initial_k,  \* labels wanted, and asked of the index before a post-filter
  WarmUp         \* the 100 of num_warm_up

Queries == DOMAIN Ranking

ASSUME PoolAssumption ==
  /\ IsFiniteSet(Workers) /\ Workers # {} /\ WarmUp \in Nat
  /\ k \in Nat \ {0} /\ initial_k \in Nat /\ initial_k >= k
  /\ Ranking \in Seq(Seq(Rows)) /\ \A i \in Queries : IsInjective(Ranking[i])
\* No data set has a CNF filter with an open dimension (they list values).
ASSUME BatchesAssumption ==
  \A b \in Batches :
    /\ DOMAIN b.filters = Queries /\ b.query_type \in {"conjunction", "CNF", "sparse"}
    /\ b.query_type = "CNF" => \A i \in Queries : \A d \in Dims : ANY \notin b.filters[i][d]

VARIABLES
  batch, algo,   \* what is asked, and the wrapper that answers
  entry,         \* the row of an ACORN's entry point; the others have none
  pc, unsent,    \* main: its next step, and the queries it has yet to submit
  queue,         \* the pool's tasks that no thread has taken
  running,       \* per thread: its task, or Idle
  futures,       \* per query: the outcome of its timed task
  results, I

vars == <<batch, algo, entry, pc, unsent, queue, running, futures, results, I>>

Idle    == [phase |-> "none", query |-> 0]
\* No lists of k labels.
Pending == <<>>
Failed  == [j \in 1 .. k + 1 |-> NoLabel]

num_warm_up == IF Len(Ranking) < WarmUp THEN Len(Ranking) ELSE WarmUp

Init ==
  /\ batch \in Batches
  /\ algo \in IF batch.query_type = "sparse" THEN {"postfilter", "idfilter", "ivfsquared"}
              ELSE {"postfilter", "idfilter"}
  /\ entry \in IF algo = "idfilter" THEN Rows \cup {NoLabel} ELSE {NoLabel}
  /\ pc = "start" /\ unsent = <<>> /\ queue = <<>>
  /\ running = [w \in Workers |-> Idle]
  /\ futures = [i \in Queries |-> Pending]
  /\ results = <<>> /\ I = [i \in Queries |-> [j \in 1 .. k |-> NoLabel]]

-----------------------------------------------------------------------------
(* The wrappers' single query                                               *)

Flt(i) == batch.filters[i]

\* index.search: some of the rows it may list, near ones first, then padding.
Search(i, rows, n) ==
  {Padded(Kept(Ranking[i], found), n) :
     found \in {places \in SUBSET {p \in DOMAIN Ranking[i] : Ranking[i][p] \in rows} :
                 Cardinality(places) <= n}}

\* searchLayer pushes the entry point whatever the filter says.  For a filter
\* that no row fits, search scans the vectors instead.
Admitted(rows) == {row \in Rows : row \in rows \/ (row = entry /\ rows # {})}

\* No list of ids for no tags, and two tags at most.
NoTags(i) == batch.query_type = "sparse" /\ Flt(i) = {}
Raises(i) == \/ algo = "idfilter" /\ NoTags(i)
             \/ algo = "ivfsquared" /\ Cardinality(Flt(i)) > 2

single_query_fn(i) ==
  IF Raises(i) THEN {Failed}
  ELSE IF algo = "postfilter"
  THEN {Postfiltered(batch.query_type, Flt(i), hits, k) : hits \in Search(i, Rows, initial_k)}
  ELSE Search(i, IF NoTags(i) THEN Rows
                 ELSE Admitted(get_valid_ids(batch.query_type, Flt(i))), k)

-----------------------------------------------------------------------------
(* The threads of a pool                                                    *)

Take(w) ==
  /\ running[w] = Idle /\ queue # <<>>
  /\ running' = [running EXCEPT ![w] = Head(queue)]
  /\ queue' = Tail(queue)
  /\ UNCHANGED <<batch, algo, entry, pc, unsent, futures, results, I>>

\* The outcome, an exception or not, goes to the task's future; nobody has
\* kept those of the warm-up.  Mutant: an exception ends the thread.
SetsResult(outcome) == outcome # Failed
SetsOutcome(outcome) == TRUE

timed_single_query(w) ==
  LET i == running[w].query
  IN /\ running[w] # Idle
     /\ \E outcome \in single_query_fn(i) :
          /\ running' = [running EXCEPT ![w] = Idle]
          /\ futures' = IF running[w].phase = "timed" /\ SetsOutcome(outcome)
                        THEN [futures EXCEPT ![i] = outcome] ELSE futures
     /\ UNCHANGED <<batch, algo, entry, pc, unsent, queue, results, I>>

Worker(w) == Take(w) \/ timed_single_query(w)

-----------------------------------------------------------------------------
(* query()                                                                  *)

\* rng.choice without replacement.
StartWarmUp ==
  /\ pc = "start"
  /\ \E s \in kSubset(num_warm_up, Queries) : \E order \in SetToSeqs(s) : unsent' = order
  /\ pc' = "warm"
  /\ UNCHANGED <<batch, algo, entry, queue, running, futures, results, I>>

Submit ==
  /\ pc \in {"warm", "timed"} /\ unsent # <<>>
  /\ queue' = Append(queue, [phase |-> pc, query |-> Head(unsent)])
  /\ unsent' = Tail(unsent)
  /\ UNCHANGED <<batch, algo, entry, pc, running, futures, results, I>>

\* The with statement waits for all tasks.  Mutant: for those not yet taken.
QueueEmpty == queue = <<>>
Shutdown == queue = <<>> /\ \A w \in Workers : running[w] = Idle

EndWarmUp ==
  /\ pc = "warm" /\ unsent = <<>> /\ Shutdown
  /\ pc' = "timed"
  /\ unsent' = [i \in Queries |-> i]
  /\ UNCHANGED <<batch, algo, entry, queue, running, futures, results, I>>

\* future.result() of the next query.  Mutant: of any that is done.
AnyDone  == {i \in Queries : futures[i] # Pending /\ futures[i] \notin ToSet(results)}
NextDone == {i \in {Len(results) + 1} : futures[i] # Pending}

Collect ==
  /\ pc = "timed" /\ unsent = <<>> /\ Len(results) < Len(Ranking)
  /\ \E i \in NextDone :
       IF futures[i] = Failed
       THEN pc' = "raising" /\ UNCHANGED results
       ELSE results' = Append(results, futures[i]) /\ UNCHANGED pc
  /\ UNCHANGED <<batch, algo, entry, unsent, queue, running, futures, I>>

\* The end of the second with, and the loop over enumerate(results).
WriteRows ==
  /\ pc = "timed" /\ Len(results) = Len(Ranking) /\ Shutdown
  /\ I' = [i \in Queries |-> results[i]]
  /\ pc' = "done"
  /\ UNCHANGED <<batch, algo, entry, unsent, queue, running, futures, results>>

Raise ==
  /\ pc = "raising" /\ Shutdown
  /\ pc' = "raised"
  /\ UNCHANGED <<batch, algo, entry, unsent, queue, running, futures, results, I>>

Returned == pc \in {"done", "raised"}

Main == StartWarmUp \/ Submit \/ EndWarmUp \/ Collect \/ WriteRows \/ Raise

Next == Main \/ \E w \in Workers : Worker(w)

\* Main and the threads of the pools are scheduled, and every task ends.
Spec == Init /\ [][Next]_vars /\ WF_vars(Main) /\ \A w \in Workers : WF_vars(Worker(w))

-----------------------------------------------------------------------------
(* Properties                                                               *)

Tasks == [phase : {"warm", "timed"}, query : Queries]
Labels == [1 .. k -> Rows \cup {NoLabel}]

TypeOK ==
  /\ entry \in Rows \cup {NoLabel}
  /\ pc \in {"start", "warm", "timed", "raising", "done", "raised"}
  /\ ToSet(unsent) \subseteq Queries /\ ToSet(queue) \subseteq Tasks
  /\ running \in [Workers -> Tasks \cup {Idle}]
  /\ \A i \in Queries : futures[i] \in Labels \cup {Pending, Failed}
  /\ ToSet(results) \subseteq Labels /\ I \in [Queries -> Labels]

\* Both ways to apply a filter select the rows the filter describes; a row is
\* none that pads a result.
Described(row, flt) ==
  CASE batch.query_type = "conjunction" ->
         \A d \in Dims : flt[d] \in {ANY, base_attributes[row][d]}
    [] batch.query_type = "CNF" ->
         \A d \in Dims : \E v \in flt[d] : base_attributes[row][d] = v
    [] batch.query_type = "sparse" -> \A t \in flt : t \in base_tags[row]
FiltersAgree ==
  \A i \in Queries :
    LET rows == {row \in Rows : Described(row, Flt(i))}
    IN /\ {row \in Rows : valid(batch.query_type, row, Flt(i))} = rows
       /\ ~NoTags(i) =>
            get_valid_ids(batch.query_type, Flt(i)) = rows

\* Row i of I answers query i: rows that fit its filter, in its order of
\* distance, before the padding.  One row may break the filter, the same for
\* all queries: that of an ACORN's entry point, where some other row fits.
Near(i, row) == CHOOSE j \in DOMAIN Ranking[i] : Ranking[i][j] = row
Fits(i, row) ==
  \/ Described(row, Flt(i))
  \/ row = entry /\ \E fit \in Rows : Described(fit, Flt(i))
RowsMatch ==
  pc = "done" =>
    \A i \in Queries :
      /\ \A j \in 1 .. k : I[i][j] # NoLabel => Fits(i, I[i][j])
      /\ \A j1, j2 \in 1 .. k :
           j1 < j2 /\ I[i][j2] # NoLabel =>
             I[i][j1] # NoLabel /\ Near(i, I[i][j1]) < Near(i, I[i][j2])
      /\ I[i] = futures[i]

\* Padding and rows that do not fit do not displace those that do: a short
\* answer means that the index has missed or the filter refused every other
\* of its hits.
PaddingHarmless ==
  \A i \in Queries : \A hits \in Search(i, Rows, initial_k) :
    LET fit == {row \in ToSet(hits) \ {NoLabel} : Described(row, Flt(i))}
    IN Cardinality(ToSet(Postfiltered(batch.query_type, Flt(i), hits, k)) \ {NoLabel})
         = IF Cardinality(fit) < k THEN Cardinality(fit) ELSE k

\* query() raises exactly if a query fails, whatever its warm-up did, and
\* raises what the first of them raised.
RaisesFirst ==
  /\ pc = "done" => \A i \in Queries : ~Raises(i)
  /\ pc = "raised" => /\ Raises(Len(results) + 1)
                      /\ \A i \in 1 .. Len(results) : ~Raises(i)

\* No warm-up task runs beside a timed one, and none of either pool after
\* query() has returned or raised.
InFlight(phase) ==
  \/ \E task \in ToSet(queue) : task.phase = phase
  \/ \E w \in Workers : running[w].phase = phase
PoolsApart ==
  /\ pc \notin {"start", "warm"} => ~InFlight("warm")
  /\ Returned => ~InFlight("timed")

\* query() returns, or raises.
QueryReturns == <>Returned
===============================================================================
