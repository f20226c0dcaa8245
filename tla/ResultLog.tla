------------------------------- MODULE ResultLog -------------------------------
(***************************************************************************)
(* BenchmarkLogger over the runs of SaveStore: a worker that has queried   *)
(* saves its result in the directory of the second, with metadata.json,    *)
(* appends a row to the registry and logs its recall; postprocess.py adds  *)
(* latency, file sizes, and the construction metrics that a run with a     *)
(* loaded index takes over from a run that built it.  Each of these reads  *)
(* metadata.json, truncates it and writes it back.                         *)
(*                                                                         *)
(* A writer is a script's worker or Post, which runs once.  What the       *)
(* arrays hold is left out: one that finds them half overwritten raises,   *)
(* and ends as if it were killed.                                          *)
(***************************************************************************)
EXTENDS SaveStore, Sequences, Functions

CONSTANTS
  Post,        \* postprocess.py
  FreshLog,    \* no two runs name their directory by the same second
  MaxBeside,   \* bound: runs of which it may start beside the workers
  MaxKills     \* bound: loggers that are killed

Writers == Clients \cup {Post}

ASSUME PostAssumption ==
  /\ Post \notin Clients /\ FreshLog \in BOOLEAN
  /\ MaxBeside \in Nat /\ MaxKills \in Nat

VARIABLES
  dirs,       \* per run directory: the content of metadata.json
  registry,   \* the directories with a row in master_registry.csv
  step,       \* per writer: its next step of logging
  dir, op,    \*   the directory it works on, and what it logs
  memo,       \*   the metadata in its memory
  todo,       \* get_run_dirs: what postprocess.py has yet to visit
  visited,    \* the directories it has finished
  late,       \* those written while it searches for metrics
  cut,        \* ghost: those whose metadata was cut off by a kill
  shared,     \* ghost: those of two runs, or of two writers at once
  kills

logVars == <<dirs, registry, step, dir, op, memo, todo, visited, late, cut, shared, kills>>

\* Metadata that cannot be read: not yet written; truncated, with all that was
\* to come still in a writer's memory; or with the end of another content.
Absent == [params |-> "absent"]
Torn   == [params |-> "torn"]
Mixed  == [params |-> "mixed"]
Readable(d) == dirs[d] \notin {Absent, Torn, Mixed}

\* build_time and the other construction metrics are None in a run that
\* loaded its index; else they are those of the index built.
Metadata(c) ==
  [params |-> params[c], built_from_file |-> pc[c] = "loaded",
   build_time |-> IF pc[c] = "loaded" THEN "absent" ELSE held[c], logged |-> {}]

InitLog ==
  /\ Init
  /\ dirs = <<>> /\ registry = {}
  /\ step = [w \in Writers |-> "none"] /\ dir = [w \in Writers |-> 0]
  /\ op = [w \in Writers |-> "recall"] /\ memo = [w \in Writers |-> Absent]
  /\ todo = {} /\ visited = {} /\ late = {} /\ cut = {} /\ shared = {} /\ kills = 0

Step(w, label) == step' = [step EXCEPT ![w] = label]
Stopped(w) == Step(w, IF w = Post THEN "end" ELSE "none")

\* A writer with metadata.json open for writing, and one that has read it and
\* has not yet written it back.
Holds(w) == step[w] \in {"close", "write"}
Busy(w)  == step[w] \in {"close", "change", "truncate", "write"}
Noted(w) == IF \E v \in Writers \ {w} : Busy(v) /\ dir[v] = dir[w]
            THEN shared \cup {dir[w]} ELSE shared

\* What a writer leaves in the file it has open.  One that another has filled
\* since is not truncated again: a shorter content leaves the end of the
\* other's.
Filled(w, m) ==
  dirs' \in {[dirs EXCEPT ![dir[w]] = content] :
               content \in {m} \cup IF dirs[dir[w]] = Torn THEN {} ELSE {Mixed}}

\* copy_construction_metrics walks over the directories one by one: it may
\* have passed one that is written meanwhile.
Searching == step[Post] = "change" /\ op[Post] = "metrics"
Passed(w) == IF Searching THEN late \cup {dir[w]} ELSE late

-----------------------------------------------------------------------------
(* log_benchmark                                                            *)

\* The directory of this second, with the three arrays.  makedirs accepts an
\* old one, and its metadata stays; the seconds are those of local time.
SaveArrays(c) ==
  /\ pc[c] \in {"loaded", "built"} /\ step[c] = "none"
  /\ \/ /\ dirs' = Append(dirs, Absent)
        /\ dir' = [dir EXCEPT ![c] = Len(dirs) + 1]
        /\ UNCHANGED shared
     \/ /\ ~FreshLog
        /\ \E d \in DOMAIN dirs : dir' = [dir EXCEPT ![c] = d] /\ shared' = shared \cup {d}
        /\ UNCHANGED dirs
  /\ Step(c, "open")
  /\ UNCHANGED <<vars, registry, op, memo, todo, visited, late, cut, kills>>

\* What comes after the arrays.  Mutant: the registry is written first.
RegistryFirst(c) ==
  /\ registry' = registry \cup {dir[c]}
  /\ UNCHANGED dirs
MetadataFirst(c) ==
  /\ dirs' = [dirs EXCEPT ![dir[c]] = Torn]
  /\ UNCHANGED registry

OpenMetadata(c) ==
  /\ pc[c] \in {"loaded", "built"} /\ step[c] = "open"
  /\ MetadataFirst(c)
  /\ shared' = Noted(c)
  /\ Step(c, "close")
  /\ UNCHANGED <<vars, dir, op, memo, todo, visited, late, cut, kills>>

CloseMetadata(c) ==
  /\ pc[c] \in {"loaded", "built"} /\ step[c] = "close"
  /\ Filled(c, Metadata(c))
  /\ late' = Passed(c)
  /\ Log(c)
  /\ Step(c, "register")
  /\ UNCHANGED <<registry, dir, op, memo, todo, visited, cut, shared, kills>>

_update_master_registry(c) ==
  /\ step[c] = "register"
  /\ registry' = registry \cup {dir[c]}
  /\ op' = [op EXCEPT ![c] = "recall"]
  /\ Step(c, "read")
  /\ UNCHANGED <<vars, dirs, dir, memo, todo, visited, late, cut, shared, kills>>

-----------------------------------------------------------------------------
(* log_recall, log_latency_stats, log_file_memory, copy_construction_metrics *)

\* find_saved_files on behalf of the run.
SavedFor(p) == {t \in Times : ds # "absent" /\ Matches(t, p)}

\* Another run that built the same index: any that os.walk meets first, among
\* those that can be read.  Mutants: one with any build parameters, and none
\* if some metadata cannot be read.
AnyBuild(d) ==
  {e \in DOMAIN dirs \ {d} : Readable(e) /\ ~dirs[e].built_from_file}
StrictBuild(d) ==
  {e \in DOMAIN dirs \ {d} : /\ \A f \in DOMAIN dirs : Readable(f)
                            /\ ~dirs[e].built_from_file
                            /\ dirs[e].params = memo[Post].params}
SameBuild(d) ==
  {e \in DOMAIN dirs \ {d} : Readable(e) /\ ~dirs[e].built_from_file
                                         /\ dirs[e].params = memo[Post].params}

\* The step after an operation is done on a directory.
Ops == <<"recall", "latency", "files", "metrics">>
NextOf(o) == CHOOSE next \in Range(Ops) : \E i \in 2 .. Len(Ops) : Ops[i - 1] = o /\ Ops[i] = next
Done(w) ==
  IF w # Post THEN Step(w, "none") /\ UNCHANGED <<op, visited>>
  ELSE IF op[w] = "metrics"
  THEN Step(w, "next") /\ visited' = visited \cup {dir[w]} /\ UNCHANGED op
  ELSE /\ op' = [op EXCEPT ![w] = NextOf(@)]
       /\ Step(w, "read") /\ UNCHANGED visited

\* json.load; what cannot be read is an exception, which ends the writer.
Read(w) ==
  /\ step[w] = "read"
  /\ IF Readable(dir[w])
     THEN /\ memo' = [memo EXCEPT ![w] = dirs[dir[w]]]
          /\ shared' = Noted(w) /\ Step(w, "change") /\ UNCHANGED todo
     ELSE /\ Stopped(w) /\ todo' = (IF w = Post THEN {} ELSE todo)
          /\ UNCHANGED <<memo, shared>>
  /\ UNCHANGED <<vars, dirs, registry, dir, op, visited, late, cut, kills>>

\* What is added to the metadata in memory; the metrics only if there are any
\* to copy, or the file is left alone.
Change(w) ==
  /\ step[w] = "change" /\ op[w] # "metrics"
  /\ memo' = [memo EXCEPT ![w].logged =
                @ \cup IF op[w] = "files" /\ SavedFor(memo[w].params) = {} THEN {} ELSE {op[w]}]
  /\ Step(w, "truncate")
  /\ UNCHANGED <<vars, dirs, registry, dir, op, todo, visited, late, cut, shared, kills>>

CopyMetrics ==
  /\ Searching /\ memo[Post].built_from_file
  /\ \E e \in SameBuild(dir[Post]) :
       memo' = [memo EXCEPT ![Post].build_time = dirs[e].build_time]
  /\ late' = {} /\ Step(Post, "truncate")
  /\ UNCHANGED <<vars, dirs, registry, dir, op, todo, visited, cut, shared, kills>>

NoMetrics ==
  /\ Searching
  /\ memo[Post].built_from_file => SameBuild(dir[Post]) \subseteq late
  /\ late' = {} /\ Done(Post)
  /\ UNCHANGED <<vars, dirs, registry, dir, memo, todo, cut, shared, kills>>

Truncate(w) ==
  /\ step[w] = "truncate"
  /\ dirs' = [dirs EXCEPT ![dir[w]] = Torn]
  /\ Step(w, "write")
  /\ UNCHANGED <<vars, registry, dir, op, memo, todo, visited, late, cut, shared, kills>>

Write(w) ==
  /\ step[w] = "write"
  /\ Filled(w, memo[w])
  /\ late' = Passed(w) /\ Done(w)
  /\ UNCHANGED <<vars, registry, dir, memo, todo, cut, shared, kills>>

-----------------------------------------------------------------------------
(* postprocess.py                                                           *)

Logging(c) == step[c] # "none"

\* It may start at any time up to MaxBeside runs, of more only after all.
StartPost ==
  /\ step[Post] = "none" /\ dirs # <<>>
  /\ runs > MaxBeside => \A c \in Clients : pc[c] = "idle" /\ ~Logging(c)
  /\ todo' = DOMAIN dirs
  /\ Step(Post, "next")
  /\ UNCHANGED <<vars, dirs, registry, dir, op, memo, visited, late, cut, shared, kills>>

NextDir ==
  /\ step[Post] = "next"
  /\ \/ \E d \in todo :
          /\ dir' = [dir EXCEPT ![Post] = d] /\ op' = [op EXCEPT ![Post] = "recall"]
          /\ todo' = todo \ {d}
          /\ Step(Post, "read")
     \/ /\ todo = {} /\ Step(Post, "end")
        /\ UNCHANGED <<dir, op, todo>>
  /\ UNCHANGED <<vars, dirs, registry, memo, visited, late, cut, shared, kills>>

\* A logger is killed between two steps; the worker with it.
CutOff(w) == cut' = IF Holds(w) THEN cut \cup {dir[w]} ELSE cut

KillWorker(c) == Crash(c) /\ Step(c, "none") /\ CutOff(c)
              /\ UNCHANGED <<dirs, registry, dir, op, memo, todo, visited, late, shared, kills>>
KillLogger(w) ==
  /\ step[w] \notin {"none", "end"} /\ (w # Post => pc[w] = "idle") /\ kills < MaxKills
  /\ kills' = kills + 1
  /\ CutOff(w)
  /\ Stopped(w)
  /\ IF w = Post THEN todo' = {} /\ late' = {} ELSE UNCHANGED <<todo, late>>
  /\ UNCHANGED <<vars, dirs, registry, dir, op, memo, visited, shared>>

-----------------------------------------------------------------------------
\* A worker's steps up to its answers, and the start of the next worker once
\* the last has logged: past MaxBeside only before postprocess.py.
Run(c) ==
  /\ ~Logging(c) /\ pc[c] \notin {"loaded", "built"}
  /\ \/ /\ runs >= MaxBeside => step[Post] = "none"
        /\ Start(c)
     \/ _benchmark_worker(c)
  /\ UNCHANGED logVars

LogStep(c) ==
  SaveArrays(c) \/ OpenMetadata(c) \/ CloseMetadata(c) \/ _update_master_registry(c)

Rewrite(w) == Read(w) \/ Change(w) \/ Truncate(w) \/ Write(w)

NextLog ==
  \/ \E c \in Clients : Run(c) \/ LogStep(c) \/ KillWorker(c)
  \/ \E w \in Writers : Rewrite(w) \/ KillLogger(w)
  \/ CopyMetrics \/ NoMetrics \/ StartPost \/ NextDir

LogSpec == InitLog /\ [][NextLog]_<<vars, logVars>>

-----------------------------------------------------------------------------
(* Properties                                                               *)

\* A registered run has metadata.  It cannot be read only while someone has
\* the file open, after someone was killed who had, or if two have written it
\* at once.
RegisteredReadable ==
  \A d \in registry :
    /\ dirs[d] # Absent
    /\ dirs[d] = Torn => d \in cut \/ \E w \in Writers : dir[w] = d /\ Holds(w)
    /\ dirs[d] = Mixed => d \in shared

\* Construction metrics, measured or copied, are those of an index built with
\* the run's own parameters.
MetricsOfABuild ==
  \A d \in DOMAIN dirs :
    Readable(d) => /\ dirs[d].build_time \in {"absent", dirs[d].params}
                   /\ ~dirs[d].built_from_file => dirs[d].build_time = dirs[d].params

\* What postprocess.py has finished stays complete: recall, latency and the
\* sizes of the index files, which are still there.  Only a second run in the
\* directory, or two writers at once, can lose some of it.
VisitedComplete ==
  \A d \in visited \ shared :
    Readable(d) => {"recall", "latency", "files"} \subseteq dirs[d].logged

\* It leaves a run without construction metrics only if no run on record has
\* built that index, whatever other metadata cannot be read and but for what
\* is written while it searches.
MetricsTaken ==
  [][\A d \in (visited' \ visited) \ shared' :
       dirs'[d].build_time = "absent" =>
         \A e \in DOMAIN dirs \ late :
           Readable(e) /\ dirs[e].params = dirs'[d].params => dirs[e].built_from_file
    ]_<<vars, logVars>>
===============================================================================
