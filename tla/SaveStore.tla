------------------------------- MODULE SaveStore -------------------------------
(***************************************************************************)
(* BenchmarkRunner.run over SaveManager: benchmark scripts (clients) run   *)
(* one worker process after the other; a worker loads an index that an     *)
(* earlier one saved with the same build parameters, or builds and saves   *)
(* its own.  All share the folder of one index name and one dataset:       *)
(* dataset.faiss, and a folder per timestamp with metadata and index.      *)
(*                                                                         *)
(* A file being written is torn; a worker may be killed at any point.  The *)
(* content of an index file is the parameters its graph was built with.    *)
(***************************************************************************)
EXTENDS Integers, FiniteSets

CONSTANTS
  Clients,       \* the scripts that run at the same time
  Params,        \* the build parameters
  FreshSecond,   \* every prepare_folders falls in a second of its own
  MaxRuns,       \* bound: workers that are started
  MaxCrashes     \* bound: workers that are killed

\* The seconds in which an index is saved, in order.
Times == 1 .. MaxRuns

ASSUME ClientsAssumption == IsFiniteSet(Clients) /\ Clients # {}
ASSUME ParamsAssumption == Params # {} /\ Params \cap {"absent", "torn"} = {}
ASSUME BoundsAssumption == MaxRuns \in Nat /\ MaxCrashes \in Nat

\* Writers of one folder overlap only if two clients save in one second.
ASSUME SecondAssumption ==
  FreshSecond \in BOOLEAN /\ (FreshSecond \/ Cardinality(Clients) = 1)

VARIABLES
  now,           \* the second of the last prepare_folders
  meta, index,   \* per folder: the content of its two files
  ds, dsWriter,  \* dataset.faiss, and the client that opened it last
  pc, params,    \* per client: its worker's next step and build_params
  items,         \* find_saved_files: the folders not yet looked at
  folder,        \* the folder found, or prepared
  held,          \* the parameters of the graph in the worker's memory
  logs,          \* the logged runs: [build_params, built_from_file]
  runs, crashes

disk  == <<now, meta, index, ds, dsWriter>>
vars  == <<disk, pc, params, items, folder, held, logs, runs, crashes>>

Nobody == "nobody"

Init ==
  /\ now = 0
  /\ meta = [t \in Times |-> "absent"] /\ index = [t \in Times |-> "absent"]
  /\ ds = "absent" /\ dsWriter = Nobody
  /\ pc = [c \in Clients |-> "idle"]
  /\ params \in [Clients -> Params]
  /\ items = [c \in Clients |-> {}]
  /\ folder = [c \in Clients |-> 0]
  /\ held = [c \in Clients |-> "absent"]
  /\ logs = {} /\ runs = 0 /\ crashes = 0

Goto(c, label) == pc' = [pc EXCEPT ![c] = label]

-----------------------------------------------------------------------------
\* runFullBenchmark: p.start().
Start(c) ==
  /\ pc[c] = "idle" /\ runs < MaxRuns
  /\ \E p \in Params : params' = [params EXCEPT ![c] = p]
  /\ runs' = runs + 1
  /\ held' = [held EXCEPT ![c] = "absent"]
  /\ Goto(c, "find")
  /\ UNCHANGED <<disk, items, folder, logs, crashes>>

\* find_saved_files: os.listdir, if there is a dataset file.
find_saved_files(c) ==
  /\ pc[c] = "find"
  /\ \/ ds = "absent" /\ Goto(c, "build") /\ UNCHANGED items
     \/ /\ ds # "absent" /\ Goto(c, "look")
        /\ items' = [items EXCEPT ![c] = {t \in Times : meta[t] # "absent"}]
  /\ UNCHANGED <<disk, params, folder, held, logs, runs, crashes>>

\* The folder's index file exists and its metadata has the parameters; torn
\* metadata is a JSONDecodeError.  Mutant: any index will do.
AnyIndex(t, p) == index[t] # "absent" /\ meta[t] \in Params
Matches(t, p) == index[t] # "absent" /\ meta[t] = p

Look(c) ==
  /\ pc[c] = "look"
  /\ \E t \in items[c] :
       IF Matches(t, params[c])
       THEN /\ folder' = [folder EXCEPT ![c] = t]
            /\ items' = [items EXCEPT ![c] = {}]
            /\ Goto(c, "load")
       ELSE /\ items' = [items EXCEPT ![c] = @ \ {t}]
            /\ UNCHANGED <<folder, pc>>
  /\ UNCHANGED <<disk, params, held, logs, runs, crashes>>

NotFound(c) ==
  /\ pc[c] = "look" /\ items[c] = {}
  /\ Goto(c, "build")
  /\ UNCHANGED <<disk, params, items, folder, held, logs, runs, crashes>>

\* build_from_files reads the graph, then the vectors.  A torn file throws:
\* the worker ends, and p.join() does not look at its exit code.
LoadGraph(c) ==
  /\ pc[c] = "load"
  /\ IF index[folder[c]] = "torn" THEN Goto(c, "idle") /\ UNCHANGED held
     ELSE Goto(c, "loadData") /\ held' = [held EXCEPT ![c] = index[folder[c]]]
  /\ UNCHANGED <<disk, params, items, folder, logs, runs, crashes>>

LoadDataset(c) ==
  /\ pc[c] = "loadData"
  /\ Goto(c, IF ds = "torn" THEN "idle" ELSE "loaded")
  /\ UNCHANGED <<disk, params, items, folder, held, logs, runs, crashes>>

-----------------------------------------------------------------------------
build(c) ==
  /\ pc[c] = "build"
  /\ held' = [held EXCEPT ![c] = params[c]]
  /\ Goto(c, "prepare")
  /\ UNCHANGED <<disk, params, items, folder, logs, runs, crashes>>

\* prepare_folders: the folder of this second (makedirs accepts an old one),
\* where open() truncates the metadata.  Mutant: one folder for all.
OneFolder == {1}
Seconds == {t \in {now, now + 1} : t \in Times /\ (FreshSecond => t > now)}

prepare_folders(c) ==
  /\ pc[c] = "prepare"
  /\ \E t \in Seconds :
       /\ now' = t
       /\ folder' = [folder EXCEPT ![c] = t]
       /\ meta' = [meta EXCEPT ![t] = "torn"]
  /\ Goto(c, "meta")
  /\ UNCHANGED <<index, ds, dsWriter, params, items, held, logs, runs, crashes>>

WriteMetadata(c) ==
  /\ pc[c] = "meta"
  /\ meta' = [meta EXCEPT ![folder[c]] = params[c]]
  /\ Goto(c, "save")
  /\ UNCHANGED <<now, index, ds, dsWriter, params, items, folder, held, logs, runs, crashes>>

\* save_to_files, which is writeToFile: the graph, then the vectors.
OpenIndex(c) ==
  /\ pc[c] = "save"
  /\ index' = [index EXCEPT ![folder[c]] = "torn"]
  /\ Goto(c, "write")
  /\ UNCHANGED <<now, meta, ds, dsWriter, params, items, folder, held, logs, runs, crashes>>

CloseIndex(c) ==
  /\ pc[c] = "write"
  /\ index' = [index EXCEPT ![folder[c]] = held[c]]
  /\ Goto(c, "saveData")
  /\ UNCHANGED <<now, meta, ds, dsWriter, params, items, folder, held, logs, runs, crashes>>

OpenDataset(c) ==
  /\ pc[c] = "saveData"
  /\ ds' = "torn" /\ dsWriter' = c
  /\ Goto(c, "writeData")
  /\ UNCHANGED <<now, meta, index, params, items, folder, held, logs, runs, crashes>>

\* All write the same bytes: the file is whole when the client that opened,
\* and so truncated, it last has written all of them.
CloseDataset(c) ==
  /\ pc[c] = "writeData"
  /\ IF dsWriter = c THEN ds' = "whole" /\ dsWriter' = Nobody
     ELSE UNCHANGED <<ds, dsWriter>>
  /\ Goto(c, "built")
  /\ UNCHANGED <<now, meta, index, params, items, folder, held, logs, runs, crashes>>

-----------------------------------------------------------------------------
\* query and log_benchmark: the run is on record.
Log(c) ==
  /\ pc[c] \in {"loaded", "built"}
  /\ logs' = logs \cup {[build_params |-> params[c],
                         built_from_file |-> pc[c] = "loaded"]}
  /\ Goto(c, "idle")
  /\ UNCHANGED <<disk, params, items, folder, held, runs, crashes>>

\* The worker is killed, or throws, between any two steps.
Crash(c) ==
  /\ pc[c] # "idle" /\ crashes < MaxCrashes
  /\ crashes' = crashes + 1
  /\ items' = [items EXCEPT ![c] = {}]
  /\ Goto(c, "idle")
  /\ UNCHANGED <<disk, params, folder, held, logs, runs>>

_benchmark_worker(c) ==
  \/ find_saved_files(c) \/ Look(c) \/ NotFound(c) \/ LoadGraph(c) \/ LoadDataset(c)
  \/ build(c) \/ prepare_folders(c) \/ WriteMetadata(c) \/ OpenIndex(c)
  \/ CloseIndex(c) \/ OpenDataset(c) \/ CloseDataset(c) \/ Log(c)

Next == \E c \in Clients : Start(c) \/ _benchmark_worker(c) \/ Crash(c)

Spec == Init /\ [][Next]_vars
-----------------------------------------------------------------------------
(* Properties                                                               *)

Labels == {"idle", "find", "look", "load", "loadData", "loaded", "build",
           "prepare", "meta", "save", "write", "saveData", "writeData", "built"}

TypeOK ==
  /\ now \in Nat
  /\ meta \in [Times -> Params \cup {"absent", "torn"}]
  /\ index \in [Times -> Params \cup {"absent", "torn"}]
  /\ ds \in {"absent", "torn", "whole"} /\ dsWriter \in Clients \cup {Nobody}
  /\ pc \in [Clients -> Labels] /\ params \in [Clients -> Params]
  /\ items \in [Clients -> SUBSET Times] /\ folder \in [Clients -> Times \cup {0}]
  /\ held \in [Clients -> Params \cup {"absent"}]
  /\ logs \subseteq [build_params : Params, built_from_file : BOOLEAN]
  /\ runs \in Nat /\ crashes \in Nat

\* save_manager.py:50: "Searches self.save_dir for matching ds_file and
\* index_file".  Whatever crashed or ran at the same time, a run that is
\* about to answer queries holds a graph built with its own parameters.
LoadedMatches ==
  \A c \in Clients :
    pc[c] \in {"loadData", "loaded", "built"} => held[c] = params[c]

\* Once a run is on record, log_file_memory and every later run find a whole
\* index with its parameters: nobody overwrites or loses it.
LoggedIsSaved ==
  \A r \in logs :
    /\ ds # "absent"
    /\ \E t \in Times : meta[t] = r.build_params /\ index[t] = r.build_params

\* What the two rest on.  Folders of seconds to come are empty, and an index
\* that was ever opened is of the parameters next to it.
FoldersSound ==
  \A t \in Times :
    /\ t > now => meta[t] = "absent" /\ index[t] = "absent"
    /\ index[t] # "absent" => meta[t] \in Params /\ index[t] \in {meta[t], "torn"}

\* A worker's folder is as far as the worker is, and nobody else's until the
\* index is whole.
Saving == {"meta", "save", "write"}
WorkersSound ==
  \A c \in Clients :
    LET t == folder[c]
    IN /\ pc[c] \in Saving \cup {"prepare", "loadData", "loaded", "saveData",
                                 "writeData", "built"} => held[c] = params[c]
       /\ pc[c] \in Saving \cup {"load", "loadData", "loaded", "saveData",
                                 "writeData", "built"} => t \in Times
       /\ pc[c] = "meta" => meta[t] = "torn"
       /\ pc[c] \in {"meta", "save"} => index[t] = "absent"
       /\ pc[c] \in {"save", "write", "load", "loadData", "loaded", "saveData",
                     "writeData", "built"} => meta[t] = params[c]
       /\ pc[c] = "write" => index[t] = "torn"
       /\ pc[c] = "load" => index[t] # "absent"
       /\ pc[c] \in {"loadData", "loaded", "saveData", "writeData", "built"} =>
            index[t] = params[c]
       /\ pc[c] \in {"look", "load", "loadData", "loaded", "writeData", "built"} =>
            ds # "absent"
       /\ \A d \in Clients \ {c} :
            pc[c] \in Saving /\ pc[d] \in Saving => folder[d] # t

StoreInv == TypeOK /\ FoldersSound /\ WorkersSound /\ LoggedIsSaved

\* benchmarkRunner.py:45: "index is already built - use saved version".  The
\* index a run has found is whole.
AlreadyBuilt ==
  \A c \in Clients : pc[c] = "load" => index[folder[c]] # "torn"
===============================================================================
