---------------------------- MODULE ResultLog_proofs ----------------------------
(* What is on record, for any scripts, parameters and number of kills, as     *)
(* long as every build is saved in a second of its own: whatever logs at the  *)
(* same time, and in the same directory.                                      *)
EXTENDS ResultLog, TLAPS

-----------------------------------------------------------------------------
(* The store by itself: a run loads only what was saved for its parameters  *)

\* The initial store is empty.
LEMMA InitStore == Init => StoreInv
BY ParamsAssumption
   DEF Init, StoreInv, TypeOK, FoldersSound, WorkersSound, LoggedIsSaved, Labels, Saving

\* Every step of a worker, its start and its end keep the invariant.
LEMMA NextStore ==
  ASSUME FreshSecond, StoreInv, [Next]_vars
  PROVE  StoreInv'
<1> USE DEF StoreInv, TypeOK
\* A new worker has found nothing yet.
<1>1. ASSUME NEW c \in Clients, Start(c) PROVE StoreInv'
  <2>1. TypeOK'
    BY <1>1 DEF Start, Goto, disk, Labels
  <2>3. WorkersSound'
    BY <1>1, ParamsAssumption DEF Start, Goto, disk, FoldersSound, WorkersSound, Saving
  <2> QED BY <1>1, <2>1, <2>3 DEF Start, disk, FoldersSound, LoggedIsSaved
\* A listing is only made next to a dataset file.
<1>2. ASSUME NEW c \in Clients, find_saved_files(c) PROVE StoreInv'
  <2>1. TypeOK'
    BY <1>2 DEF find_saved_files, Goto, disk, Labels
  <2>3. WorkersSound'
    BY <1>2, ParamsAssumption DEF find_saved_files, Goto, disk, FoldersSound, WorkersSound, Saving
  <2> QED BY <1>2, <2>1, <2>3 DEF find_saved_files, disk, FoldersSound, LoggedIsSaved
\* What matches has an index file and the worker's metadata.
<1>3. ASSUME NEW c \in Clients, Look(c) PROVE StoreInv'
  <2>1. TypeOK'
    BY <1>3 DEF Look, Goto, disk, Labels, Matches
  <2>3. WorkersSound'
    BY <1>3, ParamsAssumption DEF Look, Goto, disk, FoldersSound, WorkersSound, Saving, Matches
  <2> QED BY <1>3, <2>1, <2>3 DEF Look, disk, FoldersSound, LoggedIsSaved
<1>4. ASSUME NEW c \in Clients, NotFound(c) PROVE StoreInv'
  <2>1. TypeOK'
    BY <1>4 DEF NotFound, Goto, disk, Labels
  <2>3. WorkersSound'
    BY <1>4, ParamsAssumption DEF NotFound, Goto, disk, FoldersSound, WorkersSound, Saving
  <2> QED BY <1>4, <2>1, <2>3 DEF NotFound, disk, FoldersSound, LoggedIsSaved
\* An index that is not torn is of the parameters in its metadata.
<1>5. ASSUME NEW c \in Clients, LoadGraph(c) PROVE StoreInv'
  <2>1. TypeOK'
    BY <1>5 DEF LoadGraph, Goto, disk, Labels, FoldersSound, WorkersSound
  <2>3. WorkersSound'
    BY <1>5, ParamsAssumption DEF LoadGraph, Goto, disk, FoldersSound, WorkersSound, Saving
  <2> QED BY <1>5, <2>1, <2>3 DEF LoadGraph, disk, FoldersSound, LoggedIsSaved
<1>6. ASSUME NEW c \in Clients, LoadDataset(c) PROVE StoreInv'
  <2>1. TypeOK'
    BY <1>6 DEF LoadDataset, Goto, disk, Labels
  <2>3. WorkersSound'
    BY <1>6, ParamsAssumption DEF LoadDataset, Goto, disk, FoldersSound, WorkersSound, Saving
  <2> QED BY <1>6, <2>1, <2>3 DEF LoadDataset, disk, FoldersSound, LoggedIsSaved
<1>7. ASSUME NEW c \in Clients, build(c) PROVE StoreInv'
  <2>1. TypeOK'
    BY <1>7 DEF build, Goto, disk, Labels
  <2>3. WorkersSound'
    BY <1>7, ParamsAssumption DEF build, Goto, disk, FoldersSound, WorkersSound, Saving
  <2> QED BY <1>7, <2>1, <2>3 DEF build, disk, FoldersSound, LoggedIsSaved
\* The folder of a fresh second belongs to nobody.
<1>8. ASSUME NEW c \in Clients, prepare_folders(c) PROVE StoreInv'
  <2>1. TypeOK'
    BY <1>8 DEF prepare_folders, Goto, disk, Labels, Times, Seconds
  <2>2. FoldersSound'
    BY <1>8, ParamsAssumption DEF prepare_folders, FoldersSound, WorkersSound, Saving, Times, Seconds
  <2>3. WorkersSound'
    BY <1>8, ParamsAssumption DEF prepare_folders, Goto, disk, FoldersSound, WorkersSound, Saving, Times, Seconds
  <2>4. LoggedIsSaved'
    BY <1>8, ParamsAssumption DEF prepare_folders, FoldersSound, WorkersSound, LoggedIsSaved, Saving, Times, Seconds
  <2> QED BY <2>1, <2>2, <2>3, <2>4
\* Nobody logged rests on a folder whose metadata was torn.
<1>9. ASSUME NEW c \in Clients, WriteMetadata(c) PROVE StoreInv'
  <2>1. TypeOK'
    BY <1>9 DEF WriteMetadata, Goto, disk, Labels
  <2>2. FoldersSound'
    BY <1>9, ParamsAssumption DEF WriteMetadata, FoldersSound, WorkersSound, Saving, Times
  <2>3. WorkersSound'
    BY <1>9, ParamsAssumption DEF WriteMetadata, Goto, disk, FoldersSound, WorkersSound, Saving
  <2>4. LoggedIsSaved'
    BY <1>9, ParamsAssumption DEF WriteMetadata, FoldersSound, WorkersSound, LoggedIsSaved, Saving, Times
  <2> QED BY <2>1, <2>2, <2>3, <2>4
\* Nor on one that had no index.
<1>10. ASSUME NEW c \in Clients, OpenIndex(c) PROVE StoreInv'
  <2>1. TypeOK'
    BY <1>10 DEF OpenIndex, Goto, disk, Labels
  <2>2. FoldersSound'
    BY <1>10, ParamsAssumption DEF OpenIndex, FoldersSound, WorkersSound, Saving, Times
  <2>3. WorkersSound'
    BY <1>10, ParamsAssumption DEF OpenIndex, Goto, disk, FoldersSound, WorkersSound, Saving
  <2>4. LoggedIsSaved'
    BY <1>10, ParamsAssumption DEF OpenIndex, FoldersSound, WorkersSound, LoggedIsSaved, Saving, Times
  <2> QED BY <2>1, <2>2, <2>3, <2>4
\* The graph is of the worker's parameters, as is the metadata.
<1>11. ASSUME NEW c \in Clients, CloseIndex(c) PROVE StoreInv'
  <2>1. TypeOK'
    BY <1>11 DEF CloseIndex, Goto, disk, Labels
  <2>2. FoldersSound'
    BY <1>11, ParamsAssumption DEF CloseIndex, FoldersSound, WorkersSound, Saving, Times
  <2>3. WorkersSound'
    BY <1>11, ParamsAssumption DEF CloseIndex, Goto, disk, FoldersSound, WorkersSound, Saving
  <2>4. LoggedIsSaved'
    BY <1>11, ParamsAssumption DEF CloseIndex, FoldersSound, WorkersSound, LoggedIsSaved, Saving, Times
  <2> QED BY <2>1, <2>2, <2>3, <2>4
<1>12. ASSUME NEW c \in Clients, OpenDataset(c) PROVE StoreInv'
  <2>1. TypeOK'
    BY <1>12 DEF OpenDataset, Goto, disk, Labels
  <2>3. WorkersSound'
    BY <1>12, ParamsAssumption DEF OpenDataset, Goto, disk, FoldersSound, WorkersSound, Saving
  <2> QED BY <1>12, <2>1, <2>3 DEF OpenDataset, disk, FoldersSound, LoggedIsSaved
<1>13. ASSUME NEW c \in Clients, CloseDataset(c) PROVE StoreInv'
  <2>1. TypeOK'
    BY <1>13 DEF CloseDataset, Goto, disk, Labels
  <2>3. WorkersSound'
    BY <1>13, ParamsAssumption DEF CloseDataset, Goto, disk, FoldersSound, WorkersSound, Saving
  <2> QED BY <1>13, <2>1, <2>3 DEF CloseDataset, disk, FoldersSound, LoggedIsSaved
\* The worker's own folder is the one the new record needs.
<1>14. ASSUME NEW c \in Clients, Log(c) PROVE StoreInv'
  <2>1. TypeOK'
    <3>1. (pc[c] = "loaded") \in BOOLEAN
      OBVIOUS
    <3>2. [build_params |-> params[c], built_from_file |-> pc[c] = "loaded"]
            \in [build_params : Params, built_from_file : BOOLEAN]
      <4>1. params[c] \in Params
        OBVIOUS
      <4> QED BY <3>1, <4>1, Zenon
    <3>3. logs' \subseteq [build_params : Params, built_from_file : BOOLEAN]
      <4> DEFINE r == [build_params |-> params[c], built_from_file |-> pc[c] = "loaded"]
      <4>1. logs' = logs \cup {r}
        BY <1>14, Zenon DEF Log
      <4> HIDE DEF r
      <4> QED BY <3>2, <4>1, Zenon DEF r
    <3> QED BY <1>14, <3>3 DEF Log, Goto, disk, Labels
  <2>3. WorkersSound'
    BY <1>14, ParamsAssumption DEF Log, Goto, disk, FoldersSound, WorkersSound, Saving
  <2>4. LoggedIsSaved'
    BY <1>14, ParamsAssumption DEF Log, disk, WorkersSound, LoggedIsSaved
  <2> QED BY <1>14, <2>1, <2>3, <2>4 DEF Log, disk, FoldersSound
\* What a killed worker leaves is torn, or consistent.
<1>15. ASSUME NEW c \in Clients, Crash(c) PROVE StoreInv'
  <2>1. TypeOK'
    BY <1>15 DEF Crash, Goto, disk, Labels
  <2>3. WorkersSound'
    BY <1>15, ParamsAssumption DEF Crash, Goto, disk, FoldersSound, WorkersSound, Saving
  <2> QED BY <1>15, <2>1, <2>3 DEF Crash, disk, FoldersSound, LoggedIsSaved
<1>16. CASE UNCHANGED vars
  BY <1>16 DEF vars, disk, FoldersSound, WorkersSound, LoggedIsSaved
<1> QED
  BY <1>1, <1>2, <1>3, <1>4, <1>5, <1>6, <1>7, <1>8, <1>9, <1>10, <1>11, <1>12, <1>13, <1>14, <1>15, <1>16 DEF Next, _benchmark_worker

\* The invariant holds along every behaviour.
THEOREM StoreInvariant == FreshSecond => (Spec => []StoreInv)
<1> SUFFICES ASSUME FreshSecond PROVE Spec => []StoreInv
  OBVIOUS
<1> QED BY InitStore, NextStore, PTL DEF Spec

\* A run that is about to query holds a graph of its own parameters.
THEOREM LoadsOwnParameters == FreshSecond => (Spec => []LoadedMatches)
<1>1. StoreInv => LoadedMatches
  BY DEF StoreInv, WorkersSound, LoadedMatches
<1> QED BY <1>1, StoreInvariant, PTL

\* The index of a logged run is there, whole, for ever.
THEOREM LoggedStaysSaved == FreshSecond => (Spec => []LoggedIsSaved)
<1>1. StoreInv => LoggedIsSaved
  BY DEF StoreInv
<1> QED BY <1>1, StoreInvariant, PTL

-----------------------------------------------------------------------------
(* The log does not disturb the store                                       *)

\* Every step of a worker or a logger is a step of SaveStore or leaves its
\* variables alone.
LEMMA StoreStep ==
  ASSUME [NextLog]_<<vars, logVars>>
  PROVE  [Next]_vars
<1>1. ASSUME NEW c \in Clients, Run(c) PROVE Next
  BY <1>1 DEF Run, Next
<1>2. ASSUME NEW c \in Clients, LogStep(c) PROVE [Next]_vars
  BY <1>2 DEF LogStep, SaveArrays, OpenMetadata, CloseMetadata, _update_master_registry,
              Next, _benchmark_worker
<1>3. ASSUME NEW c \in Clients, KillWorker(c) PROVE Next
  BY <1>3 DEF KillWorker, Next
<1>4. ASSUME NEW w \in Writers, Rewrite(w) \/ KillLogger(w) PROVE UNCHANGED vars
  BY <1>4 DEF Rewrite, Read, Change, Truncate, Write, KillLogger
<1>5. ASSUME CopyMetrics \/ NoMetrics \/ StartPost \/ NextDir PROVE UNCHANGED vars
  BY <1>5 DEF CopyMetrics, NoMetrics, StartPost, NextDir
<1> QED BY <1>1, <1>2, <1>3, <1>4, <1>5 DEF NextLog

LEMMA LogKeepsStore == FreshSecond => (LogSpec => []StoreInv)
<1> SUFFICES ASSUME FreshSecond PROVE LogSpec => []StoreInv
  OBVIOUS
<1>1. InitLog => StoreInv
  BY InitStore DEF InitLog
<1>2. StoreInv /\ [NextLog]_<<vars, logVars>> => StoreInv'
  BY StoreStep, NextStore
<1> QED BY <1>1, <1>2, PTL DEF LogSpec

-----------------------------------------------------------------------------
(* What is on record                                                        *)

Steps == {"none", "open", "close", "register", "read", "change", "truncate",
          "write", "next", "end"}
OpSet == {"recall", "latency", "files", "metrics"}
Meta  == [params : Params, built_from_file : BOOLEAN,
          build_time : Params \cup {"absent"}, logged : SUBSET OpSet]
Active(w) == step[w] \notin {"none", "next", "end"}

LogTypeOK ==
  /\ dirs \in Seq(Meta \cup {Absent, Torn, Mixed})
  /\ step \in [Writers -> Steps] /\ op \in [Writers -> OpSet]
  /\ dir \in [Writers -> Nat] /\ memo \in [Writers -> Meta \cup {Absent}]
  /\ registry \subseteq DOMAIN dirs /\ todo \subseteq DOMAIN dirs
  /\ visited \subseteq DOMAIN dirs

\* Metrics are those of the run's parameters, and the run is on record.
Sound(m) ==
  /\ m.build_time \in {"absent", m.params}
  /\ ~m.built_from_file => m.build_time = m.params
  /\ \E r \in logs : r.build_params = m.params

\* What is in a file or about to be written to one.
RecordsSound ==
  /\ \A d \in DOMAIN dirs : Readable(d) => Sound(dirs[d])
  /\ \A w \in Writers :
       /\ Active(w) => dir[w] \in DOMAIN dirs
       /\ step[w] \in {"change", "truncate", "write"} => memo[w] \in Meta /\ Sound(memo[w])

LogInv == LogTypeOK /\ RecordsSound

\* Metadata can be told from what is not there and what is cut off.
LEMMA MetaReadable ==
  /\ Absent \notin Meta /\ Torn \notin Meta /\ Mixed \notin Meta
  /\ Absent # Torn /\ Absent # Mixed /\ Torn # Mixed
BY DEF Absent, Torn, Mixed, Meta

\* What is in a directory that can be read is metadata.
LEMMA ReadableMeta ==
  ASSUME LogTypeOK, NEW d \in DOMAIN dirs
  PROVE  /\ Readable(d) <=> dirs[d] \in Meta
         /\ dirs[d] \in Meta \cup {Absent, Torn, Mixed}
<1>1. dirs[d] \in Meta \cup {Absent, Torn, Mixed}
  BY DEF LogTypeOK
<1> QED BY <1>1, MetaReadable DEF Readable

\* A run's first metadata: what it loaded or built is of its parameters.
LEMMA FirstMetadata ==
  ASSUME StoreInv, NEW c \in Clients, pc[c] \in {"loaded", "built"}, Log(c),
         NEW m, m = Metadata(c)
  PROVE  m \in Meta /\ Sound(m)'
<1> DEFINE loaded == pc[c] = "loaded"
           time   == IF loaded THEN "absent" ELSE held[c]
<1>1. loaded \in BOOLEAN
  OBVIOUS
<1>2. params[c] \in Params /\ held[c] = params[c] /\ params' = params /\ held' = held
  BY DEF StoreInv, TypeOK, WorkersSound, Log
<1>3. time \in {"absent", params[c]} /\ (~loaded => time = params[c])
  BY <1>2
<1>4. [build_params |-> params[c], built_from_file |-> loaded] \in logs'
  BY Zenon DEF Log
<1>5. \E r \in logs' : r.build_params = params[c]
  BY <1>4
<1> HIDE DEF loaded, time
<1>6. m = [params |-> params[c], built_from_file |-> loaded,
           build_time |-> time, logged |-> {}]
  BY Zenon DEF Metadata, loaded, time
<1>7. CASE loaded = TRUE
  <2>1. m = [params |-> params[c], built_from_file |-> TRUE, build_time |-> time, logged |-> {}]
    BY <1>6, <1>7, Zenon
  <2> QED BY <1>2, <1>3, <1>5, <1>7, <2>1 DEF Meta, Sound
<1>8. CASE loaded = FALSE
  <2>1. m = [params |-> params[c], built_from_file |-> FALSE, build_time |-> time, logged |-> {}]
    BY <1>6, <1>8, Zenon
  <2> QED BY <1>2, <1>3, <1>5, <1>8, <2>1 DEF Meta, Sound
<1> QED BY <1>1, <1>7, <1>8

\* What is on record stays on record.
LEMMA SoundStays ==
  ASSUME logs \subseteq logs', NEW m, Sound(m)
  PROVE  Sound(m)'
<1>1. PICK r \in logs : r.build_params = m.params
  BY Zenon DEF Sound
<1>2. \E q \in logs' : q.build_params = m.params
  BY <1>1
<1>3. /\ m.build_time \in {"absent", m.params}
      /\ ~m.built_from_file => m.build_time = m.params
  BY Zenon DEF Sound
<1> QED BY <1>2, <1>3, Zenon DEF Sound

\* A directory whose metadata is replaced: the others are as they were.
LEMMA Replaced ==
  ASSUME LogTypeOK, RecordsSound, logs \subseteq logs',
         NEW i, NEW v \in Meta \cup {Absent, Torn, Mixed}, v \in Meta => Sound(v)',
         dirs' = [dirs EXCEPT ![i] = v]
  PROVE  /\ dirs' \in Seq(Meta \cup {Absent, Torn, Mixed})
         /\ DOMAIN dirs' = DOMAIN dirs
         /\ \A d \in DOMAIN dirs' : Readable(d)' => Sound(dirs[d])'
<1> DEFINE V == Meta \cup {Absent, Torn, Mixed}
<1>1. dirs \in Seq(V)
  BY DEF LogTypeOK
<1>v. v \in V
  OBVIOUS
<1> HIDE DEF V
<1>2. dirs' \in Seq(V) /\ DOMAIN dirs' = DOMAIN dirs
  <2>1. dirs \in [1 .. Len(dirs) -> V] /\ Len(dirs) \in Nat
    BY <1>1
  <2>2. dirs' \in [1 .. Len(dirs) -> V]
    BY <1>v, <2>1
  <2> QED BY <2>1, <2>2
<1>3. ASSUME NEW d \in DOMAIN dirs, Readable(d)' PROVE Sound(dirs[d])'
  <2>1. dirs'[d] \in Meta
    BY <1>2, <1>3, MetaReadable DEF Readable, V
  <2>2. CASE d = i
    BY <2>1, <2>2 
  <2>3. CASE d # i
    <3>1. dirs'[d] = dirs[d] /\ Readable(d)
      BY <1>3, <2>3 DEF Readable
    <3> QED BY <3>1, SoundStays DEF RecordsSound
  <2> QED BY <2>2, <2>3
<1> QED BY <1>2, <1>3 DEF V

\* Nothing is replaced.
LEMMA Untouched ==
  ASSUME RecordsSound, logs \subseteq logs', UNCHANGED dirs
  PROVE  \A d \in DOMAIN dirs' : Readable(d)' => Sound(dirs[d])'
<1> SUFFICES ASSUME NEW d \in DOMAIN dirs, Readable(d) PROVE Sound(dirs[d])'
  BY DEF Readable
<1> QED BY SoundStays DEF RecordsSound

\* The log is empty at first.
LEMMA InitLogInv == InitLog => LogInv
<1> SUFFICES ASSUME InitLog PROVE LogInv
  OBVIOUS
<1>1. LogTypeOK
  BY DEF InitLog, LogTypeOK, Steps, OpSet
<1>2. RecordsSound
  BY DEF InitLog, RecordsSound, Active
<1> QED BY <1>1, <1>2 DEF LogInv

\* What a step that leaves files, memories and directories alone must show.
LEMMA OnlySteps ==
  ASSUME LogInv, logs \subseteq logs', UNCHANGED <<dirs, memo, registry, visited>>,
         step' \in [Writers -> Steps], op' \in [Writers -> OpSet],
         dir' \in [Writers -> Nat], todo' \subseteq DOMAIN dirs,
         \A w \in Writers :
           /\ Active(w)' => dir'[w] \in DOMAIN dirs
           /\ step'[w] \in {"change", "truncate", "write"} =>
                step[w] \in {"change", "truncate", "write"}
  PROVE  LogInv'
<1>1. LogTypeOK'
  BY DEF LogInv, LogTypeOK
<1>2. \A d \in DOMAIN dirs' : Readable(d)' => Sound(dirs[d])'
  BY Untouched DEF LogInv
<1>3. \A w \in Writers : step'[w] \in {"change", "truncate", "write"} =>
                           memo'[w] \in Meta /\ Sound(memo[w])'
  BY SoundStays DEF LogInv, RecordsSound
<1> QED BY <1>1, <1>2, <1>3 DEF LogInv, RecordsSound

\* The four operations in their order.
LEMMA OpsInOrder ==
  NextOf("recall") = "latency" /\ NextOf("latency") = "files" /\ NextOf("files") = "metrics"
<1> DEFINE Follows(o, next) == \E i \in 2 .. Len(Ops) : Ops[i - 1] = o /\ Ops[i] = next
<1>1. Len(Ops) = 4 /\ Range(Ops) = OpSet
  BY DEF Ops, OpSet, Range
<1>2. \A next : /\ Follows("recall", next) <=> next = "latency"
                /\ Follows("latency", next) <=> next = "files"
                /\ Follows("files", next) <=> next = "metrics"
  BY <1>1 DEF Ops
<1> QED BY <1>1, <1>2 DEF NextOf, OpSet

\* The operation after another one is one of the four.
LEMMA DoneTypes ==
  ASSUME LogTypeOK, NEW w \in Writers, Done(w), dir[w] \in DOMAIN dirs
  PROVE  /\ step' \in [Writers -> Steps] /\ op' \in [Writers -> OpSet]
         /\ visited' \subseteq DOMAIN dirs
         /\ step'[w] \in {"none", "read", "next"}
         /\ \A v \in Writers \ {w} : step'[v] = step[v]
<1>1. CASE w # Post
  BY <1>1 DEF LogTypeOK, Done, Step, Steps
<1>2. CASE w = Post /\ op[w] = "metrics"
  BY <1>2 DEF LogTypeOK, Done, Step, Steps
<1>3. CASE w = Post /\ op[w] # "metrics"
  BY <1>3, OpsInOrder DEF LogTypeOK, Done, Step, Steps, OpSet
<1> QED BY <1>1, <1>2, <1>3

\* The directory that a new run appends is empty; those before it stay.
LEMMA Appended ==
  ASSUME LogTypeOK, RecordsSound, UNCHANGED logs, dirs' = Append(dirs, Absent)
  PROVE  /\ dirs' \in Seq(Meta \cup {Absent, Torn, Mixed})
         /\ DOMAIN dirs' = DOMAIN dirs \cup {Len(dirs) + 1}
         /\ Len(dirs) + 1 \in Nat /\ Len(dirs) + 1 \notin DOMAIN dirs
         /\ \A d \in DOMAIN dirs : dirs'[d] = dirs[d]
         /\ dirs'[Len(dirs) + 1] = Absent
         /\ \A d \in DOMAIN dirs' : Readable(d)' => Sound(dirs[d])'
<1> DEFINE V == Meta \cup {Absent, Torn, Mixed}
<1>1. dirs \in Seq(V) /\ Absent \in V
  BY DEF LogTypeOK
<1> HIDE DEF V
<1>2. /\ dirs' \in Seq(V)
      /\ DOMAIN dirs' = DOMAIN dirs \cup {Len(dirs) + 1}
      /\ Len(dirs) + 1 \in Nat /\ Len(dirs) + 1 \notin DOMAIN dirs
      /\ \A d \in DOMAIN dirs : dirs'[d] = dirs[d]
      /\ dirs'[Len(dirs) + 1] = Absent
  BY <1>1
<1>3. \A d \in DOMAIN dirs' : Readable(d)' => Sound(dirs[d])'
  <2> SUFFICES ASSUME NEW d \in DOMAIN dirs, Readable(d) PROVE Sound(dirs[d])'
    BY <1>2 DEF Readable
  <2> QED BY <1>2, SoundStays DEF RecordsSound
<1> QED BY <1>2, <1>3 DEF V

\* Every step keeps the types and the soundness of what is on record.
LEMMA NextLogInv ==
  ASSUME StoreInv, LogInv, [NextLog]_<<vars, logVars>>
  PROVE  LogInv'
<1> USE DEF LogInv
\* A worker before its answers writes nothing here.
<1>1. ASSUME NEW c \in Clients, Run(c) PROVE LogInv'
  <2>1. logs \subseteq logs'
    BY <1>1 DEF Run, Start, _benchmark_worker, find_saved_files, Look, NotFound, LoadGraph,
                LoadDataset, build, prepare_folders, WriteMetadata, OpenIndex, CloseIndex,
                OpenDataset, CloseDataset, Log
  <2> QED BY <1>1, <2>1, OnlySteps DEF Run, logVars, LogTypeOK, RecordsSound, Active
<1>2. ASSUME NEW c \in Clients, SaveArrays(c) PROVE LogInv'
  <2>1. /\ UNCHANGED <<registry, op, memo, todo, visited>> /\ UNCHANGED logs
        /\ step' = [step EXCEPT ![c] = "open"] /\ c \in Writers
    BY <1>2 DEF SaveArrays, Step, vars, Writers
  <2>2. CASE dirs' = Append(dirs, Absent) /\ dir' = [dir EXCEPT ![c] = Len(dirs) + 1]
    <3>1. LogTypeOK'
      BY <2>1, <2>2, Appended DEF Steps, LogTypeOK
    <3>2. \A w \in Writers : step'[w] \in {"change", "truncate", "write"} =>
                               memo'[w] \in Meta /\ Sound(memo[w])'
      BY <2>1, SoundStays DEF LogTypeOK, RecordsSound
    <3>3. \A w \in Writers : Active(w)' => dir'[w] \in DOMAIN dirs'
      BY <2>1, <2>2, Appended DEF LogTypeOK, RecordsSound, Active
    <3> QED BY <2>1, <2>2, <3>1, <3>2, <3>3, Appended DEF RecordsSound
  <2>3. ASSUME NEW d \in DOMAIN dirs, dirs' = dirs, dir' = [dir EXCEPT ![c] = d]
        PROVE  LogInv'
    <3>1. dirs \in Seq(Meta \cup {Absent, Torn, Mixed})
      BY DEF LogTypeOK
    <3>2. d \in Nat
      BY <3>1
    <3>3. dir' \in [Writers -> Nat] /\ step' \in [Writers -> Steps]
      BY <2>1, <2>3, <3>2 DEF LogTypeOK, Steps
    <3>4. \A w \in Writers :
            /\ Active(w)' => dir'[w] \in DOMAIN dirs
            /\ step'[w] \in {"change", "truncate", "write"} =>
                 step[w] \in {"change", "truncate", "write"}
      BY <2>1, <2>3 DEF LogTypeOK, RecordsSound, Active
    <3> QED BY <2>1, <2>3, <3>3, <3>4, OnlySteps DEF LogTypeOK
  <2> QED BY <1>2, <2>2, <2>3 DEF SaveArrays
<1>3. ASSUME NEW c \in Clients, OpenMetadata(c) PROVE LogInv'
  <2>1. UNCHANGED logs /\ dirs' = [dirs EXCEPT ![dir[c]] = Torn] /\ Torn \in Meta \cup {Absent, Torn, Mixed}
    BY <1>3 DEF OpenMetadata, MetadataFirst, vars
  <2>2. /\ dirs' \in Seq(Meta \cup {Absent, Torn, Mixed}) /\ DOMAIN dirs' = DOMAIN dirs
        /\ \A d \in DOMAIN dirs' : Readable(d)' => Sound(dirs[d])'
    BY <2>1, Replaced, MetaReadable
  <2>3. LogTypeOK'
    BY <1>3, <2>2 DEF OpenMetadata, MetadataFirst, Step, Steps, LogTypeOK, Writers
  <2>4. \A w \in Writers : step'[w] \in {"change", "truncate", "write"} =>
                             memo'[w] \in Meta /\ Sound(memo[w])'
    BY <1>3, <2>1, SoundStays DEF OpenMetadata, Step, LogTypeOK, RecordsSound
  <2>5. \A w \in Writers : Active(w)' => dir'[w] \in DOMAIN dirs'
    BY <1>3, <2>2 DEF OpenMetadata, Step, LogTypeOK, RecordsSound, Active, Writers
  <2> QED BY <2>2, <2>3, <2>4, <2>5 DEF RecordsSound
<1>4. ASSUME NEW c \in Clients, CloseMetadata(c) PROVE LogInv'
  <2>1. PICK m : m = Metadata(c)
    OBVIOUS
  <2>2. m \in Meta /\ Sound(m)' /\ logs \subseteq logs'
    BY <1>4, <2>1, FirstMetadata DEF CloseMetadata, Log
  <2>3. PICK v \in {m, Mixed} : dirs' = [dirs EXCEPT ![dir[c]] = v]
    BY <1>4, <2>1 DEF CloseMetadata, Filled
  <2>4. /\ dirs' \in Seq(Meta \cup {Absent, Torn, Mixed}) /\ DOMAIN dirs' = DOMAIN dirs
        /\ \A d \in DOMAIN dirs' : Readable(d)' => Sound(dirs[d])'
    BY <2>2, <2>3, Replaced, MetaReadable
  <2>5. LogTypeOK'
    BY <1>4, <2>4 DEF CloseMetadata, Step, Steps, LogTypeOK, Writers
  <2>6. \A w \in Writers : step'[w] \in {"change", "truncate", "write"} =>
                             memo'[w] \in Meta /\ Sound(memo[w])'
    BY <1>4, <2>2, SoundStays DEF CloseMetadata, Step, LogTypeOK, RecordsSound
  <2>7. \A w \in Writers : Active(w)' => dir'[w] \in DOMAIN dirs'
    BY <1>4, <2>4 DEF CloseMetadata, Step, LogTypeOK, RecordsSound, Active, Writers
  <2> QED BY <2>4, <2>5, <2>6, <2>7 DEF RecordsSound
<1>5. ASSUME NEW c \in Clients, _update_master_registry(c) PROVE LogInv'
  <2>1. c \in Writers /\ UNCHANGED <<vars, dirs, dir, memo, todo, visited>> /\ UNCHANGED logs
    BY <1>5 DEF _update_master_registry, Writers, vars
  <2>2. LogTypeOK'
    BY <1>5, <2>1 DEF _update_master_registry, Step, Steps, OpSet, LogTypeOK, RecordsSound, Active
  <2>3. \A w \in Writers : step'[w] \in {"change", "truncate", "write"} =>
                             memo'[w] \in Meta /\ Sound(memo[w])'
    BY <1>5, <2>1, SoundStays DEF _update_master_registry, Step, LogTypeOK, RecordsSound
  <2>4. \A w \in Writers : Active(w)' => dir'[w] \in DOMAIN dirs'
    BY <1>5, <2>1 DEF _update_master_registry, Step, LogTypeOK, RecordsSound, Active
  <2> QED BY <2>1, <2>2, <2>3, <2>4, Untouched DEF RecordsSound
\* What is read can be read, so that it is sound.
<1>6. ASSUME NEW w \in Writers, Read(w) PROVE LogInv'
  <2>1. UNCHANGED <<dirs, registry, dir, op, visited, logs>> /\ step[w] = "read"
    BY <1>6 DEF Read, vars
  <2>2. dir[w] \in DOMAIN dirs
    BY <2>1 DEF RecordsSound, Active
  <2>3. CASE Readable(dir[w])
    <3>1. dirs[dir[w]] \in Meta /\ Sound(dirs[dir[w]])
      BY <2>2, <2>3, ReadableMeta DEF RecordsSound
    <3>2. /\ memo' = [memo EXCEPT ![w] = dirs[dir[w]]]
          /\ step' = [step EXCEPT ![w] = "change"] /\ todo' = todo
      BY <1>6, <2>3 DEF Read, Step
    <3>3. LogTypeOK'
      BY <2>1, <3>1, <3>2 DEF Steps, LogTypeOK
    <3>4. \A v \in Writers : step'[v] \in {"change", "truncate", "write"} =>
                               memo'[v] \in Meta /\ Sound(memo'[v])
      BY <3>1, <3>2 DEF LogTypeOK, RecordsSound
    <3>5. \A v \in Writers : step'[v] \in {"change", "truncate", "write"} => Sound(memo[v])'
      BY <2>1, <3>4, SoundStays
    <3>6. \A v \in Writers : Active(v)' => dir'[v] \in DOMAIN dirs'
      BY <2>1, <2>2, <3>2 DEF LogTypeOK, RecordsSound, Active
    <3> QED BY <2>1, <3>3, <3>4, <3>5, <3>6, Untouched DEF RecordsSound
  <2>4. CASE ~Readable(dir[w])
    <3>1. /\ memo' = memo /\ todo' \in {{}, todo}
          /\ \E l \in {"none", "end"} : step' = [step EXCEPT ![w] = l]
      BY <1>6, <2>4 DEF Read, Step, Stopped
    <3> QED BY <2>1, <3>1, OnlySteps DEF LogTypeOK, RecordsSound, Active, Steps
  <2> QED BY <2>3, <2>4
\* Statistics and metrics that are added keep it sound.
<1>7. ASSUME NEW w \in Writers, Change(w) PROVE LogInv'
  <2>1. /\ UNCHANGED <<dirs, registry, dir, op, todo, visited, logs>> /\ step[w] = "change"
        /\ step' = [step EXCEPT ![w] = "truncate"]
    BY <1>7 DEF Change, vars, Step
  <2>2. PICK s \in SUBSET OpSet : memo' = [memo EXCEPT ![w] = [memo[w] EXCEPT !.logged = s]]
    <3> DEFINE added == IF op[w] = "files" /\ SavedFor(memo[w].params) = {} THEN {} ELSE {op[w]}
               s == memo[w].logged \cup added
    <3>1. memo' = [memo EXCEPT ![w] = [memo[w] EXCEPT !.logged = s]]
      BY <1>7 DEF Change
    <3>2. memo[w] \in Meta /\ op[w] \in OpSet
      BY <2>1 DEF LogTypeOK, RecordsSound
    <3>3. memo[w].logged \subseteq OpSet
      BY <3>2 DEF Meta
    <3>4. s \in SUBSET OpSet
      BY <3>2, <3>3
    <3> HIDE DEF s
    <3> QED BY <3>1, <3>4
  <2>3. PICK m : m = [memo[w] EXCEPT !.logged = s]
    OBVIOUS
  <2>4. m \in Meta /\ m.params = memo[w].params /\ m.build_time = memo[w].build_time
                   /\ m.built_from_file = memo[w].built_from_file
    BY <2>1, <2>3 DEF RecordsSound, Meta
  <2>5. Sound(m)
    BY <2>1, <2>4, Zenon DEF RecordsSound, Sound
  <2>6. memo' = [memo EXCEPT ![w] = m]
    BY <2>2, <2>3
  <2>7. LogTypeOK'
    BY <2>1, <2>4, <2>6 DEF Steps, LogTypeOK
  <2>8. \A v \in Writers : step'[v] \in {"change", "truncate", "write"} =>
                             memo'[v] \in Meta /\ Sound(memo'[v])
    BY <2>1, <2>4, <2>5, <2>6 DEF LogTypeOK, RecordsSound
  <2>9. \A v \in Writers : step'[v] \in {"change", "truncate", "write"} => Sound(memo[v])'
    BY <2>1, <2>8, SoundStays
  <2>10. \A v \in Writers : Active(v)' => dir'[v] \in DOMAIN dirs'
    BY <2>1 DEF LogTypeOK, RecordsSound, Active
  <2> QED BY <2>1, <2>7, <2>8, <2>9, <2>10, Untouched DEF RecordsSound
<1>8. ASSUME CopyMetrics PROVE LogInv'
  <2> DEFINE w == Post
  <2>1. /\ UNCHANGED <<dirs, registry, dir, op, todo, visited, logs>> /\ step[w] = "change"
        /\ step' = [step EXCEPT ![w] = "truncate"] /\ w \in Writers
        /\ memo[w] \in Meta /\ Sound(memo[w]) /\ memo[w].built_from_file
    BY <1>8 DEF CopyMetrics, Searching, vars, Step, Writers, RecordsSound
  <2>2. PICK e \in SameBuild(dir[w]) : memo' = [memo EXCEPT ![w].build_time = dirs[e].build_time]
    BY <1>8 DEF CopyMetrics
  <2>3. dirs[e].build_time = memo[w].params
    BY <2>2 DEF SameBuild, RecordsSound, Sound
  <2>4. PICK m : m = [memo[w] EXCEPT !.build_time = memo[w].params]
    OBVIOUS
  <2>5. m \in Meta /\ m.params = memo[w].params /\ m.build_time = memo[w].params
    BY <2>1, <2>4 DEF Meta
  <2>6. Sound(m)
    BY <2>1, <2>5 DEF Sound
  <2>7. memo' = [memo EXCEPT ![w] = m]
    BY <2>2, <2>3, <2>4
  <2>8. LogTypeOK'
    BY <2>1, <2>5, <2>7 DEF Steps, LogTypeOK
  <2>9. \A v \in Writers : step'[v] \in {"change", "truncate", "write"} =>
                             memo'[v] \in Meta /\ Sound(memo'[v])
    BY <2>1, <2>5, <2>6, <2>7 DEF LogTypeOK, RecordsSound
  <2>10. \A v \in Writers : step'[v] \in {"change", "truncate", "write"} => Sound(memo[v])'
    BY <2>1, <2>9, SoundStays
  <2>11. \A v \in Writers : Active(v)' => dir'[v] \in DOMAIN dirs'
    BY <2>1 DEF LogTypeOK, RecordsSound, Active
  <2> QED BY <2>1, <2>8, <2>9, <2>10, <2>11, Untouched DEF RecordsSound
<1>9. ASSUME NoMetrics PROVE LogInv'
  <2>1. /\ UNCHANGED <<dirs, registry, dir, memo, todo, logs>>
        /\ Post \in Writers /\ Done(Post) /\ dir[Post] \in DOMAIN dirs
    BY <1>9 DEF NoMetrics, Searching, vars, Writers, RecordsSound, Active
  <2>2. LogTypeOK'
    BY <2>1, DoneTypes DEF LogTypeOK
  <2>3. \A v \in Writers : step'[v] \in {"change", "truncate", "write"} =>
                             memo'[v] \in Meta /\ Sound(memo'[v])
    BY <2>1, DoneTypes DEF LogTypeOK, RecordsSound
  <2>4. \A v \in Writers : step'[v] \in {"change", "truncate", "write"} => Sound(memo[v])'
    BY <2>1, <2>3, SoundStays
  <2>5. \A v \in Writers : Active(v)' => dir'[v] \in DOMAIN dirs'
    BY <2>1, DoneTypes DEF LogTypeOK, RecordsSound, Active
  <2> QED BY <2>1, <2>2, <2>3, <2>4, <2>5, Untouched DEF RecordsSound
<1>10. ASSUME NEW w \in Writers, Truncate(w) PROVE LogInv'
  <2>1. /\ UNCHANGED <<logs, registry, dir, op, memo, todo, visited>> /\ step[w] = "truncate"
        /\ step' = [step EXCEPT ![w] = "write"]
        /\ dirs' = [dirs EXCEPT ![dir[w]] = Torn] /\ Torn \in Meta \cup {Absent, Torn, Mixed}
    BY <1>10 DEF Truncate, vars, Step
  <2>2. /\ dirs' \in Seq(Meta \cup {Absent, Torn, Mixed}) /\ DOMAIN dirs' = DOMAIN dirs
        /\ \A d \in DOMAIN dirs' : Readable(d)' => Sound(dirs[d])'
    BY <2>1, Replaced, MetaReadable
  <2>3. LogTypeOK'
    BY <2>1, <2>2 DEF Steps, LogTypeOK
  <2>4. \A v \in Writers : step'[v] \in {"change", "truncate", "write"} =>
                             memo'[v] \in Meta /\ Sound(memo[v])'
    BY <2>1, SoundStays DEF LogTypeOK, RecordsSound
  <2>5. \A v \in Writers : Active(v)' => dir'[v] \in DOMAIN dirs'
    BY <2>1, <2>2 DEF LogTypeOK, RecordsSound, Active
  <2> QED BY <2>2, <2>3, <2>4, <2>5 DEF RecordsSound
<1>11. ASSUME NEW w \in Writers, Write(w) PROVE LogInv'
  <2>1. /\ UNCHANGED <<logs, registry, dir, memo, todo>> /\ step[w] = "write"
        /\ Done(w) /\ dir[w] \in DOMAIN dirs
    BY <1>11 DEF Write, vars, RecordsSound, Active
  <2>2. PICK m \in Meta \cup {Mixed} : /\ dirs' = [dirs EXCEPT ![dir[w]] = m]
                                       /\ m \in Meta => m = memo[w]
    BY <1>11, <2>1, MetaReadable DEF Write, Filled, RecordsSound
  <2>3. m \in Meta => Sound(m)'
    BY <2>1, <2>2, SoundStays DEF RecordsSound
  <2>4. /\ dirs' \in Seq(Meta \cup {Absent, Torn, Mixed}) /\ DOMAIN dirs' = DOMAIN dirs
        /\ \A d \in DOMAIN dirs' : Readable(d)' => Sound(dirs[d])'
    BY <2>1, <2>2, <2>3, Replaced
  <2>5. LogTypeOK'
    BY <2>1, <2>4, DoneTypes DEF LogTypeOK
  <2>6. \A v \in Writers : step'[v] \in {"change", "truncate", "write"} =>
                             memo'[v] \in Meta /\ Sound(memo[v])'
    BY <2>1, DoneTypes, SoundStays DEF LogTypeOK, RecordsSound
  <2>7. \A v \in Writers : Active(v)' => dir'[v] \in DOMAIN dirs'
    BY <2>1, <2>4, DoneTypes DEF LogTypeOK, RecordsSound, Active
  <2> QED BY <2>4, <2>5, <2>6, <2>7 DEF RecordsSound
<1>12. ASSUME StartPost \/ NextDir PROVE LogInv'
  <2>1. UNCHANGED <<logs, dirs, memo, registry, visited>> /\ Post \in Writers
    BY <1>12 DEF StartPost, NextDir, vars, Writers
  <2>2. dirs \in Seq(Meta \cup {Absent, Torn, Mixed})
    BY DEF LogTypeOK
  <2>3. DOMAIN dirs \subseteq Nat
    BY <2>2
  <2>4. CASE StartPost
    BY <2>1, <2>4, OnlySteps DEF StartPost, Step, Steps, LogTypeOK, RecordsSound, Active
  <2>5. CASE NextDir
    <3>1. CASE UNCHANGED <<dir, op, todo>> /\ step' = [step EXCEPT ![Post] = "end"]
      BY <2>1, <3>1, OnlySteps DEF Steps, LogTypeOK, RecordsSound, Active
    <3>2. ASSUME NEW d \in todo, dir' = [dir EXCEPT ![Post] = d],
                 op' = [op EXCEPT ![Post] = "recall"], todo' = todo \ {d},
                 step' = [step EXCEPT ![Post] = "read"]
          PROVE  LogInv'
      <4>1. d \in DOMAIN dirs /\ d \in Nat
        BY <2>3 DEF LogTypeOK
      <4>2. /\ step' \in [Writers -> Steps] /\ op' \in [Writers -> OpSet]
            /\ dir' \in [Writers -> Nat] /\ todo' \subseteq DOMAIN dirs
        BY <3>2, <4>1 DEF LogTypeOK, Steps, OpSet
      <4>3. \A w \in Writers :
              /\ Active(w)' => dir'[w] \in DOMAIN dirs
              /\ step'[w] \in {"change", "truncate", "write"} =>
                   step[w] \in {"change", "truncate", "write"}
        BY <3>2, <4>1 DEF LogTypeOK, RecordsSound, Active
      <4> QED BY <2>1, <4>2, <4>3, OnlySteps
    <3> QED BY <2>5, <3>1, <3>2 DEF NextDir, Step
  <2> QED BY <1>12, <2>4, <2>5
<1>13. ASSUME NEW w \in Writers, KillLogger(w) \/ KillWorker(w) PROVE LogInv'
  <2>1. /\ UNCHANGED <<logs, dirs, memo, registry, visited, op, dir>>
        /\ todo' \in {{}, todo}
        /\ \E l \in {"none", "end"} : step' = [step EXCEPT ![w] = l]
    BY <1>13 DEF KillLogger, KillWorker, Crash, vars, Step, Stopped
  <2> QED BY <2>1, OnlySteps DEF LogTypeOK, RecordsSound, Active, Steps
<1>14. CASE UNCHANGED <<vars, logVars>>
  BY <1>14, OnlySteps DEF vars, logVars, LogTypeOK, RecordsSound, Active
<1> QED
  BY <1>1, <1>2, <1>3, <1>4, <1>5, <1>6, <1>7, <1>8, <1>9, <1>10, <1>11, <1>12, <1>13, <1>14
  DEF NextLog, LogStep, Rewrite, Writers

LEMMA LogInvariance == FreshSecond => (LogSpec => [](StoreInv /\ LogInv))
<1>1. InitLog => LogInv
  BY InitLogInv
<1>2. StoreInv /\ LogInv /\ [NextLog]_<<vars, logVars>> => LogInv'
  BY NextLogInv
<1> QED BY <1>1, <1>2, LogKeepsStore, PTL DEF LogSpec

\* For any scripts, parameters and kills, whatever runs beside it: the
\* construction metrics on record, measured or copied, are those of an index
\* built with the run's parameters (copy_construction_metrics).
THEOREM MetricsAreOfABuild == FreshSecond => (LogSpec => []MetricsOfABuild)
<1>1. LogInv => MetricsOfABuild
  BY DEF LogInv, RecordsSound, Sound, MetricsOfABuild
<1> QED BY <1>1, LogInvariance, PTL

\* Loggers and postprocess.py included, a run that answers queries holds a
\* graph of its own parameters.
THEOREM LoggedRunsLoadTheirOwn == FreshSecond => (LogSpec => []LoadedMatches)
<1>1. StoreInv => LoadedMatches
  BY DEF StoreInv, WorkersSound, LoadedMatches
<1> QED BY <1>1, LogKeepsStore, PTL

\* A run on record has its index on disk, whole, for as long as the log lives.
THEOREM LoggedRunsStaySaved == FreshSecond => (LogSpec => []LoggedIsSaved)
<1>1. StoreInv => LoggedIsSaved
  BY DEF StoreInv
<1> QED BY <1>1, LogKeepsStore, PTL
-----------------------------------------------------------------------------
(* Directories that runs and writers share                                  *)

\* Two writers at work on one directory, and two runs that begin with one, are
\* noted.
Overlap ==
  \A w \in Writers : \A v \in Writers \ {w} :
    dir[w] = dir[v] /\ ((Busy(w) /\ Busy(v)) \/ (step[w] = "open" /\ step[v] = "open")) =>
      dir[w] \in shared

\* Why the metadata of a directory cannot be read.
Explained(d) ==
  /\ dirs[d] = Torn => d \in cut \/ \E w \in Writers : dir[w] = d /\ Holds(w)
  /\ dirs[d] = Mixed => d \in shared

\* A run is registered once its metadata has been written; a file that was
\* truncated stays so until its writer fills it.
FilesSound ==
  /\ \A d \in DOMAIN dirs : Explained(d)
  /\ \A d \in registry : dirs[d] # Absent
  /\ \A w \in Writers :
       /\ Busy(w) \/ step[w] = "register" => dirs[dir[w]] # Absent
       /\ Holds(w) /\ dir[w] \notin shared => dirs[dir[w]] = Torn

\* What the operations before o have logged, and so what a directory has for
\* good: all of it once it is visited.
Before(o) ==
  {x \in {"recall", "latency", "files"} :
     o = "metrics" \/ (o = "files" /\ x # "files") \/ (o = "latency" /\ x = "recall")}
Kept(d) ==
  IF d \in visited THEN Before("metrics")
  ELSE IF Active(Post) /\ dir[Post] = d THEN Before(op[Post]) ELSE {}

\* It is in the file, and in the memory of everyone about to write the file;
\* a run that has yet to write its own has nothing to lose.
KeptInv ==
  /\ \A d \in DOMAIN dirs : d \notin shared /\ Readable(d) => Kept(d) \subseteq dirs[d].logged
  /\ \A w \in Writers : dir[w] \notin shared =>
       /\ step[w] \in {"change", "truncate", "write"} => Kept(dir[w]) \subseteq memo[w].logged
       /\ step[w] \in {"open", "close"} => Kept(dir[w]) = {}
       /\ step[w] = "open" => dirs[dir[w]] = Absent

\* postprocess.py writes what it has read and what the operation adds.
PostSound ==
  /\ step[Post] = "change" /\ dir[Post] \notin shared => dirs[dir[Post]] = memo[Post]
  /\ step[Post] \in {"truncate", "write"} =>
       IF op[Post] = "metrics" THEN memo[Post].build_time # "absent"
       ELSE op[Post] \in memo[Post].logged

SharedInv == Overlap /\ FilesSound /\ KeptInv /\ PostSound

LEMMA InitShared == InitLog => SharedInv
BY PostAssumption
   DEF InitLog, SharedInv, Overlap, FilesSound, KeptInv, PostSound, Writers, Busy, Holds

\* The operation that follows.
LEMMA NextOp ==
  ASSUME LogTypeOK, Done(Post), op[Post] # "metrics"
  PROVE  /\ step' = [step EXCEPT ![Post] = "read"] /\ visited' = visited
         /\ \/ op[Post] = "recall" /\ op'[Post] = "latency"
            \/ op[Post] = "latency" /\ op'[Post] = "files"
            \/ op[Post] = "files" /\ op'[Post] = "metrics"
<1>1. /\ step' = [step EXCEPT ![Post] = "read"] /\ visited' = visited
      /\ op' = [op EXCEPT ![Post] = NextOf(op[Post])]
  BY DEF Done, Step
<1>2. op[Post] \in {"recall", "latency", "files"} /\ op'[Post] = NextOf(op[Post])
  BY <1>1 DEF LogTypeOK, OpSet, Writers
<1> QED BY <1>1, <1>2, OpsInOrder

\* A run on record has its files, so that their sizes are found.
LEMMA FilesFound ==
  ASSUME StoreInv, NEW m, Sound(m)
  PROVE  SavedFor(m.params) # {}
<1>1. PICK r \in logs : r.build_params = m.params
  BY Zenon DEF Sound
<1>2. ds # "absent" /\ \E t \in Times : meta[t] = m.params /\ index[t] = m.params
  BY <1>1 DEF StoreInv, LoggedIsSaved
<1>3. m.params \in Params
  BY <1>1 DEF StoreInv, TypeOK
<1>4. PICK t \in Times : meta[t] = m.params /\ index[t] = m.params
  BY <1>2
<1>5. t \in SavedFor(m.params)
  BY <1>2, <1>3, <1>4, ParamsAssumption DEF SavedFor, Matches
<1> QED BY <1>5


\* A writer that opens or fills a file has it to itself, or that is noted.
LEMMA Others ==
  ASSUME LogTypeOK, SharedInv, NEW w \in Writers, Busy(w) \/ step[w] = "open",
         NEW v \in Writers \ {w}, dir[v] = dir[w], Busy(v) \/ step[v] = "open"
  PROVE  dir[w] \in Noted(w)
<1> USE DEF SharedInv
<1>1. CASE Busy(v)
  BY <1>1 DEF Noted
<1>2. CASE step[v] = "open" /\ step[w] = "open"
  BY <1>2 DEF Overlap, Noted
<1>3. CASE step[v] = "open" /\ Busy(w)
  <2>1. dirs[dir[w]] # Absent
    BY <1>3 DEF FilesSound
  <2>2. dir[w] \in shared
    BY <1>3, <2>1 DEF KeptInv
  <2> QED BY <2>2 DEF Noted
<1> QED BY <1>1, <1>2, <1>3

\* What is noted for a writer at work is in shared already.
LEMMA NotedBefore ==
  ASSUME SharedInv, NEW w \in Writers, Busy(w)
  PROVE  Noted(w) = shared
<1>1. CASE \E v \in Writers \ {w} : Busy(v) /\ dir[v] = dir[w]
  <2>1. dir[w] \in shared
    BY <1>1 DEF SharedInv, Overlap
  <2> QED BY <2>1, Zenon DEF Noted
<1>2. CASE ~ \E v \in Writers \ {w} : Busy(v) /\ dir[v] = dir[w]
  BY <1>2, Zenon DEF Noted
<1> QED BY <1>1, <1>2

\* What a directory has for good grows only with what postprocess.py does.
LEMMA KeptShrinks ==
  ASSUME visited' = visited,
         \/ Active(Post)' => Active(Post) /\ dir'[Post] = dir[Post] /\ op'[Post] = op[Post]
         \/ op'[Post] = "recall"
  PROVE  \A d : Kept(d)' \subseteq Kept(d)
BY DEF Kept, Before

\* A step of one writer that leaves all files alone.
LEMMA FilesAlone ==
  ASSUME LogTypeOK, SharedInv, NEW w \in Writers,
         \A v \in Writers \ {w} : step'[v] = step[v] /\ dir'[v] = dir[v] /\ memo'[v] = memo[v],
         UNCHANGED dirs, cut \subseteq cut', shared \subseteq shared',
         \A d \in registry' : d \in registry \/ dirs[d] # Absent,
         Holds(w) => dir[w] \in cut', ~Holds(w)', step'[w] \notin {"open", "register"},
         Busy(w)' => /\ dir'[w] = dir[w] /\ dirs[dir[w]] # Absent
                     /\ Busy(w) \/ shared' = Noted(w)
                     /\ dir[w] \notin shared' => Kept(dir[w]) \subseteq memo'[w].logged,
         \A d : Kept(d)' \subseteq Kept(d),
         PostSound'
  PROVE  SharedInv'
<1> USE DEF SharedInv
<1>1. Overlap'
  <2> SUFFICES ASSUME NEW u \in Writers, NEW v \in Writers \ {u}, dir'[u] = dir'[v],
                      \/ Busy(u)' /\ Busy(v)'
                      \/ step'[u] = "open" /\ step'[v] = "open"
               PROVE  dir'[u] \in shared'
    BY DEF Overlap
  <2>1. CASE u # w /\ v # w
    <3>1. /\ dir[u] = dir[v] /\ dir'[u] = dir[u]
          /\ (Busy(u) /\ Busy(v)) \/ (step[u] = "open" /\ step[v] = "open")
      BY <2>1 DEF Busy
    <3> QED BY <3>1 DEF Overlap
  <2>2. ASSUME NEW x \in Writers \ {w}, Busy(w)', Busy(x)', dir'[x] = dir'[w]
        PROVE  dir[w] \in shared'
    <3>1. Busy(x) /\ dir[x] = dir[w]
      BY <2>2 DEF Busy
    <3>2. dir[w] \in Noted(w)
      BY <3>1 DEF Noted
    <3>3. CASE Busy(w)
      BY <3>2, <3>3, NotedBefore
    <3> QED BY <2>2, <3>2, <3>3
  <2>3. CASE u = w \/ v = w
    BY <2>2, <2>3
  <2> QED BY <2>1, <2>2, <2>3
<1>2. FilesSound'
  <2>1. \A d \in DOMAIN dirs' : Explained(d)'
    <3> SUFFICES ASSUME NEW d \in DOMAIN dirs PROVE Explained(d)'
      OBVIOUS
    <3>1. Explained(d)
      BY DEF FilesSound
    <3> QED BY <3>1 DEF Explained, Holds
  <2>2. \A d \in registry' : dirs'[d] # Absent
    BY DEF FilesSound
  <2>3. \A v \in Writers : /\ (Busy(v) \/ step[v] = "register")' => dirs'[dir'[v]] # Absent
                           /\ Holds(v)' /\ dir'[v] \notin shared' => dirs'[dir'[v]] = Torn
    BY DEF FilesSound, Busy, Holds
  <2> QED BY <2>1, <2>2, <2>3 DEF FilesSound
<1>3. KeptInv'
  <2>1. \A d \in DOMAIN dirs' : d \notin shared' /\ Readable(d)' =>
                                  Kept(d)' \subseteq dirs'[d].logged
    BY DEF KeptInv, Readable
  <2>2. ASSUME NEW v \in Writers, dir'[v] \notin shared'
        PROVE  /\ step'[v] \in {"change", "truncate", "write"} =>
                    Kept(dir[v])' \subseteq memo'[v].logged
               /\ step'[v] \in {"open", "close"} => Kept(dir[v])' = {}
               /\ step'[v] = "open" => dirs'[dir'[v]] = Absent
    <3>1. Kept(dir[v])' \subseteq Kept(dir'[v])
      <4>1. PICK d : d = dir'[v]
        OBVIOUS
      <4>2. Kept(d)' \subseteq Kept(d)
        OBVIOUS
      <4> QED BY <4>1, <4>2 DEF Kept
    <3>2. CASE v # w
      BY <2>2, <3>1, <3>2 DEF KeptInv
    <3>3. CASE v = w
      BY <2>2, <3>1, <3>3 DEF Busy, Holds
    <3> QED BY <3>2, <3>3
  <2> QED BY <2>1, <2>2, Zenon DEF KeptInv
<1> QED BY <1>1, <1>2, <1>3

\* A step of one writer that opens or fills the file of its directory.
LEMMA FileWritten ==
  ASSUME LogTypeOK, SharedInv, NEW w \in Writers, Busy(w) \/ step[w] = "open",
         UNCHANGED <<dir, memo, registry, cut>>, shared \subseteq shared',
         Noted(w) \subseteq shared',
         \A v \in Writers \ {w} : step'[v] = step[v],
         NEW m, dirs' = [dirs EXCEPT ![dir[w]] = m], dir[w] \in DOMAIN dirs, m # Absent,
         m = Torn <=> Holds(w)', m = Mixed => dir[w] \in shared',
         step'[w] \notin {"open", "change", "truncate"},
         \A d : d # dir[w] => Kept(d)' \subseteq Kept(d),
         dir[w] \notin shared' =>
           /\ m \notin {Torn, Mixed} => Kept(dir[w])' \subseteq m.logged
           /\ step'[w] = "write" => Kept(dir[w])' \subseteq memo[w].logged
           /\ step'[w] = "close" => Kept(dir[w])' = {},
         PostSound'
  PROVE  SharedInv'
<1> USE DEF SharedInv
<1>0. \A v \in Writers \ {w} : dir[v] = dir[w] /\ (Busy(v) \/ step[v] = "open") =>
                               dir[w] \in shared'
  BY Others
<1>d. /\ dirs'[dir[w]] = m /\ DOMAIN dirs' = DOMAIN dirs
      /\ \A d \in DOMAIN dirs \ {dir[w]} : dirs'[d] = dirs[d]
  OBVIOUS
<1>1. Overlap'
  <2> SUFFICES ASSUME NEW u \in Writers, NEW v \in Writers \ {u}, dir[u] = dir[v],
                      \/ Busy(u)' /\ Busy(v)'
                      \/ step'[u] = "open" /\ step'[v] = "open"
               PROVE  dir[u] \in shared'
    BY DEF Overlap
  <2>1. CASE u # w /\ v # w
    <3>1. (Busy(u) /\ Busy(v)) \/ (step[u] = "open" /\ step[v] = "open")
      BY <2>1 DEF Busy
    <3> QED BY <3>1 DEF Overlap
  <2>2. CASE u = w
    BY <1>0, <2>2 DEF Busy
  <2>3. CASE v = w
    BY <1>0, <2>3 DEF Busy
  <2> QED BY <2>1, <2>2, <2>3
<1>2. FilesSound'
  <2>1. \A d \in DOMAIN dirs' : Explained(d)'
    <3> SUFFICES ASSUME NEW d \in DOMAIN dirs PROVE Explained(d)'
      BY <1>d
    <3>1. Explained(d)
      BY DEF FilesSound
    <3>2. CASE d = dir[w]
      BY <1>d, <3>2 DEF Explained
    <3>3. CASE d # dir[w]
      BY <1>d, <3>1, <3>3 DEF Explained, Holds
    <3> QED BY <3>2, <3>3
  <2>2. \A d \in registry' : dirs'[d] # Absent
    BY <1>d DEF FilesSound
  <2>3. ASSUME NEW v \in Writers
        PROVE  /\ (Busy(v) \/ step[v] = "register")' => dirs'[dir'[v]] # Absent
               /\ Holds(v)' /\ dir'[v] \notin shared' => dirs'[dir'[v]] = Torn
    <3>1. CASE v = w
      BY <1>d, <3>1
    <3>2. CASE v # w /\ dir[v] = dir[w]
      BY <1>0, <1>d, <3>2 DEF Busy, Holds
    <3>3. CASE v # w /\ dir[v] # dir[w]
      BY <1>d, <3>3 DEF FilesSound, Busy, Holds
    <3> QED BY <3>1, <3>2, <3>3
  <2> QED BY <2>1, <2>2, <2>3 DEF FilesSound
<1>3. KeptInv'
  <2>1. ASSUME NEW d \in DOMAIN dirs, d \notin shared', Readable(d)'
        PROVE  Kept(d)' \subseteq dirs'[d].logged
    <3>1. CASE d = dir[w]
      BY <1>d, <2>1, <3>1 DEF Readable
    <3>2. CASE d # dir[w]
      BY <1>d, <2>1, <3>2 DEF KeptInv, Readable
    <3> QED BY <3>1, <3>2
  <2>2. ASSUME NEW v \in Writers, dir[v] \notin shared'
        PROVE  /\ step'[v] \in {"change", "truncate", "write"} =>
                    Kept(dir[v])' \subseteq memo'[v].logged
               /\ step'[v] \in {"open", "close"} => Kept(dir[v])' = {}
               /\ step'[v] = "open" => dirs'[dir'[v]] = Absent
    <3>1. CASE v = w
      BY <2>2, <3>1
    <3>2. CASE v # w /\ dir[v] = dir[w]
      BY <1>0, <2>2, <3>2 DEF Busy
    <3>3. CASE v # w /\ dir[v] # dir[w]
      <4>1. Kept(dir[v])' \subseteq Kept(dir[v])
        <5>1. PICK d : d = dir[v]
          OBVIOUS
        <5>2. Kept(d)' \subseteq Kept(d)
          BY <3>3, <5>1
        <5> QED BY <5>1, <5>2 DEF Kept
      <4> QED BY <1>d, <2>2, <3>3, <4>1 DEF KeptInv
    <3> QED BY <3>1, <3>2, <3>3
  <2> QED BY <1>d, <2>1, <2>2, Zenon DEF KeptInv
<1> QED BY <1>1, <1>2, <1>3

\* postprocess.py while a worker moves.
LEMMA PostLeft ==
  ASSUME LogTypeOK, SharedInv, NEW w \in Clients, shared \subseteq shared',
         step'[Post] = step[Post], dir'[Post] = dir[Post], op'[Post] = op[Post],
         memo'[Post] = memo[Post],
         step[Post] = "change" /\ dir[Post] \notin shared' => dirs'[dir[Post]] = dirs[dir[Post]]
  PROVE  PostSound'
BY DEF SharedInv, PostSound

\* Every step notes what is shared, and keeps the rest.
LEMMA NextShared ==
  ASSUME StoreInv, LogInv, SharedInv, [NextLog]_<<vars, logVars>>
  PROVE  SharedInv'
<1> USE DEF LogInv
<1>0. Post \in Writers /\ Clients \subseteq Writers /\ Post \notin Clients
  BY PostAssumption DEF Writers
\* A worker before its answers has nothing to do with the log.
<1>1. ASSUME NEW c \in Clients, Run(c) PROVE SharedInv'
  BY <1>1 DEF Run, logVars, SharedInv, Overlap, FilesSound, Explained, KeptInv, Kept, PostSound,
              Readable, Active, Busy, Holds
\* The directory of a new run is empty, and nobody else's; an old one is
\* noted.
<1>2. ASSUME NEW c \in Clients, SaveArrays(c) PROVE SharedInv'
  <2>1. /\ UNCHANGED <<registry, op, memo, todo, visited, cut>>
        /\ step[c] = "none" /\ step' = [step EXCEPT ![c] = "open"]
        /\ c \in Writers /\ c # Post
    BY <1>0, <1>2 DEF SaveArrays, Step
  <2>2. /\ step'[c] = "open" /\ step'[Post] = step[Post]
        /\ \A v \in Writers \ {c} : step'[v] = step[v]
    BY <1>0, <2>1 DEF LogTypeOK
  <2>3. CASE /\ dirs' = Append(dirs, Absent) /\ dir' = [dir EXCEPT ![c] = Len(dirs) + 1]
             /\ shared' = shared
    <3>1. PICK n : n = Len(dirs) + 1
      OBVIOUS
    <3>2. /\ n \notin DOMAIN dirs /\ DOMAIN dirs' = DOMAIN dirs \cup {n}
          /\ dirs'[n] = Absent /\ \A d \in DOMAIN dirs : dirs'[d] = dirs[d]
      BY <1>2, <2>3, <3>1, Appended DEF SaveArrays, vars
    <3>3. dir'[c] = n /\ \A v \in Writers \ {c} : dir'[v] = dir[v]
      BY <2>1, <2>3, <3>1 DEF LogTypeOK
    <3>4. \A v \in Writers : Active(v) => dir[v] \in DOMAIN dirs
      BY DEF RecordsSound
    <3>5. \A v \in Writers : Busy(v) \/ step[v] \in {"open", "register"} \/ Holds(v) => Active(v)
      BY DEF Busy, Holds, Active
    <3>6. Overlap'
      <4> SUFFICES ASSUME NEW u \in Writers, NEW v \in Writers \ {u}, dir'[u] = dir'[v],
                          \/ Busy(u)' /\ Busy(v)'
                          \/ step'[u] = "open" /\ step'[v] = "open"
                   PROVE  dir'[u] \in shared
        BY <2>3 DEF Overlap
      <4>1. CASE u # c /\ v # c
        <5>1. (Busy(u) /\ Busy(v)) \/ (step[u] = "open" /\ step[v] = "open")
          BY <2>2, <4>1 DEF Busy
        <5> QED BY <3>3, <4>1, <5>1 DEF SharedInv, Overlap
      <4>2. CASE u = c \/ v = c
        <5>1. PICK x \in Writers \ {c} : step[x] = "open" /\ dir[x] = n
          BY <2>2, <3>3, <4>2 DEF Busy
        <5> QED BY <3>2, <3>4, <3>5, <5>1
      <4> QED BY <4>1, <4>2
    <3>7. FilesSound'
      <4>1. \A d \in DOMAIN dirs' : Explained(d)'
        <5> SUFFICES ASSUME NEW d \in DOMAIN dirs' PROVE Explained(d)'
          OBVIOUS
        <5>1. CASE d = n
          BY <3>2, <5>1, MetaReadable DEF Explained
        <5>2. CASE d \in DOMAIN dirs
          <6>1. Explained(d)
            BY <5>2 DEF SharedInv, FilesSound
          <6>2. \A v \in Writers : Holds(v) => Holds(v)' /\ dir'[v] = dir[v]
            BY <2>1, <2>2, <3>3 DEF Holds
          <6> QED BY <2>1, <2>3, <3>2, <5>2, <6>1, <6>2 DEF Explained
        <5> QED BY <3>2, <5>1, <5>2
      <4>2. \A d \in registry' : dirs'[d] # Absent
        BY <2>1, <3>2 DEF SharedInv, FilesSound, LogTypeOK
      <4>3. ASSUME NEW v \in Writers
            PROVE  /\ (Busy(v) \/ step[v] = "register")' => dirs'[dir'[v]] # Absent
                   /\ Holds(v)' /\ dir'[v] \notin shared' => dirs'[dir'[v]] = Torn
        <5>1. CASE v = c
          BY <2>2, <5>1 DEF Busy, Holds
        <5>2. CASE v # c
          BY <2>2, <2>3, <3>2, <3>3, <3>4, <3>5, <5>2 DEF SharedInv, FilesSound, Busy, Holds
        <5> QED BY <5>1, <5>2
      <4> QED BY <4>1, <4>2, <4>3 DEF FilesSound
    <3>8. \A d \in DOMAIN dirs' : Kept(d)' = Kept(d)
      BY <2>1, <2>2, <3>3, <1>0 DEF Kept, Active
    <3>9. Kept(n) = {}
      BY <1>0, <3>2, <3>4 DEF Kept, LogTypeOK
    <3>10. KeptInv'
      <4>1. \A d \in DOMAIN dirs' : d \notin shared' /\ Readable(d)' =>
                                      Kept(d)' \subseteq dirs'[d].logged
        BY <2>3, <3>2, <3>8 DEF SharedInv, KeptInv, Readable
      <4>2. ASSUME NEW v \in Writers, dir'[v] \notin shared'
            PROVE  /\ step'[v] \in {"change", "truncate", "write"} =>
                        Kept(dir[v])' \subseteq memo'[v].logged
                   /\ step'[v] \in {"open", "close"} => Kept(dir[v])' = {}
                   /\ step'[v] = "open" => dirs'[dir'[v]] = Absent
        <5>0. \A d : d = dir'[v] => Kept(dir[v])' = Kept(d)'
          BY DEF Kept
        <5>1. CASE v = c
          <6>1. Kept(n)' = {}
            BY <3>2, <3>8, <3>9
          <6>2. Kept(dir[v])' = {}
            BY <3>3, <5>0, <5>1, <6>1
          <6> QED BY <2>2, <3>2, <3>3, <5>1, <6>2
        <5>2. CASE v # c /\ Active(v)
          <6>1. dir'[v] = dir[v] /\ dir[v] \in DOMAIN dirs /\ dir[v] \in DOMAIN dirs'
            BY <3>2, <3>3, <3>4, <5>2
          <6>2. Kept(dir[v])' = Kept(dir[v])
            BY <3>8, <5>0, <6>1
          <6>3. /\ step'[v] = step[v] /\ memo'[v] = memo[v] /\ dir[v] \notin shared
                /\ dirs'[dir'[v]] = dirs[dir[v]]
            BY <2>1, <2>2, <2>3, <3>2, <4>2, <5>2, <6>1
          <6>4. /\ step[v] \in {"change", "truncate", "write"} => Kept(dir[v]) \subseteq memo[v].logged
                /\ step[v] \in {"open", "close"} => Kept(dir[v]) = {}
                /\ step[v] = "open" => dirs[dir[v]] = Absent
            BY <6>3 DEF SharedInv, KeptInv
          <6> QED BY <6>2, <6>3, <6>4
        <5>3. CASE v # c /\ ~Active(v)
          BY <2>2, <5>3 DEF Active
        <5> QED BY <5>1, <5>2, <5>3
      <4> QED BY <4>1, <4>2, Zenon DEF KeptInv
    <3>11. PostSound'
      <4>1. /\ memo'[Post] = memo[Post] /\ dir'[Post] = dir[Post] /\ op'[Post] = op[Post]
            /\ step[Post] = "change" => dirs'[dir[Post]] = dirs[dir[Post]]
        BY <1>0, <2>1, <3>2, <3>3, <3>4 DEF Active
      <4> QED BY <2>2, <2>3, <4>1, PostLeft
    <3> QED BY <3>6, <3>7, <3>10, <3>11 DEF SharedInv
  <2>4. ASSUME NEW d \in DOMAIN dirs, dirs' = dirs, dir' = [dir EXCEPT ![c] = d],
               shared' = shared \cup {d}
        PROVE  SharedInv'
    <3>3. dir'[c] = d /\ \A v \in Writers \ {c} : dir'[v] = dir[v]
      BY <2>1, <2>4 DEF LogTypeOK
    <3>6. Overlap'
      <4> SUFFICES ASSUME NEW u \in Writers, NEW v \in Writers \ {u}, dir'[u] = dir'[v],
                          \/ Busy(u)' /\ Busy(v)'
                          \/ step'[u] = "open" /\ step'[v] = "open"
                   PROVE  dir'[u] \in shared'
        BY DEF Overlap
      <4>1. CASE u # c /\ v # c
        <5>1. (Busy(u) /\ Busy(v)) \/ (step[u] = "open" /\ step[v] = "open")
          BY <2>2, <4>1 DEF Busy
        <5> QED BY <2>4, <3>3, <4>1, <5>1 DEF SharedInv, Overlap
      <4> QED BY <2>4, <3>3, <4>1
    <3>7. FilesSound'
      <4>1. ASSUME NEW e \in DOMAIN dirs' PROVE Explained(e)'
        <5>1. Explained(e)
          BY <2>4, <4>1 DEF SharedInv, FilesSound
        <5>2. \A v \in Writers : Holds(v) => Holds(v)' /\ dir'[v] = dir[v]
          BY <2>1, <2>2, <3>3 DEF Holds
        <5> QED BY <2>1, <2>4, <5>1, <5>2 DEF Explained
      <4>2. \A e \in registry' : dirs'[e] # Absent
        BY <2>1, <2>4 DEF SharedInv, FilesSound
      <4>3. ASSUME NEW v \in Writers
            PROVE  /\ (Busy(v) \/ step[v] = "register")' => dirs'[dir'[v]] # Absent
                   /\ Holds(v)' /\ dir'[v] \notin shared' => dirs'[dir'[v]] = Torn
        <5>1. CASE v = c
          BY <2>2, <5>1 DEF Busy, Holds
        <5>2. CASE v # c
          BY <2>2, <2>4, <3>3, <5>2 DEF SharedInv, FilesSound, Busy, Holds
        <5> QED BY <5>1, <5>2
      <4> QED BY <4>1, <4>2, <4>3 DEF FilesSound
    <3>8. \A e : Kept(e)' = Kept(e)
      BY <2>1, <2>2, <3>3, <1>0 DEF Kept, Active
    <3>10. KeptInv'
      <4>1. \A e \in DOMAIN dirs' : e \notin shared' /\ Readable(e)' =>
                                      Kept(e)' \subseteq dirs'[e].logged
        BY <2>4, <3>8 DEF SharedInv, KeptInv, Readable
      <4>2. ASSUME NEW v \in Writers, dir'[v] \notin shared'
            PROVE  /\ step'[v] \in {"change", "truncate", "write"} =>
                        Kept(dir[v])' \subseteq memo'[v].logged
                   /\ step'[v] \in {"open", "close"} => Kept(dir[v])' = {}
                   /\ step'[v] = "open" => dirs'[dir'[v]] = Absent
        <5>1. v # c /\ dir'[v] = dir[v]
          BY <2>4, <3>3, <4>2
        <5>2. Kept(dir[v])' = Kept(dir[v])
          BY <2>1, <2>2, <3>3, <1>0, <5>1 DEF Kept, Active
        <5> QED BY <2>1, <2>2, <2>4, <4>2, <5>1, <5>2 DEF SharedInv, KeptInv
      <4> QED BY <4>1, <4>2, Zenon DEF KeptInv
    <3>11. PostSound'
      <4>1. /\ memo'[Post] = memo[Post] /\ dir'[Post] = dir[Post] /\ op'[Post] = op[Post]
            /\ dirs'[dir[Post]] = dirs[dir[Post]]
        BY <1>0, <2>1, <2>4, <3>3
      <4> QED BY <2>2, <2>4, <4>1, PostLeft
    <3> QED BY <3>6, <3>7, <3>10, <3>11 DEF SharedInv
  <2> QED BY <1>2, <2>3, <2>4 DEF SaveArrays
<1>3. ASSUME NEW c \in Clients, OpenMetadata(c) PROVE SharedInv'
  <2>1. /\ UNCHANGED <<registry, dir, op, memo, todo, visited, cut>> /\ step[c] = "open"
        /\ step' = [step EXCEPT ![c] = "close"] /\ shared' = Noted(c)
        /\ dirs' = [dirs EXCEPT ![dir[c]] = Torn] /\ c \in Writers /\ c # Post
    BY <1>0, <1>3 DEF OpenMetadata, MetadataFirst, Step
  <2>2. /\ step'[c] = "close" /\ \A v \in Writers \ {c} : step'[v] = step[v]
        /\ step'[Post] = step[Post] /\ dir[c] \in DOMAIN dirs /\ shared \subseteq shared'
    BY <1>0, <2>1 DEF LogTypeOK, RecordsSound, Active, Noted
  <2>3. \A d : Kept(d)' \subseteq Kept(d)
    BY <2>1, <2>2, KeptShrinks DEF Active
  <2>4. dir[c] \notin shared' => Kept(dir[c])' = {}
    <3>1. dir[c] \notin shared' => Kept(dir[c]) = {}
      BY <2>1, <2>2 DEF SharedInv, KeptInv
    <3>2. Kept(dir[c])' \subseteq Kept(dir[c])
      BY <2>1, <2>2 DEF Kept, Active
    <3> QED BY <3>1, <3>2
  <2>5. PostSound'
    <3>1. step[Post] = "change" /\ dir[Post] \notin shared' => dir[Post] # dir[c]
      BY <1>0, <2>1, Others DEF Busy
    <3>2. step[Post] = "change" /\ dir[Post] \notin shared' => dirs'[dir[Post]] = dirs[dir[Post]]
      BY <2>1, <3>1
    <3> QED BY <2>1, <2>2, <3>2, PostLeft
  <2>6. Holds(c)' /\ Torn # Absent /\ Torn # Mixed
    BY <2>2, MetaReadable DEF Holds
  <2>7. Busy(c) \/ step[c] = "open"
    BY <2>1
  <2> QED BY <2>1, <2>2, <2>3, <2>4, <2>5, <2>6, <2>7, FileWritten
<1>4. ASSUME NEW c \in Clients, CloseMetadata(c) PROVE SharedInv'
  <2>1. PICK n : n = Metadata(c)
    OBVIOUS
  <2>2. PICK m \in {n} \cup IF dirs[dir[c]] = Torn THEN {} ELSE {Mixed} :
          dirs' = [dirs EXCEPT ![dir[c]] = m]
    BY <1>4, <2>1 DEF CloseMetadata, Filled
  <2>3. n \in Meta /\ n.logged = {}
    <3>1. n \in Meta
      BY <1>4, <2>1, FirstMetadata DEF CloseMetadata
    <3>2. n.logged = {}
      BY <2>1 DEF Metadata
    <3> QED BY <3>1, <3>2
  <2>4. /\ UNCHANGED <<registry, dir, op, memo, todo, visited, cut, shared>> /\ step[c] = "close"
        /\ step' = [step EXCEPT ![c] = "register"] /\ c \in Writers /\ c # Post
    BY <1>0, <1>4 DEF CloseMetadata, Step
  <2>5. /\ step'[c] = "register" /\ \A v \in Writers \ {c} : step'[v] = step[v]
        /\ step'[Post] = step[Post] /\ dir[c] \in DOMAIN dirs
        /\ Busy(c) /\ Holds(c) /\ ~Holds(c)'
    BY <1>0, <2>4 DEF LogTypeOK, RecordsSound, Active, Busy, Holds
  <2>6. Noted(c) = shared
    BY <2>4, <2>5, NotedBefore
  <2>7. \A d : Kept(d)' \subseteq Kept(d)
    BY <2>4, <2>5, KeptShrinks DEF Active
  <2>8. m # Absent /\ m # Torn /\ (m = Mixed => dir[c] \in shared)
    <3>1. m \in {n, Mixed} /\ (m = Mixed => dirs[dir[c]] # Torn)
      BY <2>2, <2>3, MetaReadable
    <3>2. dirs[dir[c]] # Torn => dir[c] \in shared
      BY <2>4, <2>5 DEF SharedInv, FilesSound
    <3> QED BY <2>3, <3>1, <3>2, MetaReadable
  <2>9. dir[c] \notin shared => Kept(dir[c])' = {}
    <3>1. dir[c] \notin shared => Kept(dir[c]) = {}
      BY <2>4 DEF SharedInv, KeptInv
    <3>2. Kept(dir[c])' \subseteq Kept(dir[c])
      BY <2>4, <2>5 DEF Kept, Active
    <3> QED BY <3>1, <3>2
  <2>10. PostSound'
    <3>1. step[Post] = "change" /\ dir[Post] \notin shared' => dir[Post] # dir[c]
      BY <1>0, <2>4, <2>5, <2>6, Others DEF Busy
    <3>2. step[Post] = "change" /\ dir[Post] \notin shared' => dirs'[dir[Post]] = dirs[dir[Post]]
      BY <2>2, <3>1
    <3> QED BY <2>4, <2>5, <3>2, PostLeft
  <2> QED BY <2>2, <2>3, <2>4, <2>5, <2>6, <2>7, <2>8, <2>9, <2>10, FileWritten
\* A run that is registered has metadata.
<1>5. ASSUME NEW c \in Clients, _update_master_registry(c) PROVE SharedInv'
  <2>1. /\ UNCHANGED <<dirs, dir, memo, todo, visited, cut, shared>> /\ step[c] = "register"
        /\ step' = [step EXCEPT ![c] = "read"] /\ op' = [op EXCEPT ![c] = "recall"]
        /\ registry' = registry \cup {dir[c]} /\ c \in Writers /\ c # Post
    BY <1>0, <1>5 DEF _update_master_registry, Step
  <2>2. /\ step'[c] = "read" /\ \A v \in Writers \ {c} : step'[v] = step[v]
        /\ step'[Post] = step[Post] /\ op'[Post] = op[Post]
    BY <1>0, <2>1 DEF LogTypeOK
  <2>3. \A d : Kept(d)' \subseteq Kept(d)
    BY <2>1, <2>2, KeptShrinks DEF Active
  <2>4. \A d \in registry' : d \in registry \/ dirs[d] # Absent
    BY <2>1 DEF SharedInv, FilesSound
  <2>5. ~Holds(c) /\ ~Holds(c)' /\ ~Busy(c)'
    BY <2>1, <2>2 DEF Holds, Busy
  <2>6. PostSound'
    BY <2>1, <2>2, PostLeft
  <2> QED BY <2>1, <2>2, <2>3, <2>4, <2>5, <2>6, FilesAlone
\* Who reads while another is at work is noted.
<1>6. ASSUME NEW w \in Writers, Read(w) PROVE SharedInv'
  <2>1. /\ UNCHANGED <<dirs, registry, dir, op, visited, cut>> /\ step[w] = "read"
        /\ dir[w] \in DOMAIN dirs
    BY <1>6 DEF Read, RecordsSound, Active
  <2>2. CASE Readable(dir[w])
    <3>1. /\ memo' = [memo EXCEPT ![w] = dirs[dir[w]]] /\ shared' = Noted(w)
          /\ step' = [step EXCEPT ![w] = "change"]
      BY <1>6, <2>2 DEF Read, Step
    <3>2. /\ step'[w] = "change" /\ memo'[w] = dirs[dir[w]] /\ shared \subseteq shared'
          /\ \A v \in Writers \ {w} : step'[v] = step[v] /\ memo'[v] = memo[v]
      BY <3>1 DEF LogTypeOK, Noted
    <3>3. \A d : Kept(d)' \subseteq Kept(d)
      BY <1>0, <2>1, <3>2, KeptShrinks DEF Active
    <3>4. dirs[dir[w]] # Absent
      BY <2>2 DEF Readable
    <3>5. dir[w] \notin shared' => Kept(dir[w]) \subseteq memo'[w].logged
      BY <2>1, <2>2, <3>2 DEF SharedInv, KeptInv
    <3>6. ~Holds(w) /\ ~Holds(w)'
      BY <2>1, <3>2 DEF Holds
    <3>7. PostSound'
      <4>1. CASE w = Post
        BY <2>1, <3>2, <4>1 DEF PostSound
      <4>2. CASE w # Post
        <5>1. w \in Clients /\ step'[Post] = step[Post] /\ memo'[Post] = memo[Post]
          BY <1>0, <3>2, <4>2 DEF Writers
        <5> QED BY <2>1, <3>2, <5>1, PostLeft
      <4> QED BY <4>1, <4>2
    <3> QED BY <2>1, <3>1, <3>2, <3>3, <3>4, <3>5, <3>6, <3>7, FilesAlone
  <2>3. CASE ~Readable(dir[w])
    <3>1. PICK l \in {"none", "end"} :
            UNCHANGED <<memo, shared>> /\ step' = [step EXCEPT ![w] = l]
      BY <1>6, <2>3 DEF Read, Step, Stopped
    <3>2. /\ step'[w] = l /\ \A v \in Writers \ {w} : step'[v] = step[v]
      BY <3>1 DEF LogTypeOK
    <3>3. \A d : Kept(d)' \subseteq Kept(d)
      BY <1>0, <2>1, <3>2, KeptShrinks DEF Active
    <3>4. ~Holds(w) /\ ~Holds(w)' /\ ~Busy(w)'
      BY <2>1, <3>2 DEF Holds, Busy
    <3>5. PostSound'
      <4>1. CASE w = Post
        BY <3>2, <4>1 DEF PostSound
      <4>2. CASE w # Post
        <5>1. w \in Clients /\ step'[Post] = step[Post]
          BY <1>0, <3>2, <4>2 DEF Writers
        <5> QED BY <2>1, <3>1, <5>1, PostLeft
      <4> QED BY <4>1, <4>2
    <3> QED BY <2>1, <3>1, <3>2, <3>3, <3>4, <3>5, FilesAlone
  <2> QED BY <2>2, <2>3
\* Each operation adds what it stands for.
<1>7. ASSUME NEW w \in Writers, Change(w) PROVE SharedInv'
  <2> DEFINE added == IF op[w] = "files" /\ SavedFor(memo[w].params) = {} THEN {} ELSE {op[w]}
             s == memo[w].logged \cup added
  <2>1. /\ UNCHANGED <<dirs, registry, dir, op, todo, visited, cut, shared>> /\ step[w] = "change"
        /\ step' = [step EXCEPT ![w] = "truncate"] /\ op[w] # "metrics"
        /\ memo' = [memo EXCEPT ![w] = [memo[w] EXCEPT !.logged = s]]
        /\ memo[w] \in Meta /\ Sound(memo[w])
    BY <1>7 DEF Change, Step, RecordsSound
  <2>2. added = {op[w]}
    <3>1. SavedFor(memo[w].params) # {}
      BY <2>1, FilesFound
    <3> QED BY <3>1
  <2>3. memo[w].logged \subseteq s /\ op[w] \in s
    BY <2>2
  <2> HIDE DEF s, added
  <2>4. /\ step'[w] = "truncate" /\ \A v \in Writers \ {w} : step'[v] = step[v] /\ memo'[v] = memo[v]
        /\ memo'[w].logged = s
    <3>1. [memo[w] EXCEPT !.logged = s].logged = s
      BY <2>1 DEF Meta
    <3>2. memo'[w] = [memo[w] EXCEPT !.logged = s]
      BY <2>1 DEF LogTypeOK
    <3> QED BY <2>1, <3>1, <3>2 DEF LogTypeOK
  <2>5. \A d : Kept(d)' \subseteq Kept(d)
    BY <1>0, <2>1, <2>4, KeptShrinks DEF Active
  <2>6. dir[w] \notin shared' => Kept(dir[w]) \subseteq memo'[w].logged
    BY <2>1, <2>3, <2>4 DEF SharedInv, KeptInv
  <2>7. ~Holds(w) /\ ~Holds(w)' /\ Busy(w) /\ dirs[dir[w]] # Absent
    BY <2>1, <2>4 DEF Holds, Busy, SharedInv, FilesSound
  <2>8. PostSound'
    <3>1. CASE w = Post
      BY <2>1, <2>3, <2>4, <3>1 DEF PostSound
    <3>2. CASE w # Post
      <4>1. w \in Clients /\ step'[Post] = step[Post] /\ memo'[Post] = memo[Post]
        BY <1>0, <2>4, <3>2 DEF Writers
      <4> QED BY <2>1, <4>1, PostLeft
    <3> QED BY <3>1, <3>2
  <2> QED BY <2>1, <2>4, <2>5, <2>6, <2>7, <2>8, FilesAlone
\* The metrics it takes over are not absent.
<1>8. ASSUME CopyMetrics PROVE SharedInv'
  <2>1. /\ UNCHANGED <<dirs, registry, dir, op, todo, visited, cut, shared>> /\ step[Post] = "change"
        /\ step' = [step EXCEPT ![Post] = "truncate"] /\ op[Post] = "metrics"
        /\ memo[Post] \in Meta /\ Sound(memo[Post]) /\ dir[Post] \in DOMAIN dirs
    BY <1>0, <1>8 DEF CopyMetrics, Searching, Step, RecordsSound, Active
  <2>2. PICK e \in SameBuild(dir[Post]) :
          memo' = [memo EXCEPT ![Post] = [memo[Post] EXCEPT !.build_time = dirs[e].build_time]]
    BY <1>8 DEF CopyMetrics
  <2>3. dirs[e].build_time = memo[Post].params /\ memo[Post].params \in Params
    BY <2>1, <2>2 DEF SameBuild, RecordsSound, Sound, Meta
  <2>4. PICK m : m = [memo[Post] EXCEPT !.build_time = memo[Post].params]
    OBVIOUS
  <2>5. m.logged = memo[Post].logged /\ m.build_time # "absent"
    BY <2>1, <2>3, <2>4, ParamsAssumption DEF Meta
  <2>6. memo' = [memo EXCEPT ![Post] = m]
    BY <2>2, <2>3, <2>4
  <2>7. /\ step'[Post] = "truncate" /\ memo'[Post] = m
        /\ \A v \in Writers \ {Post} : step'[v] = step[v] /\ memo'[v] = memo[v]
    BY <1>0, <2>1, <2>6 DEF LogTypeOK
  <2>8. \A d : Kept(d)' \subseteq Kept(d)
    BY <2>1, <2>7, KeptShrinks DEF Active
  <2>9. dir[Post] \notin shared' => Kept(dir[Post]) \subseteq memo'[Post].logged
    BY <1>0, <2>1, <2>5, <2>7 DEF SharedInv, KeptInv
  <2>10. ~Holds(Post) /\ ~Holds(Post)' /\ Busy(Post) /\ dirs[dir[Post]] # Absent
    BY <1>0, <2>1, <2>7 DEF Holds, Busy, SharedInv, FilesSound
  <2>11. PostSound'
    BY <2>1, <2>5, <2>7 DEF PostSound
  <2> QED BY <1>0, <2>1, <2>7, <2>8, <2>9, <2>10, <2>11, FilesAlone
\* A directory is visited when all that it has for good is there.
<1>9. ASSUME NoMetrics PROVE SharedInv'
  <2>1. /\ UNCHANGED <<dirs, registry, dir, memo, todo, cut, shared>> /\ UNCHANGED op
        /\ step[Post] = "change" /\ op[Post] = "metrics"
        /\ step' = [step EXCEPT ![Post] = "next"] /\ visited' = visited \cup {dir[Post]}
    BY <1>9 DEF NoMetrics, Searching, Done, Step
  <2>2. step'[Post] = "next" /\ \A v \in Writers \ {Post} : step'[v] = step[v]
    BY <1>0, <2>1 DEF LogTypeOK
  <2>3. \A d : Kept(d)' \subseteq Kept(d)
    BY <2>1, <2>2 DEF Kept, Active
  <2>4. ~Holds(Post) /\ ~Holds(Post)' /\ ~Busy(Post)'
    BY <2>1, <2>2 DEF Holds, Busy
  <2>5. PostSound'
    BY <2>2 DEF PostSound
  <2> QED BY <1>0, <2>1, <2>2, <2>3, <2>4, <2>5, FilesAlone
<1>10. ASSUME NEW w \in Writers, Truncate(w) PROVE SharedInv'
  <2>1. /\ UNCHANGED <<registry, dir, op, memo, todo, visited, cut, shared>> /\ step[w] = "truncate"
        /\ step' = [step EXCEPT ![w] = "write"] /\ dirs' = [dirs EXCEPT ![dir[w]] = Torn]
    BY <1>10 DEF Truncate, Step
  <2>2. /\ step'[w] = "write" /\ \A v \in Writers \ {w} : step'[v] = step[v]
        /\ dir[w] \in DOMAIN dirs /\ Busy(w) /\ Holds(w)'
    BY <2>1 DEF LogTypeOK, RecordsSound, Active, Busy, Holds
  <2>3. Noted(w) = shared
    BY <2>2, NotedBefore
  <2>4. \A d : Kept(d)' \subseteq Kept(d)
    BY <1>0, <2>1, <2>2, KeptShrinks DEF Active
  <2>5. dir[w] \notin shared => Kept(dir[w])' \subseteq memo[w].logged
    <3>1. dir[w] \notin shared => Kept(dir[w]) \subseteq memo[w].logged
      BY <2>1 DEF SharedInv, KeptInv
    <3>2. Kept(dir[w])' \subseteq Kept(dir[w])
      BY <1>0, <2>1, <2>2 DEF Kept, Active
    <3> QED BY <3>1, <3>2
  <2>6. PostSound'
    <3>1. CASE w = Post
      BY <2>1, <2>2, <3>1 DEF SharedInv, PostSound
    <3>2. CASE w # Post
      <4>1. w \in Clients /\ step'[Post] = step[Post]
        BY <1>0, <2>2, <3>2 DEF Writers
      <4>2. step[Post] = "change" /\ dir[Post] \notin shared' => dir[Post] # dir[w]
        BY <1>0, <2>1, <2>2, <2>3, <3>2, Others DEF Busy
      <4>3. step[Post] = "change" /\ dir[Post] \notin shared' => dirs'[dir[Post]] = dirs[dir[Post]]
        BY <2>1, <4>2
      <4> QED BY <2>1, <4>1, <4>3, PostLeft
    <3> QED BY <3>1, <3>2
  <2> QED BY <2>1, <2>2, <2>3, <2>4, <2>5, <2>6, MetaReadable, FileWritten
\* Nobody else has filled the file meanwhile, or that is noted.
<1>11. ASSUME NEW w \in Writers, Write(w) PROVE SharedInv'
  <2>1. /\ UNCHANGED <<registry, dir, memo, todo, cut, shared>> /\ step[w] = "write" /\ Done(w)
        /\ memo[w] \in Meta /\ dir[w] \in DOMAIN dirs /\ Busy(w) /\ Holds(w)
    BY <1>11 DEF Write, RecordsSound, Active, Busy, Holds
  <2>2. PICK m \in {memo[w]} \cup IF dirs[dir[w]] = Torn THEN {} ELSE {Mixed} :
          dirs' = [dirs EXCEPT ![dir[w]] = m]
    BY <1>11 DEF Write, Filled
  <2>3. PICK l \in {"none", "read", "next"} : step' = [step EXCEPT ![w] = l]
    BY <2>1 DEF Done, Step
  <2>4. step'[w] = l /\ (\A v \in Writers \ {w} : step'[v] = step[v]) /\ ~Holds(w)' /\ ~Busy(w)'
    BY <2>3 DEF LogTypeOK, Holds, Busy
  <2>5. Noted(w) = shared
    BY <2>1, NotedBefore
  <2>6. m # Absent /\ m # Torn /\ (m = Mixed => dir[w] \in shared) /\ (m # Mixed => m = memo[w])
    <3>1. m \in {memo[w], Mixed} /\ (m = Mixed => dirs[dir[w]] # Torn)
      BY <2>1, <2>2, MetaReadable
    <3>2. dirs[dir[w]] # Torn => dir[w] \in shared
      BY <2>1 DEF SharedInv, FilesSound
    <3> QED BY <2>1, <3>1, <3>2, MetaReadable
  <2>7. dir[w] \notin shared => Kept(dir[w]) \subseteq memo[w].logged
    BY <2>1 DEF SharedInv, KeptInv
  <2>8. CASE w # Post
    <3>1. /\ UNCHANGED <<op, visited>> /\ w \in Clients /\ step'[Post] = step[Post]
      BY <1>0, <2>1, <2>4, <2>8, Zenon DEF Done, Writers
    <3>2. \A d : Kept(d)' \subseteq Kept(d)
      BY <2>1, <3>1, KeptShrinks DEF Active
    <3>3. Kept(dir[w])' \subseteq Kept(dir[w])
      BY <2>1, <3>1 DEF Kept, Active
    <3>4. PostSound'
      <4>2. step[Post] = "change" /\ dir[Post] \notin shared' => dir[Post] # dir[w]
        BY <1>0, <2>1, <2>5, <2>8, Others DEF Busy
      <4>3. step[Post] = "change" /\ dir[Post] \notin shared' => dirs'[dir[Post]] = dirs[dir[Post]]
        BY <2>2, <4>2
      <4> QED BY <2>1, <3>1, <4>3, PostLeft
    <3> QED BY <2>1, <2>2, <2>3, <2>4, <2>5, <2>6, <2>7, <3>2, <3>3, <3>4, FileWritten
  <2>9. CASE w = Post
    <3>1. \/ op[Post] = "metrics" /\ step'[Post] = "next" /\ visited' = visited \cup {dir[Post]}
          \/ /\ op[Post] # "metrics" /\ step'[Post] = "read" /\ visited' = visited
             /\ Before(op'[Post]) \subseteq Before(op[Post]) \cup {op[Post]}
      <4>1. CASE op[Post] = "metrics"
        BY <1>0, <2>1, <2>9, <4>1 DEF Done, Step, LogTypeOK
      <4>2. CASE op[Post] # "metrics"
        <5>1. /\ step' = [step EXCEPT ![Post] = "read"] /\ visited' = visited
              /\ \/ op[Post] = "recall" /\ op'[Post] = "latency"
                 \/ op[Post] = "latency" /\ op'[Post] = "files"
                 \/ op[Post] = "files" /\ op'[Post] = "metrics"
          BY <2>1, <2>9, <4>2, NextOp
        <5> QED BY <1>0, <4>2, <5>1 DEF Before, LogTypeOK
      <4> QED BY <4>1, <4>2
    <3>2. \A d : d # dir[Post] => Kept(d)' \subseteq Kept(d)
      BY <2>1, <3>1 DEF Kept
    <3>3. Kept(dir[Post])' \subseteq
            Kept(dir[Post]) \cup IF op[Post] = "metrics" THEN {} ELSE {op[Post]}
      BY <2>1, <2>9, <3>1 DEF Kept, Active
    <3>4. op[Post] # "metrics" => op[Post] \in memo[Post].logged
      BY <2>1, <2>9 DEF SharedInv, PostSound
    <3>5. dir[Post] \notin shared' => Kept(dir[Post])' \subseteq memo[Post].logged
      BY <2>1, <2>7, <2>9, <3>3, <3>4
    <3>6. PostSound'
      BY <2>4, <2>9 DEF PostSound
    <3> QED BY <2>1, <2>2, <2>3, <2>4, <2>5, <2>6, <2>9, <3>2, <3>5, <3>6, FileWritten
  <2> QED BY <2>8, <2>9
<1>12. ASSUME StartPost PROVE SharedInv'
  <2>1. /\ UNCHANGED <<dirs, registry, dir, op, memo, visited, cut, shared>> /\ step[Post] = "none"
        /\ step' = [step EXCEPT ![Post] = "next"]
    BY <1>12 DEF StartPost, Step
  <2>2. step'[Post] = "next" /\ \A v \in Writers \ {Post} : step'[v] = step[v]
    BY <1>0, <2>1 DEF LogTypeOK
  <2>3. \A d : Kept(d)' \subseteq Kept(d)
    BY <2>1, <2>2, KeptShrinks DEF Active
  <2>4. ~Holds(Post) /\ ~Holds(Post)' /\ ~Busy(Post)'
    BY <2>1, <2>2 DEF Holds, Busy
  <2>5. PostSound'
    BY <2>2 DEF PostSound
  <2> QED BY <1>0, <2>1, <2>2, <2>3, <2>4, <2>5, FilesAlone
<1>13. ASSUME NextDir PROVE SharedInv'
  <2>1. /\ UNCHANGED <<dirs, registry, memo, visited, cut, shared>> /\ step[Post] = "next"
        /\ \/ /\ step' = [step EXCEPT ![Post] = "read"] /\ op' = [op EXCEPT ![Post] = "recall"]
              /\ \E d \in todo : dir' = [dir EXCEPT ![Post] = d]
           \/ step' = [step EXCEPT ![Post] = "end"] /\ UNCHANGED <<op, dir>>
    BY <1>13 DEF NextDir, Step
  <2>2. /\ step'[Post] \in {"read", "end"} /\ (step'[Post] = "read" => op'[Post] = "recall")
        /\ \A v \in Writers \ {Post} : step'[v] = step[v] /\ dir'[v] = dir[v]
    BY <1>0, <2>1 DEF LogTypeOK
  <2>3. \A d : Kept(d)' \subseteq Kept(d)
    BY <2>1, <2>2, KeptShrinks DEF Active
  <2>4. ~Holds(Post) /\ ~Holds(Post)' /\ ~Busy(Post)'
    BY <2>1, <2>2 DEF Holds, Busy
  <2>5. PostSound'
    BY <2>2 DEF PostSound
  <2> QED BY <1>0, <2>1, <2>2, <2>3, <2>4, <2>5, FilesAlone
\* What a killed writer has open stays cut off.
<1>14. ASSUME NEW w \in Writers, KillLogger(w) \/ (w \in Clients /\ KillWorker(w)) PROVE SharedInv'
  <2>1. PICK l \in {"none", "end"} :
          /\ UNCHANGED <<dirs, registry, dir, op, memo, visited, shared>>
          /\ step' = [step EXCEPT ![w] = l] /\ CutOff(w)
    BY <1>14 DEF KillLogger, KillWorker, Step, Stopped
  <2>2. step'[w] = l /\ \A v \in Writers \ {w} : step'[v] = step[v]
    BY <2>1 DEF LogTypeOK
  <2>3. cut \subseteq cut' /\ (Holds(w) => dir[w] \in cut')
    BY <2>1 DEF CutOff
  <2>4. \A d : Kept(d)' \subseteq Kept(d)
    BY <1>0, <2>1, <2>2, KeptShrinks DEF Active
  <2>5. ~Holds(w)' /\ ~Busy(w)'
    BY <2>2 DEF Holds, Busy
  <2>6. PostSound'
    <3>1. CASE w = Post
      BY <2>2, <3>1 DEF PostSound
    <3>2. CASE w # Post
      <4>1. w \in Clients /\ step'[Post] = step[Post]
        BY <1>0, <2>2, <3>2 DEF Writers
      <4> QED BY <2>1, <4>1, PostLeft
    <3> QED BY <3>1, <3>2
  <2> QED BY <2>1, <2>2, <2>3, <2>4, <2>5, <2>6, FilesAlone
<1>15. CASE UNCHANGED <<vars, logVars>>
  BY <1>15 DEF logVars, SharedInv, Overlap, FilesSound, Explained, KeptInv, Kept, PostSound,
               Readable, Active, Busy, Holds
<1> QED
  BY <1>0, <1>1, <1>2, <1>3, <1>4, <1>5, <1>6, <1>7, <1>8, <1>9, <1>10, <1>11, <1>12, <1>13, <1>14,
     <1>15
  DEF NextLog, LogStep, Rewrite

LEMMA SharedInvariance == FreshSecond => (LogSpec => [](StoreInv /\ LogInv /\ SharedInv))
<1>1. InitLog => SharedInv
  BY InitShared
<1>2. StoreInv /\ LogInv /\ SharedInv /\ [NextLog]_<<vars, logVars>> => SharedInv'
  BY NextShared
<1> SUFFICES ASSUME FreshSecond PROVE LogSpec => [](StoreInv /\ LogInv /\ SharedInv)
  OBVIOUS
<1>3. LogSpec => [](StoreInv /\ LogInv)
  BY LogInvariance
<1> QED BY <1>1, <1>2, <1>3, PTL DEF LogSpec

\* Whatever logs at the same time or in the same directory: a row of the
\* registry leads to metadata, which cannot be read only while someone has the
\* file open, after someone was killed who had, or if two have written it at
\* once (log_benchmark and log_recall open it with "w").
THEOREM RegisteredAreReadable == FreshSecond => (LogSpec => []RegisteredReadable)
<1>1. LogInv /\ SharedInv => RegisteredReadable
  BY DEF LogInv, LogTypeOK, SharedInv, FilesSound, Explained, RegisteredReadable
<1> QED BY <1>1, SharedInvariance, PTL

\* And what postprocess.py has finished keeps recall, latency and file sizes
\* in every directory that is not shared, however often it or a worker is
\* killed: the index files of a run on record are found again
\* (log_file_memory).
THEOREM VisitedAreComplete == FreshSecond => (LogSpec => []VisitedComplete)
<1>1. LogInv /\ SharedInv => VisitedComplete
  <2> SUFFICES ASSUME LogInv, SharedInv, NEW d \in visited \ shared, Readable(d)
               PROVE  {"recall", "latency", "files"} \subseteq dirs[d].logged
    BY DEF VisitedComplete
  <2>1. d \in DOMAIN dirs /\ Kept(d) = Before("metrics")
    BY DEF LogInv, LogTypeOK, Kept
  <2>2. Kept(d) \subseteq dirs[d].logged
    BY <2>1 DEF SharedInv, KeptInv
  <2> QED BY <2>1, <2>2 DEF Before
<1> QED BY <1>1, SharedInvariance, PTL

\* It leaves a directory without construction metrics only if every readable
\* run with its parameters was loaded as well.
LEMMA MetricsStep ==
  ASSUME StoreInv, LogInv, SharedInv, [NextLog]_<<vars, logVars>>,
         NEW d \in visited', d \notin visited, d \notin shared', dirs'[d].build_time = "absent",
         NEW e \in DOMAIN dirs \ late, Readable(e), dirs[e].params = dirs'[d].params
  PROVE  dirs[e].built_from_file
<1> USE DEF LogInv, SharedInv
\* Only the last operation of postprocess.py adds to what it has visited.
<1>1. \/ NoMetrics
      \/ Write(Post) /\ op[Post] = "metrics"
  <2>1. visited' # visited
    OBVIOUS
  <2>2. ASSUME NEW w \in Writers, Write(w) PROVE w = Post /\ op[Post] = "metrics"
    BY <2>1, <2>2, Zenon DEF Write, Done
  <2>3. ASSUME NEW c \in Clients, Run(c) \/ LogStep(c) \/ KillWorker(c) PROVE FALSE
    BY <2>1, <2>3 DEF Run, LogStep, SaveArrays, OpenMetadata, CloseMetadata,
                      _update_master_registry, KillWorker, logVars
  <2>4. ASSUME NEW w \in Writers, Read(w) \/ Change(w) \/ Truncate(w) \/ KillLogger(w) PROVE FALSE
    BY <2>1, <2>4 DEF Read, Change, Truncate, KillLogger
  <2>5. ASSUME CopyMetrics \/ StartPost \/ NextDir \/ UNCHANGED <<vars, logVars>> PROVE FALSE
    BY <2>1, <2>5 DEF CopyMetrics, StartPost, NextDir, logVars
  <2> QED BY <2>2, <2>3, <2>4, <2>5 DEF NextLog, Rewrite
<1>2. CASE NoMetrics
  <2>1. d = dir[Post] /\ dirs' = dirs /\ step[Post] = "change"
        /\ (memo[Post].built_from_file => SameBuild(dir[Post]) \subseteq late) /\ shared' = shared
    BY <1>2 DEF NoMetrics, Searching, Done
  <2>2. dirs[d] = memo[Post] /\ memo[Post] \in Meta /\ Sound(memo[Post])
    BY <2>1, PostAssumption DEF PostSound, RecordsSound, Writers
  <2>3. memo[Post].built_from_file
    BY <2>1, <2>2, ParamsAssumption, Zenon DEF Sound, Meta
  <2> QED BY <2>1, <2>2, <2>3, Zenon DEF SameBuild
\* The metrics it has copied are not absent.
<1>3. CASE Write(Post) /\ op[Post] = "metrics"
  <2>1. step[Post] = "write" /\ visited' = visited \cup {dir[Post]}
    BY <1>3 DEF Write, Done
  <2>2. d = dir[Post] /\ dir[Post] \notin shared /\ dir[Post] \in DOMAIN dirs
    BY <1>3, <2>1, PostAssumption DEF Write, RecordsSound, Active, Writers
  <2>3. dirs[dir[Post]] = Torn
    BY <2>1, <2>2, PostAssumption DEF FilesSound, Holds, Writers
  <2>4. dirs' = [dirs EXCEPT ![dir[Post]] = memo[Post]]
    BY <1>3, <2>3 DEF Write, Filled
  <2>5. dirs'[d] = memo[Post]
    BY <2>2, <2>4 DEF LogTypeOK
  <2> QED BY <1>3, <2>1, <2>5 DEF PostSound
<1> QED BY <1>1, <1>2, <1>3

\* Metrics are missing after postprocess.py only where no run on record has
\* built that index (copy_construction_metrics), but for what workers write
\* while it searches.
THEOREM MetricsAreTaken == FreshSecond => (LogSpec => MetricsTaken)
<1> SUFFICES ASSUME FreshSecond PROVE LogSpec => MetricsTaken
  OBVIOUS
<1> DEFINE Taken ==
      \A d \in (visited' \ visited) \ shared' :
         dirs'[d].build_time = "absent" =>
           \A e \in DOMAIN dirs \ late :
             Readable(e) /\ dirs[e].params = dirs'[d].params => dirs[e].built_from_file
<1>1. StoreInv /\ LogInv /\ SharedInv /\ [NextLog]_<<vars, logVars>> => Taken
  BY MetricsStep
<1>2. LogSpec => [](StoreInv /\ LogInv /\ SharedInv)
  BY SharedInvariance
<1> QED BY <1>1, <1>2, PTL DEF LogSpec, MetricsTaken
===============================================================================
