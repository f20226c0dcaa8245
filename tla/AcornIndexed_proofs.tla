-------------------------- MODULE AcornIndexed_proofs --------------------------
(* add() loses no vector and inserts none twice, whatever the number of       *)
(* threads and the chunks of the loop.                                        *)
EXTENDS AcornBuild_proofs, FiniteSetTheorems

\* The ids a thread has taken and not yet put into layer 0.
Owed(t)  == ToSet(chunk[t]) \cup IF pc[t] = "addNode" THEN {job[t].vec} ELSE {}
Indexed  == ToSet(indexes[0])

\* Each id the team has taken is owed by one thread or has one node.
Shared ==
  /\ Indexed \cup UNION {Owed(t) : t \in Threads} = 1 .. claimed
  /\ \A t \in Threads : Owed(t) \cap Indexed = {}
  /\ \A t, u \in Threads : t # u => Owed(t) \cap Owed(u) = {}
Once ==
  /\ IsInjective(indexes[0])
  /\ \A t \in Threads :
       /\ IsInjective(chunk[t])
       /\ pc[t] = "addNode" => job[t].vec \notin ToSet(chunk[t])

LEMMA AppendOnce ==
  ASSUME NEW S, NEW s \in Seq(S), NEW e \in S, IsInjective(s), e \notin ToSet(s)
  PROVE  IsInjective(Append(s, e)) /\ ToSet(Append(s, e)) = ToSet(s) \cup {e}
<1>1. Append(s, e) \in Seq(S) /\ Len(Append(s, e)) = Len(s) + 1 /\ Len(s) \in Nat
      /\ \A i \in 1 .. Len(s) : Append(s, e)[i] = s[i]
      /\ Append(s, e)[Len(s) + 1] = e
  OBVIOUS
<1>2. DOMAIN Append(s, e) = 1 .. Len(s) + 1 /\ DOMAIN s = 1 .. Len(s)
  BY <1>1
<1> DEFINE a == Append(s, e)
<1> HIDE DEF a
<1>3. IsInjective(a)
  BY <1>1, <1>2 DEF IsInjective, ToSet, a
<1>4. ToSet(a) = ToSet(s) \cup {e}
  <2>1. ToSet(a) \subseteq ToSet(s) \cup {e}
    BY <1>1, <1>2 DEF ToSet, a
  <2>2. ToSet(s) \subseteq ToSet(a)
    BY <1>1, <1>2 DEF ToSet, a
  <2>3. e \in ToSet(a)
    BY <1>1, <1>2 DEF ToSet, a
  <2> QED BY <2>1, <2>2, <2>3
<1> QED BY <1>3, <1>4 DEF a

LEMMA TailOnce ==
  ASSUME NEW S, NEW s \in Seq(S), s # <<>>, IsInjective(s)
  PROVE  /\ IsInjective(Tail(s)) /\ Head(s) \notin ToSet(Tail(s))
         /\ ToSet(Tail(s)) \cup {Head(s)} = ToSet(s)
<1>1. /\ Len(s) \in Nat /\ Len(s) >= 1 /\ DOMAIN s = 1 .. Len(s) /\ Head(s) = s[1]
      /\ DOMAIN Tail(s) = 1 .. Len(s) - 1
      /\ \A i \in 1 .. Len(s) - 1 : Tail(s)[i] = s[i + 1]
  OBVIOUS
<1> DEFINE a == Tail(s)
<1> HIDE DEF a
<1>2. IsInjective(a)
  BY <1>1 DEF IsInjective, a
<1>3. Head(s) \notin ToSet(a)
  BY <1>1 DEF IsInjective, ToSet, a
<1>4. ToSet(a) \cup {Head(s)} = ToSet(s)
  <2>1. ToSet(a) \subseteq ToSet(s) /\ Head(s) \in ToSet(s)
    BY <1>1 DEF ToSet, a
  <2>2. ASSUME NEW i \in 1 .. Len(s) PROVE s[i] \in ToSet(a) \cup {Head(s)}
    <3>1. CASE i = 1
      BY <1>1, <3>1
    <3>2. CASE i # 1
      <4>1. i - 1 \in 1 .. Len(s) - 1 /\ Tail(s)[i - 1] = s[i]
        BY <1>1, <3>2
      <4> QED BY <1>1, <4>1 DEF ToSet, a
    <3> QED BY <3>1, <3>2
  <2> QED BY <1>1, <2>1, <2>2 DEF ToSet
<1> QED BY <1>2, <1>3, <1>4 DEF a

\* Most steps move no id: the thread is past addNode, before and after.
LEMMA Quiet ==
  ASSUME Shared, Once, UNCHANGED <<claimed, chunk>>, indexes'[0] = indexes[0],
         \A t \in Threads : \/ pc'[t] = pc[t] /\ job'[t] = job[t]
                            \/ pc[t] # "addNode" /\ pc'[t] # "addNode"
  PROVE  Shared' /\ Once'
<1>1. \A t \in Threads : Owed(t)' = Owed(t)
  BY DEF Owed
<1>2. Indexed' = Indexed
  BY DEF Indexed
<1>3. {Owed(t)' : t \in Threads} = {Owed(t) : t \in Threads}
  BY <1>1
<1>4. Shared'
  BY <1>1, <1>2, <1>3 DEF Shared
<1>5. Once'
  BY DEF Once
<1> QED BY <1>4, <1>5

\* A step of one thread takes the ids new, if any, and may put ids it owes
\* into layer 0.
LEMMA OneThread ==
  ASSUME Shared, NEW t \in Threads, NEW new,
         \A u \in Threads \ {t} : Owed(u)' = Owed(u),
         1 .. claimed' = (1 .. claimed) \cup new, new \cap (1 .. claimed) = {},
         Owed(t)' \cup Indexed' = Owed(t) \cup Indexed \cup new,
         Owed(t)' \cap Indexed' = {},
         Owed(t)' \subseteq Owed(t) \cup new, Indexed' \subseteq Indexed \cup Owed(t)
  PROVE  Shared'
<1> DEFINE all == UNION {Owed(u) : u \in Threads}
           allNext == UNION {Owed(u)' : u \in Threads}
           rest == UNION {Owed(u) : u \in Threads \ {t}}
<1>1. /\ Indexed \cup all = 1 .. claimed
      /\ \A u \in Threads : Owed(u) \cap Indexed = {}
      /\ \A u, w \in Threads : u # w => Owed(u) \cap Owed(w) = {}
  BY DEF Shared
<1>2. all = rest \cup Owed(t)
  OBVIOUS
<1>3. allNext = rest \cup Owed(t)'
  <2>1. allNext \subseteq rest \cup Owed(t)'
    OBVIOUS
  <2>2. rest \subseteq allNext
    OBVIOUS
  <2> QED
    BY <2>1, <2>2
<1>4. Indexed' \cup allNext = 1 .. claimed'
  BY <1>1, <1>2, <1>3
<1>5. \A u \in Threads : Owed(u) \subseteq 1 .. claimed
  BY <1>1
<1>6. \A u \in Threads : Owed(u)' \cap Indexed' = {}
  BY <1>1
<1>7. \A u \in Threads \ {t} : Owed(u)' \cap Owed(t)' = {}
  BY <1>1, <1>5
<1>8. \A u, w \in Threads : u # w => Owed(u)' \cap Owed(w)' = {}
  BY <1>1, <1>7
<1> QED
  BY <1>4, <1>6, <1>8 DEF Shared

LEMMA ReadMaxLayerOnce ==
  ASSUME IInv, Shared, Once, NEW t \in Threads, ReadMaxLayer(t)
  PROVE  Shared' /\ Once'
<1>1. /\ TypeOK /\ chunk[t] \in Seq(Nat)
      /\ pc \in [Threads -> Labels] /\ job \in [Threads -> Jobs]
      /\ chunk \in [Threads -> Seq(Nat)]
  BY LocalTypes DEF IInv, TypeOK
<1> DEFINE j == NewJob(Head(chunk[t]), getMaxLayer)
<1>2. /\ pc[t] = "idle" /\ chunk[t] # <<>>
      /\ job' = [job EXCEPT ![t] = j]
      /\ chunk' = [chunk EXCEPT ![t] = Tail(chunk[t])]
      /\ pc' = [pc EXCEPT ![t] = "addNode"]
      /\ claimed' = claimed /\ indexes' = indexes
  BY DEF ReadMaxLayer, Goto, indexVars, graphVars
<1>3. j.vec = Head(chunk[t])
  BY DEF NewJob
<1> HIDE DEF j
<1>4. /\ pc'[t] = "addNode" /\ chunk'[t] = Tail(chunk[t])
      /\ job'[t].vec = Head(chunk[t])
      /\ \A u \in Threads \ {t} : /\ pc'[u] = pc[u] /\ chunk'[u] = chunk[u]
                                  /\ job'[u] = job[u]
  BY <1>1, <1>2, <1>3
<1>5. /\ IsInjective(Tail(chunk[t])) /\ Head(chunk[t]) \notin ToSet(Tail(chunk[t]))
      /\ ToSet(Tail(chunk[t])) \cup {Head(chunk[t])} = ToSet(chunk[t])
  BY <1>1, <1>2, TailOnce DEF Once
<1>6. \A u \in Threads : Owed(u)' = Owed(u)
  BY <1>2, <1>4, <1>5 DEF Owed
<1>7. Indexed' = Indexed
  BY <1>2 DEF Indexed
<1>8. {Owed(u)' : u \in Threads} = {Owed(u) : u \in Threads}
  BY <1>6
<1>9. Shared'
  BY <1>2, <1>6, <1>7, <1>8 DEF Shared
<1>10. Once'
  BY <1>2, <1>4, <1>5 DEF Once
<1> QED
  BY <1>9, <1>10

LEMMA ClaimOnce ==
  ASSUME IInv, Shared, Once, NEW t \in Threads, Claim(t)
  PROVE  Shared' /\ Once'
<1> DEFINE last == IF claimed + Chunk < Len(storage) THEN claimed + Chunk ELSE Len(storage)
           mine == [i \in 1 .. last - claimed |-> claimed + i]
           new == claimed + 1 .. last
<1>1. /\ pc[t] = "idle" /\ chunk[t] = <<>> /\ claimed < Len(storage)
      /\ chunk' = [chunk EXCEPT ![t] = mine] /\ claimed' = last
      /\ indexes' = indexes /\ pc' = pc /\ job' = job
  BY DEF Claim, graphVars, locals
<1>2. /\ storage \in Seq(Points) /\ claimed \in Nat /\ Chunk \in Nat
      /\ chunk \in [Threads -> Seq(Nat)]
  BY ParameterAssumption DEF IInv, TypeOK
<1>3. last \in Nat /\ claimed <= last
  BY <1>1, <1>2
<1>4. /\ IsInjective(mine) /\ ToSet(mine) = new
  <2> HIDE DEF last
  <2>1. DOMAIN mine = 1 .. last - claimed /\ \A i \in 1 .. last - claimed : mine[i] = claimed + i
    OBVIOUS
  <2> HIDE DEF mine
  <2>2. IsInjective(mine)
    BY <1>2, <1>3, <2>1 DEF IsInjective
  <2>3. ToSet(mine) \subseteq new
    BY <1>2, <1>3, <2>1 DEF ToSet
  <2>4. ASSUME NEW x \in new PROVE x \in ToSet(mine)
    <3>1. x - claimed \in 1 .. last - claimed /\ mine[x - claimed] = x
      BY <1>2, <1>3, <2>1
    <3> QED
      BY <2>1, <3>1 DEF ToSet
  <2> QED
    BY <2>2, <2>3, <2>4
<1>5. 1 .. claimed' = (1 .. claimed) \cup new /\ new \cap (1 .. claimed) = {}
  BY <1>1, <1>2, <1>3
<1> HIDE DEF last, mine, new
<1>6. chunk'[t] = mine /\ \A u \in Threads \ {t} : chunk'[u] = chunk[u]
  BY <1>1, <1>2
<1>7. Owed(t) = {} /\ Owed(t)' = new /\ \A u \in Threads \ {t} : Owed(u)' = Owed(u)
  <2>1. ToSet(<<>>) = {}
    BY DEF ToSet
  <2> QED
    BY <1>1, <1>4, <1>6, <2>1 DEF Owed
<1>8. Indexed' = Indexed /\ Indexed \subseteq 1 .. claimed
  BY <1>1 DEF Indexed, Shared
<1>9. Shared'
  BY <1>5, <1>7, <1>8, OneThread
<1>10. Once'
  BY <1>1, <1>4, <1>6 DEF Once
<1> QED
  BY <1>9, <1>10

LEMMA addNodeOnce ==
  ASSUME IInv, Shared, Once, NEW t \in Threads, addNode(t)
  PROVE  Shared' /\ Once'
<1> DEFINE v == job[t].vec
<1>1. /\ pc[t] = "addNode" /\ chunk' = chunk /\ claimed' = claimed
      /\ v \in Nat /\ chunk[t] \in Seq(Nat) /\ 0 \in Layers
      /\ indexes \in [Layers -> Seq(Nat)] /\ indexes[0] \in Seq(Nat)
      /\ pc \in [Threads -> Labels] /\ job \in [Threads -> Jobs]
  <2>1. 0 \in Layers
    BY TopLayerType DEF Layers
  <2> QED
    BY <2>1, LocalTypes DEF IInv, TypeOK, addNode, indexVars
<1>2. PICK l \in Layers : \E j :
        /\ indexes' = [k \in Layers |-> IF k <= l THEN Append(indexes[k], v) ELSE indexes[k]]
        /\ job' = [job EXCEPT ![t] = j]
        /\ \/ pc' = [pc EXCEPT ![t] = "descend"]
           \/ pc' = [pc EXCEPT ![t] = "readTop"]
  BY DEF addNode, PushBack, Goto
<1>3. indexes'[0] = Append(indexes[0], v)
  BY <1>1, <1>2, TopLayerType DEF Layers
<1>4. /\ pc'[t] # "addNode"
      /\ \A u \in Threads \ {t} : pc'[u] = pc[u] /\ job'[u] = job[u]
  BY <1>1, <1>2
<1>5. v \notin Indexed /\ v \notin ToSet(chunk[t]) /\ IsInjective(indexes[0])
  BY <1>1 DEF Shared, Once, Owed
<1>6. IsInjective(indexes'[0]) /\ Indexed' = Indexed \cup {v}
  BY <1>1, <1>3, <1>5, AppendOnce DEF Indexed
<1>7. Owed(t) = ToSet(chunk[t]) \cup {v} /\ Owed(t)' = ToSet(chunk[t])
  BY <1>1, <1>4 DEF Owed
<1>8. \A u \in Threads \ {t} : Owed(u)' = Owed(u)
  BY <1>1, <1>4 DEF Owed
<1> HIDE DEF v
<1>9. Owed(t) \cap Indexed = {}
  BY DEF Shared
<1>10. Shared'
  <2>1. 1 .. claimed' = (1 .. claimed) \cup {} /\ {} \cap (1 .. claimed) = {}
    BY <1>1
  <2>2. /\ Owed(t)' \cup Indexed' = Owed(t) \cup Indexed \cup {}
        /\ Owed(t)' \cap Indexed' = {}
        /\ Owed(t)' \subseteq Owed(t) \cup {} /\ Indexed' \subseteq Indexed \cup Owed(t)
    BY <1>5, <1>6, <1>7, <1>9
  <2> QED
    BY <2>1, <2>2, <1>8, OneThread
<1>11. Once'
  BY <1>1, <1>4, <1>6 DEF Once
<1> QED
  BY <1>10, <1>11

\* Every other step of a thread happens past addNode, or before it takes a
\* vector.
LEMMA OtherStepOnce ==
  ASSUME IInv, Shared, Once, NEW t \in Threads,
         \/ Expand(t) \/ DescendEnd(t) \/ ReadTop(t) \/ Remap(t) \/ RemapEnd(t)
         \/ SearchEnd(t) \/ LinkIn(t) \/ LinkBack(t) \/ ReadNeighbors(t)
         \/ Check(t) \/ NextLayer(t) \/ ReadLast(t) \/ PopLast(t)
         \/ twoHopPruning(t) \/ TwoHopScan(t) \/ TwoHopWrite(t)
         \/ Unlink(t) \/ UnlinkEnd(t)
  PROVE  Shared' /\ Once'
<1>1. pc \in [Threads -> Labels] /\ job \in [Threads -> Jobs]
  BY DEF IInv, TypeOK
<1> DEFINE Moves == /\ UNCHANGED <<claimed, chunk, indexes>>
                    /\ pc[t] # "addNode"
                    /\ \/ pc' = pc
                       \/ \E label \in Labels \ {"addNode"} :
                            pc' = [pc EXCEPT ![t] = label]
                    /\ \/ job' = job
                       \/ \E j : job' = [job EXCEPT ![t] = j]
<1>2. Moves
  <2>1. CASE Expand(t)
    BY <2>1 DEF Expand, indexVars, graphVars
  <2>2. CASE DescendEnd(t)
    BY <2>2 DEF DescendEnd, Goto, Labels, indexVars, graphVars
  <2>3. CASE ReadTop(t)
    BY <2>3 DEF ReadTop, Goto, Labels, indexVars, graphVars
  <2>4. CASE Remap(t)
    BY <2>4 DEF Remap, Goto, Labels, indexVars, graphVars
  <2>5. CASE RemapEnd(t)
    BY <2>5 DEF RemapEnd, Goto, Labels, indexVars, graphVars
  <2>6. CASE SearchEnd(t)
    BY <2>6 DEF SearchEnd, Goto, Labels, indexVars, graphVars
  <2>7. CASE LinkIn(t)
    BY <2>7 DEF LinkIn, Goto, Labels, indexVars
  <2>8. CASE LinkBack(t)
    BY <2>8 DEF LinkBack, Goto, Labels, indexVars
  <2>9. CASE ReadNeighbors(t)
    BY <2>9 DEF ReadNeighbors, Goto, Labels, indexVars, graphVars
  <2>10. CASE Check(t)
    BY <2>10 DEF Check, NextNeighbor, Goto, Labels, indexVars, graphVars
  <2>11. CASE NextLayer(t)
    BY <2>11 DEF NextLayer, Goto, Labels, indexVars, graphVars
  <2>12. CASE ReadLast(t)
    BY <2>12 DEF ReadLast, Goto, Labels, indexVars, graphVars
  <2>13. CASE PopLast(t)
    BY <2>13 DEF PopLast, NextNeighbor, Goto, Labels, indexVars
  <2>14. CASE twoHopPruning(t)
    BY <2>14 DEF twoHopPruning, Goto, Labels, indexVars, graphVars
  <2>15. CASE TwoHopScan(t)
    BY <2>15 DEF TwoHopScan, indexVars, graphVars
  <2>16. CASE TwoHopWrite(t)
    BY <2>16 DEF TwoHopWrite, Goto, Labels, indexVars
  <2>17. CASE Unlink(t)
    BY <2>17 DEF Unlink, indexVars
  <2>18. CASE UnlinkEnd(t)
    BY <2>18 DEF UnlinkEnd, NextNeighbor, Goto, Labels, indexVars, graphVars
  <2> QED
    BY <2>1, <2>2, <2>3, <2>4, <2>5, <2>6, <2>7, <2>8, <2>9, <2>10, <2>11,
       <2>12, <2>13, <2>14, <2>15, <2>16, <2>17, <2>18
<1>3. pc'[t] # "addNode"
  BY <1>1, <1>2
<1>4. \A u \in Threads \ {t} : pc'[u] = pc[u] /\ job'[u] = job[u]
  BY <1>1, <1>2
<1> QED
  BY <1>2, <1>3, <1>4, Quiet

LEMMA resetOnce ==
  ASSUME IInv, Shared, Once, reset
  PROVE  Shared' /\ Once'
<1>1. /\ claimed' = 0 /\ pc' = pc /\ chunk' = chunk
      /\ indexes' = [l \in Layers |-> <<>>] /\ 0 \in Layers
      /\ \A t \in Threads : pc[t] = "idle" /\ chunk[t] = <<>>
  BY TopLayerType DEF reset, IInv, TeamAtRest, Layers
<1>2. ToSet(<<>>) = {} /\ IsInjective(<<>>)
  BY DEF ToSet, IsInjective
<1>3. indexes'[0] = <<>> /\ Indexed' = {}
  BY <1>1, <1>2 DEF Indexed
<1>4. \A t \in Threads : Owed(t)' = {}
  BY <1>1, <1>2 DEF Owed
<1>5. 1 .. claimed' = {}
  BY <1>1
<1>6. UNION {Owed(t)' : t \in Threads} = {}
  BY <1>4
<1>7. Shared'
  BY <1>3, <1>4, <1>5, <1>6 DEF Shared
<1>8. Once'
  BY <1>1, <1>2, <1>3 DEF Once
<1> QED
  BY <1>7, <1>8

LEMMA InitOnce == Init => Shared /\ Once
<1> SUFFICES ASSUME Init PROVE Shared /\ Once
  OBVIOUS
<1>1. /\ claimed = 0 /\ indexes = [l \in Layers |-> <<>>] /\ 0 \in Layers
      /\ \A t \in Threads : pc[t] = "idle" /\ chunk[t] = <<>>
  BY TopLayerType DEF Init, Layers
<1>2. ToSet(<<>>) = {} /\ IsInjective(<<>>)
  BY DEF ToSet, IsInjective
<1>3. indexes[0] = <<>> /\ Indexed = {}
  BY <1>1, <1>2 DEF Indexed
<1>4. \A t \in Threads : Owed(t) = {}
  BY <1>1, <1>2 DEF Owed
<1>5. 1 .. claimed = {}
  BY <1>1
<1>6. UNION {Owed(t) : t \in Threads} = {}
  BY <1>4
<1>7. Shared
  BY <1>3, <1>4, <1>5, <1>6 DEF Shared
<1>8. Once
  BY <1>1, <1>2, <1>3 DEF Once
<1> QED
  BY <1>7, <1>8

LEMMA NextOnce == IInv /\ Shared /\ Once /\ [Next]_vars => Shared' /\ Once'
<1> SUFFICES ASSUME IInv, Shared, Once, [Next]_vars
             PROVE  Shared' /\ Once'
  OBVIOUS
<1>1. CASE Add \/ AddEnd
  BY <1>1, Quiet DEF Add, AddEnd, graphVars, locals
<1>2. CASE reset
  BY <1>2, resetOnce
<1>3. ASSUME NEW t \in Threads, ThreadStep(t)
      PROVE  Shared' /\ Once'
  <2>1. CASE Claim(t)
    BY <2>1, ClaimOnce
  <2>2. CASE ReadMaxLayer(t)
    BY <2>2, ReadMaxLayerOnce
  <2>3. CASE addNode(t)
    BY <2>3, addNodeOnce
  <2> QED
    BY <1>3, <2>1, <2>2, <2>3, OtherStepOnce DEF ThreadStep, addSingle
<1>4. CASE Undefined \/ UNCHANGED vars
  BY <1>4, Quiet DEF Undefined, vars, indexVars, graphVars, locals
<1> QED
  BY <1>1, <1>2, <1>3, <1>4 DEF Next

\* A list without repetitions that holds the first n ids has n entries.
LEMMA CountOnce ==
  ASSUME NEW s \in Seq(Nat), NEW n \in Nat, IsInjective(s), ToSet(s) = 1 .. n
  PROVE  Len(s) = n
<1>1. Len(s) \in Nat /\ DOMAIN s = 1 .. Len(s) /\ s \in [1 .. Len(s) -> 1 .. n]
  <2>1. Len(s) \in Nat /\ DOMAIN s = 1 .. Len(s) /\ s = [i \in 1 .. Len(s) |-> s[i]]
    OBVIOUS
  <2>2. \A i \in 1 .. Len(s) : s[i] \in 1 .. n
    BY <2>1 DEF ToSet
  <2> QED
    BY <2>1, <2>2
<1>2. \A x \in 1 .. n : \E i \in 1 .. Len(s) : s[i] = x
  BY <1>1 DEF ToSet
<1>3. \A i, k \in 1 .. Len(s) : s[i] = s[k] => i = k
  BY <1>1 DEF IsInjective
<1>4. s \in Bijection(1 .. Len(s), 1 .. n)
  BY <1>1, <1>2, <1>3 DEF Bijection, Injection, Surjection, IsInjective
<1>5. Cardinality(1 .. n) = Len(s)
  <2>1. ExistsBijection(1 .. Len(s), 1 .. n)
    BY <1>4 DEF ExistsBijection
  <2> QED
    BY <1>1, <2>1, FS_CountingElements
<1>6. Cardinality(1 .. n) = n
  BY FS_Interval
<1> QED
  BY <1>5, <1>6

\* Once no add() is under way, nothing is owed and layer 0 holds every id.
LEMMA NothingOwed == IInv /\ Shared /\ Once => EveryVectorIndexed
<1> SUFFICES ASSUME IInv, Shared, Once, Quiescent
             PROVE  Len(indexes[0]) = ntotal /\ ToSet(indexes[0]) = 1 .. ntotal
  BY DEF EveryVectorIndexed
<1>1. /\ claimed \in Nat /\ ntotal \in Nat /\ storage \in Seq(Points)
      /\ indexes[0] \in Seq(Nat)
  BY TopLayerType DEF IInv, TypeOK, Layers
<1>2. claimed = ntotal
  BY <1>1 DEF IInv, TeamAtRest, Quiescent
<1>3. \A t \in Threads : Owed(t) = {}
  <2>1. ToSet(<<>>) = {}
    BY DEF ToSet
  <2> QED
    BY <2>1 DEF IInv, TeamAtRest, Owed
<1>4. UNION {Owed(t) : t \in Threads} = {}
  BY <1>3
<1>5. ToSet(indexes[0]) = 1 .. ntotal
  BY <1>2, <1>4 DEF Shared, Indexed
<1> QED
  BY <1>1, <1>5, CountOnce DEF Once

\* Whatever the number of threads, their interleaving and the chunks they
\* take: when add() has returned, layer 0 holds each vector of the storage
\* exactly once (IndexAcorn.cpp:90-113, the parallel loop over addSingle).
THEOREM AllVectorsIndexed == Spec => []EveryVectorIndexed
<1>1. Init => Shared /\ Once
  BY InitOnce
<1>2. IInv /\ (Shared /\ Once) /\ [Next]_vars => (Shared /\ Once)'
  BY NextOnce
<1>3. IInv /\ (Shared /\ Once) => EveryVectorIndexed
  BY NothingOwed
<1> QED
  BY <1>1, <1>2, <1>3, Invariance, PTL DEF Spec
===============================================================================
