------------------------ MODULE AcornSequential_proofs ------------------------
(***************************************************************************)
(* What add() promises of the adjacency lists if its team has one thread:  *)
(* every edge has its reverse, every list is sorted and within the degree  *)
(* bound, and no vector is read past its end.  With two threads none of    *)
(* this need hold.                                                         *)
(***************************************************************************)
EXTENDS AcornIndexed_proofs, SequenceTheorems

-----------------------------------------------------------------------------
(* Sequences                                                                *)

\* r is s with some elements left out.
Sublist(r, s) ==
  /\ Len(r) <= Len(s)
  /\ \E f \in [1 .. Len(r) -> 1 .. Len(s)] :
       /\ \A i \in 1 .. Len(r) : r[i] = s[f[i]]
       /\ \A i, j \in 1 .. Len(r) : i < j => f[i] < f[j]

LEMMA SublistOnce ==
  ASSUME NEW S, NEW r \in Seq(S), NEW s \in Seq(S), Sublist(r, s)
  PROVE  /\ ToSet(r) \subseteq ToSet(s)
         /\ IsInjective(s) => IsInjective(r)
<1>1. PICK f \in [1 .. Len(r) -> 1 .. Len(s)] :
        /\ \A i \in 1 .. Len(r) : r[i] = s[f[i]]
        /\ \A i, j \in 1 .. Len(r) : i < j => f[i] < f[j]
  BY DEF Sublist
<1>2. /\ DOMAIN r = 1 .. Len(r) /\ DOMAIN s = 1 .. Len(s)
      /\ Len(r) \in Nat /\ Len(s) \in Nat
      /\ \A i \in 1 .. Len(r) : f[i] \in 1 .. Len(s)
  BY <1>1
<1>3. ToSet(r) \subseteq ToSet(s)
  BY <1>1, <1>2 DEF ToSet
<1>4. ASSUME IsInjective(s) PROVE IsInjective(r)
  <2> SUFFICES ASSUME NEW i \in 1 .. Len(r), NEW j \in 1 .. Len(r), r[i] = r[j]
               PROVE  i = j
    BY <1>2 DEF IsInjective
  <2>1. f[i] = f[j]
    BY <1>1, <1>2, <1>4 DEF IsInjective
  <2> QED BY <1>1, <1>2, <2>1
<1> QED BY <1>3, <1>4

\* vector::insert.
LEMMA InsertFacts ==
  ASSUME NEW S, NEW s \in Seq(S), NEW e \in S, NEW i \in 1 .. Len(s) + 1
  PROVE  LET r == InsertAt(s, i, e)
         IN /\ r \in Seq(S) /\ Len(r) = Len(s) + 1 /\ r[i] = e
            /\ \A k \in 1 .. i - 1 : r[k] = s[k]
            /\ \A k \in i + 1 .. Len(s) + 1 : r[k] = s[k - 1]
            /\ ToSet(r) = ToSet(s) \cup {e}
            /\ IsInjective(s) /\ e \notin ToSet(s) => IsInjective(r)
<1> DEFINE r == InsertAt(s, i, e)
<1> HIDE DEF r
<1>1. /\ r \in Seq(S) /\ Len(r) = Len(s) + 1 /\ r[i] = e
      /\ \A k \in 1 .. i - 1 : r[k] = s[k]
      /\ \A k \in i + 1 .. Len(s) + 1 : r[k] = s[k - 1]
      /\ DOMAIN r = 1 .. Len(s) + 1 /\ DOMAIN s = 1 .. Len(s) /\ Len(s) \in Nat
  <2> DEFINE a == SubSeq(s, 1, i - 1)
             b == SubSeq(s, i, Len(s))
  <2>1. /\ Len(s) \in Nat /\ i \in Nat /\ i >= 1 /\ i <= Len(s) + 1
        /\ i - 1 \in Nat /\ DOMAIN s = 1 .. Len(s)
    OBVIOUS
  <2>2. a \in Seq(S) /\ Len(a) = i - 1 /\ \A k \in 1 .. i - 1 : a[k] = s[k]
    BY <2>1, SubSeqProperties
  <2>3. /\ b \in Seq(S) /\ Len(b) = Len(s) - i + 1
        /\ \A k \in 1 .. Len(s) - i + 1 : b[k] = s[i + k - 1]
    BY <2>1, SubSeqProperties
  <2> HIDE DEF a, b
  <2> DEFINE c == Append(a, e)
  <2>4. /\ c \in Seq(S) /\ Len(c) = i /\ c[i] = e
        /\ \A k \in 1 .. i - 1 : c[k] = s[k]
    BY <2>1, <2>2, AppendProperties
  <2>5. r = c \o b
    BY <2>2, AppendIsConcat DEF InsertAt, a, b, r
  <2> HIDE DEF c
  <2>6. /\ c \o b \in Seq(S) /\ Len(c \o b) = Len(c) + Len(b)
        /\ \A k \in 1 .. Len(c) + Len(b) :
             (c \o b)[k] = IF k <= Len(c) THEN c[k] ELSE b[k - Len(c)]
    BY <2>3, <2>4, ConcatProperties
  <2>7. /\ r \in Seq(S) /\ Len(r) = Len(s) + 1
        /\ \A k \in 1 .. Len(s) + 1 : r[k] = IF k <= i THEN c[k] ELSE b[k - i]
    BY <2>1, <2>3, <2>4, <2>5, <2>6
  <2>8. ASSUME NEW k \in i + 1 .. Len(s) + 1 PROVE r[k] = s[k - 1]
    <3>1. r[k] = b[k - i] /\ k - i \in 1 .. Len(s) - i + 1 /\ i + (k - i) - 1 = k - 1
      BY <2>1, <2>7
    <3> QED BY <2>3, <3>1
  <2>9. \A k \in 1 .. i : r[k] = c[k]
    BY <2>1, <2>7
  <2> QED BY <2>1, <2>4, <2>7, <2>8, <2>9
<1>2. ToSet(r) = ToSet(s) \cup {e}
  <2>1. ToSet(r) \subseteq ToSet(s) \cup {e}
    <3> SUFFICES ASSUME NEW k \in 1 .. Len(s) + 1 PROVE r[k] \in ToSet(s) \cup {e}
      BY <1>1 DEF ToSet
    <3>1. k \in 1 .. i - 1 \/ k = i \/ k \in i + 1 .. Len(s) + 1
      BY <1>1
    <3>2. k \in 1 .. i - 1 => r[k] = s[k] /\ k \in 1 .. Len(s)
      BY <1>1
    <3>3. k \in i + 1 .. Len(s) + 1 => r[k] = s[k - 1] /\ k - 1 \in 1 .. Len(s)
      BY <1>1
    <3> QED BY <1>1, <3>1, <3>2, <3>3 DEF ToSet
  <2>2. e \in ToSet(r)
    BY <1>1 DEF ToSet
  <2>3. ASSUME NEW k \in 1 .. Len(s) PROVE s[k] \in ToSet(r)
    <3>1. CASE k < i
      <4>1. k \in 1 .. i - 1 /\ r[k] = s[k] /\ k \in 1 .. Len(s) + 1
        BY <1>1, <3>1
      <4> QED BY <1>1, <4>1 DEF ToSet
    <3>2. CASE ~ (k < i)
      <4>1. k + 1 \in i + 1 .. Len(s) + 1 /\ k + 1 \in 1 .. Len(s) + 1
        BY <1>1, <3>2
      <4>2. r[k + 1] = s[k]
        BY <1>1, <4>1
      <4> QED BY <1>1, <4>1, <4>2 DEF ToSet
    <3> QED BY <3>1, <3>2
  <2> QED BY <1>1, <2>1, <2>2, <2>3 DEF ToSet
<1>3. ASSUME IsInjective(s), e \notin ToSet(s) PROVE IsInjective(r)
  <2> DEFINE from(k) == IF k < i THEN k ELSE k - 1
  <2>1. \A k \in 1 .. Len(s) + 1 : k # i => from(k) \in 1 .. Len(s) /\ r[k] = s[from(k)]
    BY <1>1
  <2>2. \A k \in 1 .. Len(s) + 1 : k # i => r[k] # e
    BY <1>1, <1>3, <2>1 DEF ToSet
  <2>3. \A k, m \in 1 .. Len(s) + 1 : from(k) = from(m) /\ k # i /\ m # i => k = m
    BY <1>1
  <2> HIDE DEF from
  <2> SUFFICES ASSUME NEW k \in 1 .. Len(s) + 1, NEW m \in 1 .. Len(s) + 1, r[k] = r[m]
               PROVE  k = m
    BY <1>1 DEF IsInjective
  <2>4. CASE k = i \/ m = i
    BY <1>1, <2>2, <2>4
  <2>5. CASE k # i /\ m # i
    <3>1. from(k) = from(m)
      BY <1>1, <1>3, <2>1, <2>5 DEF IsInjective
    <3> QED BY <2>3, <2>5, <3>1
  <2> QED BY <2>4, <2>5
<1> QED BY <1>1, <1>2, <1>3 DEF r

LEMMA Gap ==
  ASSUME NEW n \in Nat, NEW i \in Nat, i >= 1, i <= n
  PROVE  /\ (IF i + 1 <= n THEN n - (i + 1) + 1 ELSE 0) = n - i
         /\ n - (i + 1) + 1 = n - i
<1>1. CASE i = n
  BY <1>1
<1>2. CASE i # n
  BY <1>2
<1> QED BY <1>1, <1>2

\* vector::erase.
LEMMA RemoveFacts ==
  ASSUME NEW S, NEW s \in Seq(S), NEW i \in 1 .. Len(s)
  PROVE  LET r == RemoveAt(s, i)
         IN /\ r \in Seq(S) /\ Sublist(r, s) /\ Len(r) = Len(s) - 1
            /\ \A k \in 1 .. i - 1 : r[k] = s[k]
            /\ \A k \in i .. Len(s) - 1 : r[k] = s[k + 1]
            /\ ToSet(s) = ToSet(r) \cup {s[i]}
            /\ IsInjective(s) => s[i] \notin ToSet(r)
<1> DEFINE r == RemoveAt(s, i)
<1> HIDE DEF r
<1>1. /\ r \in Seq(S) /\ Len(r) = Len(s) - 1
      /\ \A k \in 1 .. i - 1 : r[k] = s[k]
      /\ \A k \in i .. Len(s) - 1 : r[k] = s[k + 1]
      /\ DOMAIN r = 1 .. Len(s) - 1 /\ DOMAIN s = 1 .. Len(s) /\ Len(s) \in Nat
  <2> DEFINE a == SubSeq(s, 1, i - 1)
             b == SubSeq(s, i + 1, Len(s))
  <2>1. /\ Len(s) \in Nat /\ i \in Nat /\ i >= 1 /\ i <= Len(s)
        /\ i - 1 \in Nat /\ DOMAIN s = 1 .. Len(s)
    OBVIOUS
  <2>2. a \in Seq(S) /\ Len(a) = i - 1 /\ \A k \in 1 .. i - 1 : a[k] = s[k]
    BY <2>1, SubSeqProperties
  <2>3. /\ b \in Seq(S) /\ Len(b) = Len(s) - i
        /\ \A k \in 1 .. Len(s) - i : b[k] = s[i + k]
    <3>1. /\ \A k \in i + 1 .. Len(s) : s[k] \in S
          /\ i + 1 \in Int /\ Len(s) \in Int
      BY <2>1
    <3>2. /\ b \in Seq(S) /\ Len(b) = IF i + 1 <= Len(s) THEN Len(s) - (i + 1) + 1 ELSE 0
          /\ \A k \in 1 .. Len(s) - (i + 1) + 1 : b[k] = s[(i + 1) + k - 1]
      BY <3>1, SubSeqProperties
    <3> HIDE DEF b
    <3>4. Len(s) - (i + 1) + 1 = Len(s) - i /\ Len(b) = Len(s) - i
      BY <2>1, <3>2, Gap
    <3>5. ASSUME NEW k \in 1 .. Len(s) - i PROVE b[k] = s[i + k]
      <4>1. (i + 1) + k - 1 = i + k
        BY <2>1
      <4> QED BY <3>2, <3>4, <4>1
    <3> QED BY <3>2, <3>4, <3>5
  <2> HIDE DEF a, b
  <2>4. r = a \o b
    BY DEF RemoveAt, a, b, r
  <2>5. /\ a \o b \in Seq(S) /\ Len(a \o b) = Len(a) + Len(b)
        /\ \A k \in 1 .. Len(a) + Len(b) :
             (a \o b)[k] = IF k <= Len(a) THEN a[k] ELSE b[k - Len(a)]
    BY <2>2, <2>3, ConcatProperties
  <2>6. /\ r \in Seq(S) /\ Len(r) = Len(s) - 1
        /\ \A k \in 1 .. Len(s) - 1 : r[k] = IF k <= i - 1 THEN a[k] ELSE b[k - (i - 1)]
    BY <2>1, <2>2, <2>3, <2>4, <2>5
  <2>7. ASSUME NEW k \in i .. Len(s) - 1 PROVE r[k] = s[k + 1]
    <3>1. r[k] = b[k - (i - 1)] /\ k - (i - 1) \in 1 .. Len(s) - i
          /\ i + (k - (i - 1)) = k + 1
      BY <2>1, <2>6
    <3> QED BY <2>3, <3>1
  <2>8. \A k \in 1 .. i - 1 : r[k] = s[k]
    BY <2>1, <2>2, <2>6
  <2> QED BY <2>1, <2>6, <2>7, <2>8
<1> DEFINE f == [k \in 1 .. Len(s) - 1 |-> IF k < i THEN k ELSE k + 1]
<1>2. /\ f \in [1 .. Len(r) -> 1 .. Len(s)]
      /\ \A k \in 1 .. Len(r) : r[k] = s[f[k]] /\ f[k] # i
      /\ \A k, m \in 1 .. Len(r) : k < m => f[k] < f[m]
      /\ \A k \in 1 .. Len(s) : k # i => \E m \in 1 .. Len(r) : f[m] = k
  <2>5. /\ f = [k \in 1 .. Len(r) |-> IF k < i THEN k ELSE k + 1]
        /\ Len(r) \in Nat /\ Len(r) = Len(s) - 1 /\ Len(s) \in Nat /\ i \in Nat
    BY <1>1
  <2>6. \A k \in 1 .. Len(r) : /\ k < i => f[k] = k
                               /\ ~ (k < i) => f[k] = k + 1
    BY <2>5
  <2>1. f \in [1 .. Len(r) -> 1 .. Len(s)]
    BY <2>5
  <2> HIDE DEF f
  <2>2. ASSUME NEW k \in 1 .. Len(r) PROVE r[k] = s[f[k]] /\ f[k] # i
    BY <1>1, <2>5, <2>6
  <2>3. ASSUME NEW k \in 1 .. Len(r), NEW m \in 1 .. Len(r), k < m PROVE f[k] < f[m]
    BY <2>3, <2>5, <2>6
  <2>4. ASSUME NEW k \in 1 .. Len(s), k # i PROVE \E m \in 1 .. Len(r) : f[m] = k
    <3>1. CASE k < i
      <4>1. k \in 1 .. Len(r) /\ f[k] = k
        BY <2>5, <2>6, <3>1
      <4> QED BY <4>1
    <3>2. CASE ~ (k < i)
      <4>1. k - 1 \in 1 .. Len(r) /\ f[k - 1] = k
        BY <2>4, <2>5, <2>6, <3>2
      <4> QED BY <4>1
    <3> QED BY <3>1, <3>2
  <2> QED BY <2>1, <2>2, <2>3, <2>4
<1> HIDE DEF f
<1>3. Sublist(r, s)
  <2>1. Len(r) <= Len(s)
    BY <1>1
  <2>2. \E g \in [1 .. Len(r) -> 1 .. Len(s)] :
          /\ \A k \in 1 .. Len(r) : r[k] = s[g[k]]
          /\ \A k, m \in 1 .. Len(r) : k < m => g[k] < g[m]
    BY <1>2, Zenon
  <2> QED BY <2>1, <2>2 DEF Sublist
<1>4. ToSet(s) = ToSet(r) \cup {s[i]}
  <2>1. ToSet(r) \subseteq ToSet(s) /\ s[i] \in ToSet(s)
    <3>1. r \in Seq(S)
      BY <1>1
    <3>2. ToSet(r) \subseteq ToSet(s)
      BY <1>3, <3>1, SublistOnce
    <3> QED BY <1>1, <3>2 DEF ToSet
  <2>2. ASSUME NEW k \in 1 .. Len(s), k # i PROVE s[k] \in ToSet(r)
    <3>1. PICK m \in 1 .. Len(r) : f[m] = k
      BY <1>2, <2>2
    <3>2. r[m] = s[k] /\ m \in DOMAIN r
      BY <1>1, <1>2, <3>1
    <3> QED BY <3>2 DEF ToSet
  <2>3. ToSet(s) \subseteq ToSet(r) \cup {s[i]}
    BY <1>1, <2>2 DEF ToSet
  <2> QED BY <2>1, <2>3
<1>5. ASSUME IsInjective(s) PROVE s[i] \notin ToSet(r)
  <2> SUFFICES ASSUME NEW k \in 1 .. Len(r), r[k] = s[i] PROVE FALSE
    BY <1>1 DEF ToSet
  <2>1. s[f[k]] = s[i] /\ f[k] # i /\ f[k] \in 1 .. Len(s)
    BY <1>2
  <2> QED BY <1>1, <1>5, <2>1 DEF IsInjective
<1> QED BY <1>1, <1>3, <1>4, <1>5 DEF r

LEMMA SublistSelf == ASSUME NEW S, NEW s \in Seq(S) PROVE Sublist(s, s)
<1> DEFINE f == [k \in 1 .. Len(s) |-> k]
<1>1. /\ f \in [1 .. Len(s) -> 1 .. Len(s)]
      /\ \A k \in 1 .. Len(s) : s[k] = s[f[k]]
      /\ \A k, m \in 1 .. Len(s) : k < m => f[k] < f[m]
  OBVIOUS
<1> HIDE DEF f
<1> QED BY <1>1 DEF Sublist

\* removeDirectedEdge.
LEMMA ErasedFacts ==
  ASSUME NEW S, NEW s \in Seq(S), NEW n, NEW r \in Erased(s, n)
  PROVE  /\ r \in Seq(S) /\ Sublist(r, s) /\ Len(r) <= Len(s)
         /\ ToSet(s) \ {n} \subseteq ToSet(r)
         /\ IsInjective(s) => n \notin ToSet(r)
<1>1. CASE Contains(s, n)
  <2>1. PICK i \in 1 .. Len(s) : r = RemoveAt(s, i) /\ s[i] = n
    BY <1>1 DEF Erased
  <2>2. /\ r \in Seq(S) /\ Sublist(r, s) /\ Len(r) = Len(s) - 1
        /\ ToSet(s) = ToSet(r) \cup {n} /\ (IsInjective(s) => n \notin ToSet(r))
    <3> DEFINE q == RemoveAt(s, i)
    <3>1. /\ q \in Seq(S) /\ Sublist(q, s) /\ Len(q) = Len(s) - 1
          /\ ToSet(s) = ToSet(q) \cup {s[i]} /\ (IsInjective(s) => s[i] \notin ToSet(q))
      BY RemoveFacts
    <3>2. r = q /\ s[i] = n
      BY <2>1
    <3> HIDE DEF q
    <3> QED BY <3>1, <3>2
  <2> QED BY <2>2 DEF Sublist
<1>2. CASE ~ Contains(s, n)
  <2>1. r = s
    BY <1>2 DEF Erased
  <2>2. n \notin ToSet(s)
    BY <1>2 DEF Contains, ToSet
  <2> QED BY <2>1, <2>2, SublistSelf DEF Sublist
<1> QED BY <1>1, <1>2

\* pop_back of removeLast.
LEMMA FrontFacts ==
  ASSUME NEW S, NEW s \in Seq(S), s # <<>>
  PROVE  /\ Front(s) \in Seq(S) /\ Sublist(Front(s), s) /\ Len(Front(s)) = Len(s) - 1
         /\ ToSet(s) = ToSet(Front(s)) \cup {Last(s)} /\ Last(s) \in S
         /\ IsInjective(s) => Last(s) \notin ToSet(Front(s))
<1>1. Len(s) \in 1 .. Len(s)
  OBVIOUS
<1>2. Front(s) = RemoveAt(s, Len(s)) /\ Last(s) = s[Len(s)]
  <2>1. SubSeq(s, Len(s) + 1, Len(s)) = <<>> /\ SubSeq(s, 1, Len(s) - 1) \in Seq(S)
    BY SubSeqEmpty, SubSeqProperties
  <2> QED BY <2>1, ConcatEmptySeq DEF Front, RemoveAt, Last
<1> DEFINE i == Len(s)
<1>3. i \in 1 .. Len(s) /\ Last(s) = s[i] /\ s[i] \in S /\ Front(s) = RemoveAt(s, i)
  BY <1>1, <1>2
<1> HIDE DEF i
<1>4. LET r == RemoveAt(s, i)
      IN /\ r \in Seq(S) /\ Sublist(r, s) /\ Len(r) = Len(s) - 1
         /\ ToSet(s) = ToSet(r) \cup {s[i]}
         /\ IsInjective(s) => s[i] \notin ToSet(r)
  BY <1>3, RemoveFacts
<1> QED BY <1>3, <1>4

LEMMA PrefixIsSublist ==
  ASSUME NEW S, NEW r \in Seq(S), NEW s \in Seq(S)
  PROVE  Sublist(r, r \o s)
<1> DEFINE f == [k \in 1 .. Len(r) |-> k]
<1>1. /\ f \in [1 .. Len(r) -> 1 .. Len(r \o s)] /\ Len(r) <= Len(r \o s)
      /\ \A k \in 1 .. Len(r) : r[k] = (r \o s)[f[k]]
      /\ \A k, m \in 1 .. Len(r) : k < m => f[k] < f[m]
  OBVIOUS
<1> HIDE DEF f
<1> QED BY <1>1 DEF Sublist

-----------------------------------------------------------------------------
(* The invariant                                                            *)

\* No vector is stored twice, and none has two nodes in a layer.
StoredOnce == IsInjective(storage)
LayersOnce ==
  \A l \in Layers : IsInjective(indexes[l]) /\ ToSet(indexes[l]) \subseteq Indexed

\* The job of t between addNode and its first search, and the layer of which
\* job.node is a node.
Sinking == {"descend", "readTop", "remap"}
NodeLayer(t) ==
  IF pc[t] \in {"descend", "readTop"} \/ (pc[t] = "remap" /\ job[t].assigned <= job[t].top)
  THEN job[t].assigned ELSE job[t].layer

\* The node t works on is the node of the vector it inserts: the entry it made
\* of the maximum layer is still good.
OwnNode(t) ==
  LET j == job[t]
  IN /\ pc[t] = "addNode" => j.top = getMaxLayer
     /\ pc[t] \in Sinking =>
          layers = 1 + IF j.top < j.assigned THEN j.assigned ELSE j.top
     /\ pc[t] = "remap" =>
          IF j.top < j.assigned THEN j.layer \in j.top .. j.assigned ELSE j.layer = j.top
     /\ pc[t] \in Sinking \cup {"search"} \cup Linking =>
          /\ j.node \in Nodes(NodeLayer(t))
          /\ indexes[NodeLayer(t)][j.node] = j.vec

\* The layers in which t has yet to link its vector: there its nodes have no
\* neighbours.
Unlinked(t) ==
  IF pc[t] \in Sinking THEN Layers
  ELSE IF pc[t] = "search" THEN 0 .. job[t].layer
  ELSE IF pc[t] \in Linking THEN 0 .. job[t].layer - 1
  ELSE {}
Fresh(t) ==
  \A l \in Unlinked(t) : \A n \in Nodes(l) :
    indexes[l][n] = job[t].vec => graph[l][n] = <<>>

\* The list of the new node, and the list being pruned.
OwnList(t) == graph[job[t].layer][job[t].node]
Pruned(t)  == graph[job[t].layer][Head(nbrs[t])]

\* The candidates not yet linked fit into the list of the new node.
Room(t) ==
  /\ pc[t] \in {"link", "linkBack"} => cands[t] \cap ToSet(OwnList(t)) = {}
  /\ pc[t] = "link" => Cardinality(cands[t]) + Len(OwnList(t)) <= max_neighbors
  /\ pc[t] = "linkBack" =>
       /\ Cardinality(cands[t]) + Len(OwnList(t)) < max_neighbors
       /\ peer[t] \notin cands[t] \cup ToSet(OwnList(t))

\* The nodes whose list may be one too long: t has linked them to the new
\* node and not pruned them yet.
Over(t) ==
  IF pc[t] = "link" THEN ToSet(OwnList(t))
  ELSE IF pc[t] = "linkBack" THEN ToSet(OwnList(t)) \cup {peer[t]}
  ELSE IF pc[t] = "unlink" THEN ToSet(nbrs[t]) \ {Head(nbrs[t])}
  ELSE IF pc[t] \in Linking THEN ToSet(nbrs[t])
  ELSE {}
Short(t) ==
  \A l \in Layers : \A n \in Nodes(l) :
    \/ Len(graph[l][n]) <= max_neighbors
    \/ /\ Len(graph[l][n]) = max_neighbors + 1
       /\ l = job[t].layer /\ n \in Over(t)

\* No list t is about to take the last element of is empty.
NoFault(t) ==
  /\ pc[t] # "fault"
  /\ pc[t] = "readLast" => Pruned(t) # <<>>
  /\ pc[t] = "popLast" => Pruned(t) # <<>> /\ peer[t] = Last(Pruned(t))

\* Every edge has its reverse, but for the one t is adding or the ones it is
\* removing.
HalfEdge(t, l, n, m) ==
  \/ pc[t] = "linkBack" /\ l = job[t].layer /\ n = peer[t] /\ m = job[t].node
  \/ pc[t] = "unlink" /\ l = 0 /\ n \in ToSet(hop[t].disc) /\ m = Head(nbrs[t])
Mutual(t) ==
  \A l \in Layers : \A n \in Nodes(l) :
    /\ IsInjective(graph[l][n])
    /\ \A m \in ToSet(graph[l][n]) : n \in ToSet(graph[l][m]) \/ HalfEdge(t, l, n, m)
\* What the steps between the two directions rely on.
Halfway(t) ==
  LET scan == hop[t].kept \o hop[t].rest
      disc == ToSet(hop[t].disc)
  IN /\ pc[t] = "linkBack" => job[t].node \in ToSet(graph[job[t].layer][peer[t]])
     /\ pc[t] = "twoHopScan" =>
          /\ IsInjective(scan) /\ disc \cap ToSet(scan) = {}
          /\ disc \cup ToSet(scan) = ToSet(Pruned(t))
          /\ Len(hop[t].kept) <= max_neighbors /\ IsFiniteSet(hop[t].dyn)
     /\ pc[t] = "unlink" => disc \cap ToSet(Pruned(t)) = {}

\* The distances of the layer's nodes to the vector of node n, and a list in
\* their order.
Near(l, n) == [m \in Nodes(l) |-> DistTo(l, VectorOf(l, n), m)]
Ascending(d, s) == \A i, k \in 1 .. Len(s) : i < k => d[s[i]] <= d[s[k]]
Ordered ==
  \A l \in Layers : \A n \in Nodes(l) : Ascending(Near(l, n), graph[l][n])
\* The new node is linked to the nearest candidate first.
InTurn(t) ==
  LET d == Near(job[t].layer, job[t].node)
  IN /\ pc[t] \in {"link", "linkBack"} =>
          \A c \in cands[t], x \in ToSet(OwnList(t)) : d[x] <= d[c]
     /\ pc[t] = "linkBack" =>
          /\ \A x \in ToSet(OwnList(t)) : d[x] <= d[peer[t]]
          /\ \A c \in cands[t] : d[peer[t]] <= d[c]
     /\ pc[t] = "twoHopScan" =>
          Ascending(Near(0, Head(nbrs[t])), hop[t].kept \o hop[t].rest)

-----------------------------------------------------------------------------
(* Vectors                                                                  *)

LEMMA ConcatOnce ==
  ASSUME NEW S, NEW s \in Seq(S), NEW r \in Seq(S), IsInjective(s), IsInjective(r),
         ToSet(s) \cap ToSet(r) = {}
  PROVE  IsInjective(s \o r)
<1> DEFINE c == s \o r
<1>1. /\ Len(s) \in Nat /\ Len(r) \in Nat /\ DOMAIN s = 1 .. Len(s) /\ DOMAIN r = 1 .. Len(r)
      /\ DOMAIN c = 1 .. Len(s) + Len(r)
      /\ \A k \in 1 .. Len(s) + Len(r) :
           c[k] = IF k <= Len(s) THEN s[k] ELSE r[k - Len(s)]
  BY ConcatProperties
<1> HIDE DEF c
<1> SUFFICES ASSUME NEW i \in 1 .. Len(s) + Len(r), NEW k \in 1 .. Len(s) + Len(r),
                    c[i] = c[k]
             PROVE  i = k
  BY <1>1 DEF IsInjective, c
<1>2. CASE i <= Len(s) /\ k <= Len(s)
  BY <1>1, <1>2 DEF IsInjective
<1>3. CASE ~ (i <= Len(s)) /\ ~ (k <= Len(s))
  <2>1. /\ i - Len(s) \in DOMAIN r /\ k - Len(s) \in DOMAIN r
        /\ r[i - Len(s)] = r[k - Len(s)]
    BY <1>1, <1>3
  <2>2. i - Len(s) = k - Len(s)
    BY <2>1 DEF IsInjective
  <2> QED BY <1>1, <2>2
<1>4. CASE i <= Len(s) /\ ~ (k <= Len(s))
  <2>1. i \in DOMAIN s /\ k - Len(s) \in DOMAIN r /\ s[i] = r[k - Len(s)]
    BY <1>1, <1>4
  <2> QED BY <2>1 DEF ToSet
<1>5. CASE ~ (i <= Len(s)) /\ k <= Len(s)
  <2>1. k \in DOMAIN s /\ i - Len(s) \in DOMAIN r /\ s[k] = r[i - Len(s)]
    BY <1>1, <1>5
  <2> QED BY <2>1 DEF ToSet
<1> QED BY <1>2, <1>3, <1>4, <1>5

LEMMA AddStoresOnce ==
  ASSUME IInv, StoredOnce, Add
  PROVE  StoredOnce'
<1>1. PICK n \in BatchSizes : \E batch \in [1 .. n -> Points \ ToSet(storage)] :
        IsInjective(batch) /\ storage' = storage \o batch
  BY DEF Add
<1>2. PICK batch \in [1 .. n -> Points \ ToSet(storage)] :
        IsInjective(batch) /\ storage' = storage \o batch
  BY <1>1
<1>3. n \in Nat /\ storage \in Seq(Points)
  BY <1>1, ParameterAssumption DEF IInv, TypeOK
<1>4. batch \in Seq(Points) /\ ToSet(storage) \cap ToSet(batch) = {}
  BY <1>3 DEF ToSet
<1> QED BY <1>2, <1>3, <1>4, ConcatOnce DEF StoredOnce

LEMMA addNodeLayersOnce ==
  ASSUME IInv, Shared, LayersOnce, NEW t \in Threads, addNode(t)
  PROVE  LayersOnce'
<1> DEFINE v == job[t].vec
<1>1. pc[t] = "addNode" /\ v \in Nat /\ indexes \in [Layers -> Seq(Nat)] /\ 0 \in Layers
  <2>1. pc[t] = "addNode"
    BY DEF addNode
  <2>2. TypeOK
    BY DEF IInv
  <2>3. v \in Nat
    BY <2>2, LocalTypes
  <2>4. indexes \in [Layers -> Seq(Nat)]
    BY <2>2 DEF TypeOK
  <2> QED BY <2>1, <2>3, <2>4, TopLayerType DEF Layers
<1>2. PICK l \in Layers :
        indexes' = [k \in Layers |-> IF k <= l THEN Append(indexes[k], v) ELSE indexes[k]]
  BY DEF addNode, PushBack
<1>3. v \notin Indexed
  BY <1>1 DEF Shared, Owed
<1> HIDE DEF v
<1>4. ASSUME NEW k \in Layers
      PROVE  \/ indexes'[k] = indexes[k]
             \/ IsInjective(indexes'[k]) /\ ToSet(indexes'[k]) = ToSet(indexes[k]) \cup {v}
  <2>1. indexes[k] \in Seq(Nat) /\ IsInjective(indexes[k]) /\ v \notin ToSet(indexes[k])
    BY <1>1, <1>3 DEF LayersOnce
  <2>2. /\ IsInjective(Append(indexes[k], v))
        /\ ToSet(Append(indexes[k], v)) = ToSet(indexes[k]) \cup {v}
    BY <1>1, <2>1, AppendOnce
  <2> QED BY <1>2, <2>2
<1>5. v \in Indexed' /\ Indexed \subseteq Indexed'
  <2>1. indexes[0] \in Seq(Nat) /\ IsInjective(indexes[0]) /\ v \notin ToSet(indexes[0])
    BY <1>1, <1>3 DEF LayersOnce
  <2>2. indexes'[0] = Append(indexes[0], v)
    BY <1>1, <1>2, TopLayerType DEF Layers
  <2> QED BY <1>1, <2>1, <2>2, AppendOnce DEF Indexed
<1>6. ASSUME NEW k \in Layers PROVE IsInjective(indexes'[k]) /\ ToSet(indexes'[k]) \subseteq Indexed'
  BY <1>4, <1>5 DEF LayersOnce
<1> QED BY <1>6 DEF LayersOnce

\* The vectors stay distinct, and so do the nodes of a layer.
LEMMA NextDistinct ==
  IInv /\ Shared /\ StoredOnce /\ LayersOnce /\ [Next]_vars => StoredOnce' /\ LayersOnce'
<1> SUFFICES ASSUME IInv, Shared, StoredOnce, LayersOnce, [Next]_vars
             PROVE  StoredOnce' /\ LayersOnce'
  OBVIOUS
<1>1. CASE Add
  <2>1. indexes' = indexes
    BY <1>1 DEF Add, graphVars
  <2> QED BY <1>1, <2>1, AddStoresOnce DEF LayersOnce, Indexed
<1>2. CASE reset
  <2>1. storage' = <<>> /\ \A l \in Layers : indexes'[l] = <<>>
    BY <1>2 DEF reset
  <2>2. IsInjective(<<>>) /\ ToSet(<<>>) = {}
    BY DEF IsInjective, ToSet
  <2> QED BY <2>1, <2>2 DEF StoredOnce, LayersOnce
<1>3. ASSUME NEW t \in Threads, addNode(t) PROVE StoredOnce' /\ LayersOnce'
  <2>1. storage' = storage
    BY <1>3 DEF addNode, indexVars
  <2> QED BY <1>3, <2>1, addNodeLayersOnce DEF StoredOnce
<1>4. CASE storage' = storage /\ indexes' = indexes
  BY <1>4 DEF StoredOnce, LayersOnce, Indexed
<1>5. ASSUME NEW t \in Threads, ThreadStep(t), ~ addNode(t)
      PROVE  storage' = storage /\ indexes' = indexes
  <2>1. CASE Claim(t) \/ ReadMaxLayer(t) \/ Expand(t) \/ DescendEnd(t)
    BY <2>1 DEF Claim, ReadMaxLayer, Expand, DescendEnd, indexVars, graphVars
  <2>2. CASE ReadTop(t) \/ Remap(t) \/ RemapEnd(t) \/ SearchEnd(t)
    BY <2>2 DEF ReadTop, Remap, RemapEnd, SearchEnd, indexVars, graphVars
  <2>3. CASE LinkIn(t) \/ LinkBack(t) \/ ReadNeighbors(t) \/ Check(t)
    BY <2>3 DEF LinkIn, LinkBack, ReadNeighbors, Check, indexVars, graphVars
  <2>4. CASE NextLayer(t) \/ ReadLast(t) \/ PopLast(t) \/ twoHopPruning(t)
    BY <2>4 DEF NextLayer, ReadLast, PopLast, twoHopPruning, indexVars, graphVars
  <2>5. CASE TwoHopScan(t) \/ TwoHopWrite(t) \/ Unlink(t) \/ UnlinkEnd(t)
    BY <2>5 DEF TwoHopScan, TwoHopWrite, Unlink, UnlinkEnd, indexVars, graphVars
  <2> QED BY <1>5, <2>1, <2>2, <2>3, <2>4, <2>5 DEF ThreadStep, addSingle
<1>6. CASE AddEnd \/ Undefined \/ UNCHANGED vars
  BY <1>4, <1>6 DEF AddEnd, Undefined, vars, indexVars, graphVars
<1> QED BY <1>1, <1>2, <1>3, <1>4, <1>5, <1>6 DEF Next

-----------------------------------------------------------------------------
(* Distances                                                                *)

\* The vectors that have nodes are stored.
LEMMA NodeStored ==
  ASSUME IInv, Shared, LayersOnce, NEW l \in Layers, NEW n \in Nodes(l)
  PROVE  indexes[l][n] \in 1 .. Len(storage) /\ VectorOf(l, n) \in Points
<1>1. /\ indexes[l] \in Seq(Nat) /\ claimed <= Len(storage) /\ claimed \in Nat
      /\ storage \in Seq(Points)
  BY DEF IInv, TypeOK, TeamAtRest
<1>2. n \in DOMAIN indexes[l]
  BY <1>1 DEF Nodes
<1>3. indexes[l][n] \in Indexed
  BY <1>2 DEF LayersOnce, ToSet
<1>4. indexes[l][n] \in 1 .. claimed
  BY <1>3 DEF Shared
<1>5. indexes[l][n] \in 1 .. Len(storage)
  BY <1>1, <1>4
<1> QED BY <1>1, <1>5 DEF VectorOf

LEMMA DistanceType ==
  ASSUME IInv, Shared, LayersOnce, NEW l \in Layers, NEW n \in Nodes(l), NEW q \in Points
  PROVE  DistTo(l, q, n) \in Nat
BY NodeStored, DistAssumption DEF DistTo

LEMMA NearType ==
  ASSUME IInv, Shared, LayersOnce, NEW l \in Layers, NEW n \in Nodes(l)
  PROVE  Near(l, n) \in [Nodes(l) -> Nat]
<1>1. VectorOf(l, n) \in Points
  BY NodeStored
<1> QED BY <1>1, DistanceType DEF Near

\* No two nodes of a layer are equally far from a vector.
LEMMA DistinctDistances ==
  ASSUME IInv, Shared, StoredOnce, LayersOnce, NEW l \in Layers, NEW q \in Points,
         NEW n \in Nodes(l), NEW m \in Nodes(l), n # m
  PROVE  DistTo(l, q, n) # DistTo(l, q, m)
<1>1. /\ indexes[l][n] \in 1 .. Len(storage) /\ VectorOf(l, n) \in Points
      /\ indexes[l][m] \in 1 .. Len(storage) /\ VectorOf(l, m) \in Points
  BY NodeStored
<1>2. indexes[l] \in Seq(Nat) /\ storage \in Seq(Points)
  BY DEF IInv, TypeOK
<1>3. indexes[l][n] # indexes[l][m]
  BY <1>2 DEF LayersOnce, IsInjective, Nodes
<1>4. VectorOf(l, n) # VectorOf(l, m)
  BY <1>1, <1>2, <1>3 DEF StoredOnce, IsInjective, VectorOf
<1>5. Dist[q] \in [Points -> Nat] /\ IsInjective(Dist[q])
  BY DistAssumption, NoTies
<1> QED BY <1>1, <1>4, <1>5 DEF IsInjective, DistTo

\* A heap of size k holds at most k nodes.
LEMMA HeapSize ==
  ASSUME IInv, Shared, StoredOnce, LayersOnce, NEW l \in Layers, NEW q \in Points,
         NEW k \in Nat, NEW S, S \subseteq Nodes(l)
  PROVE  /\ IsFiniteSet(NearestOf(k, l, q, S))
         /\ Cardinality(NearestOf(k, l, q, S)) <= k
<1> DEFINE H == NearestOf(k, l, q, S)
           before(n) == {m \in S : Closer(l, q, m, n)}
           place == [n \in H |-> Cardinality(before(n))]
<1>1. H \subseteq S /\ \A n \in H : Cardinality(before(n)) < k
  BY DEF NearestOf
<1>2. IsFiniteSet(S) /\ IsFiniteSet(H)
  <2>1. Len(indexes[l]) \in Nat
    BY DEF IInv, TypeOK
  <2>2. IsFiniteSet(Nodes(l))
    BY <2>1, FS_Interval DEF Nodes
  <2> QED BY <1>1, <2>2, FS_Subset
<1> HIDE DEF H
<1>3. \A n \in S : IsFiniteSet(before(n)) /\ Cardinality(before(n)) \in Nat
  <2> TAKE n \in S
  <2>1. before(n) \in SUBSET S
    OBVIOUS
  <2> HIDE DEF before
  <2> QED BY <1>2, <2>1, FS_Subset, FS_CardinalityType
<1>4. place \in [H -> 0 .. k - 1]
  <2> HIDE DEF before
  <2>1. \A n \in H : Cardinality(before(n)) \in 0 .. k - 1
    BY <1>1, <1>3
  <2> QED BY <2>1
<1>5. ASSUME NEW n \in H, NEW m \in H, Closer(l, q, n, m)
      PROVE  place[n] < place[m]
  <2>1. \A x \in S : DistTo(l, q, x) \in Nat
    BY DistanceType
  <2>2. before(n) \subseteq before(m) /\ n \in before(m) /\ n \notin before(n)
    BY <1>1, <1>5, <2>1 DEF Closer
  <2>3. n \in S /\ m \in S
    BY <1>1
  <2>4. place[n] = Cardinality(before(n)) /\ place[m] = Cardinality(before(m))
    OBVIOUS
  <2>5. before(n) \in SUBSET before(m) /\ before(n) # before(m)
    BY <2>2
  <2> HIDE DEF before, place
  <2>6. Cardinality(before(n)) <= Cardinality(before(m))
        /\ Cardinality(before(n)) # Cardinality(before(m))
    BY <1>3, <2>3, <2>5, FS_Subset
  <2> QED BY <1>3, <2>3, <2>4, <2>6
<1>6. \A n, m \in H : place[n] = place[m] => n = m
  <2> SUFFICES ASSUME NEW n \in H, NEW m \in H, n # m PROVE place[n] # place[m]
    OBVIOUS
  <2>1. /\ DistTo(l, q, n) # DistTo(l, q, m)
        /\ DistTo(l, q, n) \in Nat /\ DistTo(l, q, m) \in Nat
    BY <1>1, DistinctDistances, DistanceType
  <2>2. Closer(l, q, n, m) \/ Closer(l, q, m, n)
    BY <2>1 DEF Closer
  <2>3. place[n] \in 0 .. k - 1 /\ place[m] \in 0 .. k - 1
    BY <1>4
  <2> HIDE DEF place
  <2> QED BY <1>5, <2>2, <2>3
<1> HIDE DEF place
<1>7. place \in Injection(H, 0 .. k - 1)
  BY <1>4, <1>6 DEF Injection, IsInjective
<1>8. IsFiniteSet(0 .. k - 1) /\ Cardinality(0 .. k - 1) = k
  <2>1. k - 1 \in Int /\ (IF 0 > k - 1 THEN 0 ELSE k - 1 - 0 + 1) = k
    OBVIOUS
  <2> QED BY <2>1, FS_Interval
<1>9. Cardinality(H) <= Cardinality(0 .. k - 1)
  BY <1>7, <1>8, FS_Injection
<1> QED BY <1>2, <1>8, <1>9 DEF H

-----------------------------------------------------------------------------
(* What a step that leaves the lists alone preserves                        *)

Linked(t) == Room(t) /\ Short(t) /\ NoFault(t) /\ Mutual(t) /\ Halfway(t)
             /\ Ordered /\ InTurn(t)
AloneInv(t) == OwnNode(t) /\ Fresh(t) /\ Linked(t)

LEMMA NearFrame ==
  ASSUME Struct, storage' = storage, NEW l, NEW n
  PROVE  Near(l, n)' = Near(l, n)
BY DEF Struct, Near, Nodes, DistTo, VectorOf

LEMMA NodesFrame ==
  ASSUME Struct, NEW l
  PROVE  Nodes(l)' = Nodes(l)
BY DEF Struct, Nodes

LEMMA MutualKept ==
  ASSUME NEW t, Struct, graph' = graph, Mutual(t),
         \A l \in Layers : \A n \in Nodes(l) : \A m \in ToSet(graph[l][n]) :
           HalfEdge(t, l, n, m) => HalfEdge(t, l, n, m)'
  PROVE  Mutual(t)'
BY NodesFrame DEF Mutual

LEMMA ShortKept ==
  ASSUME NEW t, Struct, graph' = graph, Short(t),
         job'[t].layer = job[t].layer \/ Over(t) = {},
         \A n \in Over(t) : Len(graph[job[t].layer][n]) <= max_neighbors \/ n \in Over(t)',
         \A l \in Layers : \A n \in Nodes(l) : Len(graph[l][n]) \in Nat
  PROVE  Short(t)'
BY NodesFrame DEF Short, max_neighbors

LEMMA OrderedKept ==
  ASSUME Struct, UNCHANGED <<storage, graph>>, Ordered
  PROVE  Ordered'
BY NodesFrame, NearFrame DEF Ordered, Ascending

\* Outside the third loop of addSingle nothing is half-way.
LEMMA Calm ==
  ASSUME NEW t, Struct, UNCHANGED <<storage, graph>>, Linked(t),
         pc[t] \notin Linking, pc'[t] \notin Linking \cup {"fault"}
  PROVE  Linked(t)'
<1>1. Over(t) = {} /\ \A l, n, m : ~ HalfEdge(t, l, n, m)
  BY DEF Over, HalfEdge, Linking
<1>2. Room(t)' /\ NoFault(t)' /\ Halfway(t)' /\ InTurn(t)'
  BY DEF Room, NoFault, Halfway, InTurn, Linking
<1>3. Short(t)'
  <2>1. \A l \in Layers : \A n \in Nodes(l)' : Len(graph'[l][n]) <= max_neighbors
    BY <1>1, NodesFrame DEF Linked, Short
  <2> QED BY <2>1 DEF Short, Linking, max_neighbors
<1>4. Mutual(t)' /\ Ordered'
  BY <1>1, MutualKept, OrderedKept DEF Linked
<1> QED BY <1>2, <1>3, <1>4 DEF Linked

\* The job goes on with the same node of the same layer.
LEMMA OwnKept ==
  ASSUME NEW t, Struct, OwnNode(t),
         pc[t] \in {"search"} \cup Linking, pc'[t] \in {"search"} \cup Linking,
         job'[t].vec = job[t].vec, job'[t].node = job[t].node, job'[t].layer = job[t].layer
  PROVE  OwnNode(t)'
<1>1. NodeLayer(t) = job[t].layer /\ NodeLayer(t)' = job[t].layer
  BY DEF NodeLayer, Linking
<1>2. /\ job[t].node \in Nodes(job[t].layer)'
      /\ indexes'[job[t].layer][job[t].node] = job[t].vec
  BY <1>1, NodesFrame DEF OwnNode, Struct
<1> QED BY <1>1, <1>2 DEF OwnNode, Sinking, Linking

LEMMA FreshKept ==
  ASSUME NEW t, Struct, Fresh(t), Unlinked(t)' \subseteq Unlinked(t),
         job'[t].vec = job[t].vec,
         \A l \in Unlinked(t)' : \A n \in Nodes(l) : graph'[l][n] = graph[l][n]
  PROVE  Fresh(t)'
BY NodesFrame DEF Fresh, Struct

\* What the pieces of IInv say of a thread at work.
LEMMA AtWork ==
  ASSUME IInv, NEW t \in Threads
  PROVE  /\ pc \in [Threads -> Labels] /\ job \in [Threads -> Jobs]
         /\ hop \in [Threads -> Hops] /\ cands \in [Threads -> SUBSET Nat]
         /\ nbrs \in [Threads -> Seq(Nat)] /\ peer \in [Threads -> Nat]
         /\ layers \in Nat /\ storage \in Seq(Points)
         /\ job[t].top \in Layers /\ job[t].assigned \in Layers /\ job[t].layer \in Layers
         /\ job[t].node \in Nat /\ job[t].vec \in Nat
         /\ Layers \subseteq Nat /\ 0 \in Layers
         /\ \A l \in Layers : \A k \in Nat : k <= l => k \in Layers
         /\ graph \in [Layers -> Seq(Seq(Nat))] /\ indexes \in [Layers -> Seq(Nat)]
<1>1. TypeOK
  BY DEF IInv
<1>2. /\ pc \in [Threads -> Labels] /\ job \in [Threads -> Jobs]
      /\ hop \in [Threads -> Hops] /\ cands \in [Threads -> SUBSET Nat]
      /\ nbrs \in [Threads -> Seq(Nat)] /\ peer \in [Threads -> Nat]
      /\ storage \in Seq(Points) /\ layers \in 0 .. TopLayer + 1
      /\ graph \in [Layers -> Seq(Seq(Nat))] /\ indexes \in [Layers -> Seq(Nat)]
  BY <1>1 DEF TypeOK
<1>3. /\ job[t].top \in Layers /\ job[t].assigned \in Layers /\ job[t].layer \in Layers
      /\ job[t].node \in Nat /\ job[t].vec \in Nat
  BY <1>1, LocalTypes
<1>4. /\ Layers \subseteq Nat /\ 0 \in Layers /\ layers \in Nat
      /\ \A l \in Layers : \A k \in Nat : k <= l => k \in Layers
  BY <1>2, TopLayerType DEF Layers
<1> QED BY <1>2, <1>3, <1>4

\* The lists of the graph.
LEMMA Lists ==
  ASSUME IInv
  PROVE  \A l \in Layers :
           /\ graph[l] \in Seq(Seq(Nat)) /\ Len(graph[l]) = Len(indexes[l])
           /\ Len(graph[l]) \in Nat /\ Nodes(l) = 1 .. Len(graph[l])
           /\ \A n \in Nodes(l) : /\ graph[l][n] \in Seq(Nodes(l) \ {n})
                                  /\ graph[l][n] \in Seq(Nodes(l))
                                  /\ Len(graph[l][n]) \in Nat
                                  /\ ToSet(graph[l][n]) \subseteq Nodes(l) \ {n}
<1> SUFFICES ASSUME NEW l \in Layers
             PROVE  /\ graph[l] \in Seq(Seq(Nat)) /\ Len(graph[l]) = Len(indexes[l])
                    /\ Len(graph[l]) \in Nat /\ Nodes(l) = 1 .. Len(graph[l])
                    /\ \A n \in Nodes(l) : /\ graph[l][n] \in Seq(Nodes(l) \ {n})
                                           /\ graph[l][n] \in Seq(Nodes(l))
                                           /\ Len(graph[l][n]) \in Nat
                                           /\ ToSet(graph[l][n]) \subseteq Nodes(l) \ {n}
  OBVIOUS
<1>1. graph[l] \in Seq(Seq(Nat)) /\ Len(graph[l]) = Len(indexes[l])
  BY DEF IInv, TypeOK, LayersNested
<1>2. ASSUME NEW n \in Nodes(l)
      PROVE  /\ graph[l][n] \in Seq(Nodes(l) \ {n}) /\ graph[l][n] \in Seq(Nodes(l))
             /\ Len(graph[l][n]) \in Nat
             /\ ToSet(graph[l][n]) \subseteq Nodes(l) \ {n}
  <2>1. graph[l][n] \in Seq(Nodes(l) \ {n})
    BY DEF IInv, EdgesSound
  <2> DEFINE s == graph[l][n]
             N == Nodes(l) \ {n}
  <2>2. s \in Seq(N) /\ N \subseteq Nodes(l)
    BY <2>1
  <2> HIDE DEF s, N
  <2>3. s \in Seq(Nodes(l)) /\ Len(s) \in Nat /\ ToSet(s) \subseteq N
    BY <2>2, SeqIsMonotonic DEF ToSet
  <2> QED BY <2>1, <2>3 DEF s, N
<1>3. Nodes(l) = 1 .. Len(graph[l]) /\ Len(graph[l]) \in Nat
  BY <1>1 DEF Nodes
<1> QED BY <1>1, <1>2, <1>3

-----------------------------------------------------------------------------
(* The steps before the first link                                          *)

LEMMA ReadMaxLayerAlone ==
  ASSUME IInv, NEW t \in Threads, AloneInv(t), ReadMaxLayer(t)
  PROVE  AloneInv(t)'
<1>1. /\ pc[t] = "idle" /\ pc'[t] = "addNode" /\ job'[t].top = getMaxLayer
      /\ Struct /\ UNCHANGED <<storage, graph>>
  <2>1. /\ pc[t] = "idle" /\ pc' = [pc EXCEPT ![t] = "addNode"]
        /\ job' = [job EXCEPT ![t] = NewJob(Head(chunk[t]), getMaxLayer)]
        /\ Struct /\ UNCHANGED <<storage, graph>>
    BY DEF ReadMaxLayer, Goto, Struct, graphVars, indexVars
  <2>2. NewJob(Head(chunk[t]), getMaxLayer).top = getMaxLayer
    BY DEF NewJob
  <2> QED BY <2>1, <2>2, AtWork
<1>2. OwnNode(t)'
  <2>1. getMaxLayer' = getMaxLayer
    BY <1>1 DEF getMaxLayer, Struct
  <2> QED BY <1>1, <2>1 DEF OwnNode, Sinking, Linking
<1>3. Fresh(t)'
  BY <1>1 DEF Fresh, Unlinked, Sinking, Linking
<1>4. Linked(t)'
  BY <1>1, Calm DEF AloneInv, Linking
<1> QED BY <1>2, <1>3, <1>4 DEF AloneInv

LEMMA ExpandAlone ==
  ASSUME IInv, NEW t \in Threads, AloneInv(t), Expand(t)
  PROVE  AloneInv(t)'
<1>1. /\ pc[t] \in {"descend", "search"} /\ Struct
      /\ UNCHANGED <<storage, graph, pc, job>>
  BY DEF Expand, Struct, graphVars, indexVars
<1>2. OwnNode(t)'
  BY <1>1 DEF AloneInv, OwnNode, Struct, getMaxLayer, NodeLayer, Nodes
<1>3. Fresh(t)'
  BY <1>1 DEF AloneInv, Fresh, Struct, Unlinked, Nodes
<1>4. Linked(t)'
  BY <1>1, Calm DEF AloneInv, Linking
<1> QED BY <1>2, <1>3, <1>4 DEF AloneInv

\* While the job sinks, only its layer, entry and node change.
LEMMA Sinks ==
  ASSUME IInv, NEW t \in Threads, AloneInv(t), Struct, UNCHANGED <<storage, graph>>,
         pc[t] \in Sinking, pc'[t] \in Sinking, job'[t].vec = job[t].vec,
         job'[t].top = job[t].top, job'[t].assigned = job[t].assigned,
         pc'[t] = "remap" =>
           IF job[t].top < job[t].assigned
           THEN job'[t].layer \in job[t].top .. job[t].assigned
           ELSE job'[t].layer = job[t].top,
         NEW k, NodeLayer(t)' = k,
         job'[t].node \in Nodes(k), indexes[k][job'[t].node] = job[t].vec
  PROVE  AloneInv(t)'
<1>1. OwnNode(t)'
  <2>1. layers' = 1 + IF job'[t].top < job'[t].assigned THEN job'[t].assigned ELSE job'[t].top
    BY DEF AloneInv, OwnNode, Struct
  <2>2. /\ job'[t].node \in Nodes(NodeLayer(t))'
        /\ indexes'[NodeLayer(t)'][job'[t].node] = job'[t].vec
    BY DEF Struct, Nodes
  <2> QED BY <2>1, <2>2 DEF OwnNode, Sinking
<1>2. Fresh(t)'
  BY FreshKept DEF AloneInv, Unlinked
<1>3. Linked(t)'
  BY Calm DEF AloneInv, Linking, Sinking
<1> QED BY <1>1, <1>2, <1>3 DEF AloneInv

LEMMA DescendEndAlone ==
  ASSUME IInv, NEW t \in Threads, AloneInv(t), DescendEnd(t)
  PROVE  AloneInv(t)'
<1>1. PICK e : \E k :
        LET j == [job[t] EXCEPT !.entry = e, !.layer = k]
        IN /\ job' = [job EXCEPT ![t] = j]
           /\ \/ pc' = [pc EXCEPT ![t] = "descend"]
              \/ pc' = [pc EXCEPT ![t] = "readTop"]
  BY DEF DescendEnd, Goto
<1>2. PICK k :
        LET j == [job[t] EXCEPT !.entry = e, !.layer = k]
        IN /\ job' = [job EXCEPT ![t] = j]
           /\ \/ pc' = [pc EXCEPT ![t] = "descend"]
              \/ pc' = [pc EXCEPT ![t] = "readTop"]
  BY <1>1
<1>3. /\ pc[t] = "descend" /\ Struct /\ UNCHANGED <<storage, graph>>
  BY DEF DescendEnd, Struct, graphVars, indexVars
<1>4. /\ pc'[t] \in {"descend", "readTop"}
      /\ job'[t].vec = job[t].vec /\ job'[t].top = job[t].top
      /\ job'[t].assigned = job[t].assigned /\ job'[t].node = job[t].node
  <2>1. job[t] \in Jobs
    BY AtWork
  <2> QED BY <1>2, <2>1, AtWork DEF Jobs
<1>5. NodeLayer(t) = job[t].assigned /\ NodeLayer(t)' = job[t].assigned
  BY <1>3, <1>4 DEF NodeLayer
<1> QED BY <1>3, <1>4, <1>5, Sinks DEF AloneInv, OwnNode, Sinking

LEMMA ReadTopAlone ==
  ASSUME IInv, NEW t \in Threads, AloneInv(t), ReadTop(t)
  PROVE  AloneInv(t)'
<1>1. /\ pc[t] = "readTop" /\ pc'[t] = "remap" /\ Struct /\ UNCHANGED <<storage, graph>>
      /\ job'[t].vec = job[t].vec /\ job'[t].top = job[t].top
      /\ job'[t].assigned = job[t].assigned /\ job'[t].node = job[t].node
      /\ job'[t].layer = getMaxLayer
  <2>1. job[t] \in Jobs
    BY AtWork
  <2>2. /\ pc' = [pc EXCEPT ![t] = "remap"]
        /\ job' = [job EXCEPT ![t] = [job[t] EXCEPT !.layer = getMaxLayer]]
    BY AtWork DEF ReadTop, Goto
  <2> QED BY <2>1, <2>2, AtWork DEF ReadTop, Struct, graphVars, indexVars, Jobs
<1>2. layers = 1 + IF job[t].top < job[t].assigned THEN job[t].assigned ELSE job[t].top
  BY <1>1 DEF AloneInv, OwnNode, Sinking
<1>3. /\ job[t].top \in Nat /\ job[t].assigned \in Nat
      /\ getMaxLayer = IF job[t].top < job[t].assigned THEN job[t].assigned ELSE job[t].top
  <2>1. job[t].top \in Nat /\ job[t].assigned \in Nat
    BY AtWork
  <2>2. layers # 0
    BY <1>2, <2>1
  <2>3. layers - 1 = IF job[t].top < job[t].assigned THEN job[t].assigned ELSE job[t].top
    BY <1>2, <2>1
  <2> QED BY <2>1, <2>2, <2>3 DEF getMaxLayer
<1>4. NodeLayer(t) = job[t].assigned /\ NodeLayer(t)' = job[t].assigned
  BY <1>1, <1>3 DEF NodeLayer
<1>5. /\ job[t].node \in Nodes(job[t].assigned)
      /\ indexes[job[t].assigned][job[t].node] = job[t].vec
  BY <1>1, <1>4 DEF AloneInv, OwnNode, Sinking
<1>6. IF job[t].top < job[t].assigned
      THEN job'[t].layer \in job[t].top .. job[t].assigned ELSE job'[t].layer = job[t].top
  BY <1>1, <1>3
<1> QED BY <1>1, <1>4, <1>5, <1>6, Sinks DEF Sinking

\* One layer down, the node is still the node of its vector.
LEMMA OneDown ==
  ASSUME IInv, NEW l \in Layers, l > 0, NEW n \in Nodes(l)
  PROVE  /\ getDownwardsNode(l, n) \in Nodes(l - 1)
         /\ indexes[l - 1][getDownwardsNode(l, n)] = indexes[l][n]
<1>1. /\ Len(down[l]) = Len(indexes[l]) /\ down[l] \in Seq(Nat)
      /\ down[l][n] \in Nodes(l-1) /\ indexes[l-1][down[l][n]] = indexes[l][n]
  BY DEF IInv, LayersNested, TypeOK
<1>2. n \in DOMAIN down[l]
  BY <1>1 DEF Nodes
<1> QED BY <1>1, <1>2 DEF getDownwardsNode

LEMMA RemapAlone ==
  ASSUME IInv, NEW t \in Threads, AloneInv(t), Remap(t)
  PROVE  AloneInv(t)'
<1> DEFINE l == job[t].layer
           n == job[t].node
<1>1. /\ pc[t] = "remap" /\ pc'[t] = "remap" /\ l > job[t].top
      /\ Struct /\ UNCHANGED <<storage, graph>>
      /\ job'[t].vec = job[t].vec /\ job'[t].top = job[t].top
      /\ job'[t].assigned = job[t].assigned
      /\ job'[t].node = getDownwardsNode(l, n) /\ job'[t].layer = l - 1
  <2>1. job[t] \in Jobs
    BY AtWork
  <2>2. job' = [job EXCEPT ![t] = [job[t] EXCEPT !.node = getDownwardsNode(l, n),
                                                 !.layer = l - 1]]
    BY AtWork DEF Remap, NodeBelow
  <2>3. /\ job'[t].vec = job[t].vec /\ job'[t].top = job[t].top
        /\ job'[t].assigned = job[t].assigned
        /\ job'[t].node = getDownwardsNode(l, n) /\ job'[t].layer = l - 1
    BY <2>1, <2>2, AtWork DEF Jobs
  <2> QED BY <2>3 DEF Remap, Struct, graphVars, indexVars
<1>2. /\ l \in Nat /\ job[t].top \in Nat /\ job[t].assigned \in Nat /\ l \in Layers
  BY AtWork
<1>3. job[t].top < job[t].assigned /\ l \in job[t].top .. job[t].assigned
  BY <1>1, <1>2 DEF AloneInv, OwnNode
<1>4. NodeLayer(t) = l /\ NodeLayer(t)' = l - 1
  BY <1>1, <1>2, <1>3 DEF NodeLayer
<1>5. n \in Nodes(l) /\ indexes[l][n] = job[t].vec
  BY <1>1, <1>4 DEF AloneInv, OwnNode, Sinking
<1>6. job'[t].node \in Nodes(l - 1) /\ indexes[l - 1][job'[t].node] = job[t].vec
  BY <1>1, <1>2, <1>5, OneDown
<1>7. job'[t].layer \in job[t].top .. job[t].assigned
  BY <1>1, <1>2, <1>3
<1> HIDE DEF l, n
<1> QED BY <1>1, <1>3, <1>4, <1>6, <1>7, Sinks DEF Sinking

LEMMA RemapEndAlone ==
  ASSUME IInv, NEW t \in Threads, AloneInv(t), RemapEnd(t)
  PROVE  AloneInv(t)'
<1>1. /\ pc[t] = "remap" /\ pc'[t] = "search" /\ ~ (job[t].layer > job[t].top)
      /\ Struct /\ UNCHANGED <<storage, graph>>
      /\ job'[t].vec = job[t].vec /\ job'[t].node = job[t].node
      /\ job'[t].layer = FirstLinkedLayer(job[t])
  <2>1. job[t] \in Jobs /\ job[t].layer \in Nat /\ job[t].top \in Nat
    BY AtWork
  <2>2. /\ pc' = [pc EXCEPT ![t] = "search"]
        /\ job' = [job EXCEPT ![t] = [job[t] EXCEPT !.layer = FirstLinkedLayer(job[t])]]
    BY AtWork DEF RemapEnd, Goto
  <2> QED BY <2>1, <2>2, AtWork DEF RemapEnd, Struct, graphVars, indexVars, Jobs
<1>2. job[t].layer \in Nat /\ job[t].top \in Nat /\ job[t].assigned \in Nat
  BY AtWork
<1>3. NodeLayer(t) = FirstLinkedLayer(job[t])
  <2>1. IF job[t].top < job[t].assigned THEN job[t].layer \in job[t].top .. job[t].assigned
        ELSE job[t].layer = job[t].top
    BY <1>1 DEF AloneInv, OwnNode
  <2> QED BY <1>1, <1>2, <2>1 DEF NodeLayer, FirstLinkedLayer
<1>4. NodeLayer(t)' = FirstLinkedLayer(job[t])
  BY <1>1 DEF NodeLayer
<1>5. OwnNode(t)'
  BY <1>1, <1>3, <1>4 DEF AloneInv, OwnNode, Sinking, Linking, Struct, Nodes
<1>6. Fresh(t)'
  <2>1. Unlinked(t) = Layers /\ Unlinked(t)' = 0 .. FirstLinkedLayer(job[t])
    BY <1>1 DEF Unlinked, Sinking
  <2>2. FirstLinkedLayer(job[t]) \in Layers
    BY AtWork DEF FirstLinkedLayer
  <2>3. Unlinked(t)' \subseteq Unlinked(t)
    BY <2>1, <2>2, TopLayerType DEF Layers
  <2> QED BY <1>1, <2>3, FreshKept DEF AloneInv
<1>7. Linked(t)'
  BY <1>1, Calm DEF AloneInv, Linking
<1> QED BY <1>5, <1>6, <1>7 DEF AloneInv

-----------------------------------------------------------------------------
(* Steps of the client and the team                                         *)

LEMMA RestAlone ==
  ASSUME NEW t \in Threads, AloneInv(t),
         UNCHANGED <<storage, graphVars, pc, locals>>
  PROVE  AloneInv(t)'
<1>1. Struct /\ UNCHANGED <<storage, graph, pc, job, cands, nbrs, peer, hop>>
  BY DEF Struct, graphVars, locals
<1>2. OwnNode(t)' /\ Fresh(t)'
  BY <1>1 DEF AloneInv, OwnNode, Fresh, Unlinked, NodeLayer, getMaxLayer, Struct, Nodes
<1>3. Room(t)' /\ NoFault(t)' /\ Halfway(t)'
  BY <1>1 DEF AloneInv, Linked, Room, NoFault, Halfway, OwnList, Pruned
<1>4. Short(t)' /\ Mutual(t)' /\ Ordered'
  <2>1. Over(t)' = Over(t) /\ \A l, n, m : HalfEdge(t, l, n, m)' <=> HalfEdge(t, l, n, m)
    BY <1>1 DEF Over, HalfEdge, OwnList
  <2>2. Short(t)'
    BY <1>1, <2>1, NodesFrame DEF AloneInv, Linked, Short, max_neighbors
  <2> QED BY <1>1, <2>1, <2>2, MutualKept, OrderedKept DEF AloneInv, Linked
<1>5. InTurn(t)'
  <2>1. /\ Near(job[t].layer, job[t].node)' = Near(job[t].layer, job[t].node)
        /\ Near(0, Head(nbrs[t]))' = Near(0, Head(nbrs[t]))
    BY <1>1 DEF Struct, Near, Nodes, DistTo, VectorOf
  <2> QED BY <1>1, <2>1 DEF AloneInv, Linked, InTurn, OwnList, Ascending
<1> QED BY <1>2, <1>3, <1>4, <1>5 DEF AloneInv, Linked

\* A thread between two vectors claims nothing of the graph but its order.
LEMMA IdleAlone ==
  ASSUME NEW t, pc[t] = "idle"
  PROVE  AloneInv(t) <=>
           /\ \A l \in Layers : \A n \in Nodes(l) :
                /\ Len(graph[l][n]) <= max_neighbors
                /\ IsInjective(graph[l][n])
                /\ \A m \in ToSet(graph[l][n]) : n \in ToSet(graph[l][m])
           /\ Ordered
<1>1. OwnNode(t) /\ Fresh(t) /\ Room(t) /\ NoFault(t) /\ Halfway(t) /\ InTurn(t)
  BY DEF OwnNode, Fresh, Unlinked, Room, NoFault, Halfway, InTurn, Sinking, Linking
<1>2. Short(t) <=> \A l \in Layers : \A n \in Nodes(l) : Len(graph[l][n]) <= max_neighbors
  BY DEF Short, Over, Linking
<1>3. Mutual(t) <=> \A l \in Layers : \A n \in Nodes(l) :
                      /\ IsInjective(graph[l][n])
                      /\ \A m \in ToSet(graph[l][n]) : n \in ToSet(graph[l][m])
  BY DEF Mutual, HalfEdge
<1> QED BY <1>1, <1>2, <1>3 DEF AloneInv, Linked

LEMMA AddAlone ==
  ASSUME IInv, Shared, LayersOnce, NEW t \in Threads, AloneInv(t), Add
  PROVE  AloneInv(t)'
<1>1. PICK n \in BatchSizes : \E batch \in [1 .. n -> Points \ ToSet(storage)] :
        storage' = storage \o batch
  BY DEF Add
<1>2. PICK batch \in [1 .. n -> Points \ ToSet(storage)] : storage' = storage \o batch
  BY <1>1
<1>3. n \in Nat /\ storage \in Seq(Points) /\ batch \in Seq(Points)
  BY <1>1, ParameterAssumption, AtWork
<1>4. \A i \in 1 .. Len(storage) : storage'[i] = storage[i]
  BY <1>2, <1>3
<1>5. /\ Struct /\ graph' = graph /\ pc' = pc /\ pc[t] = "idle"
  BY DEF Add, Struct, graphVars, IInv, TeamAtRest
<1>6. Ordered'
  <2> SUFFICES ASSUME NEW l \in Layers, NEW m \in Nodes(l)
               PROVE  Ascending(Near(l, m)', graph[l][m])
    BY <1>5, NodesFrame DEF Ordered, Ascending
  <2>1. \A x \in Nodes(l) : VectorOf(l, x)' = VectorOf(l, x)
    BY <1>4, <1>5, NodeStored DEF VectorOf, Struct
  <2>2. Near(l, m)' = Near(l, m)
    BY <1>5, <2>1, NodesFrame DEF Near, DistTo
  <2> QED BY <2>2, <1>5, IdleAlone DEF Ordered
<1>7. pc'[t] = "idle"
  BY <1>5
<1>8. \A l \in Layers : \A m \in Nodes(l) :
        /\ Len(graph[l][m]) <= max_neighbors /\ IsInjective(graph[l][m])
        /\ \A k \in ToSet(graph[l][m]) : m \in ToSet(graph[l][k])
  BY <1>5, IdleAlone
<1>9. \A l \in Layers : \A m \in Nodes(l)' :
        /\ Len(graph'[l][m]) <= max_neighbors /\ IsInjective(graph'[l][m])
        /\ \A k \in ToSet(graph'[l][m]) : m \in ToSet(graph'[l][k])
  BY <1>5, <1>8, NodesFrame
<1>10. Short(t)' /\ Mutual(t)'
  BY <1>7, <1>9 DEF Short, Mutual, max_neighbors
<1>11. OwnNode(t)' /\ Fresh(t)' /\ Room(t)' /\ NoFault(t)' /\ Halfway(t)' /\ InTurn(t)'
  BY <1>7 DEF OwnNode, Fresh, Unlinked, Room, NoFault, Halfway, InTurn, Sinking, Linking
<1> QED BY <1>6, <1>10, <1>11 DEF AloneInv, Linked

\* With no node in any layer, an idle thread has nothing to show.
LEMMA EmptyAlone ==
  ASSUME NEW t, pc[t] = "idle", \A l \in Layers : Nodes(l) = {}
  PROVE  AloneInv(t)
BY IdleAlone DEF Ordered

LEMMA resetAlone ==
  ASSUME IInv, NEW t \in Threads, reset
  PROVE  AloneInv(t)'
<1>1. pc'[t] = "idle" /\ \A l \in Layers : Nodes(l)' = {}
  BY DEF reset, IInv, TeamAtRest, Nodes
<1>2. OwnNode(t)' /\ Fresh(t)' /\ Room(t)' /\ NoFault(t)' /\ Halfway(t)' /\ InTurn(t)'
  BY <1>1 DEF OwnNode, Fresh, Unlinked, Room, NoFault, Halfway, InTurn, Sinking, Linking
<1>3. Short(t)' /\ Mutual(t)' /\ Ordered'
  BY <1>1 DEF Short, Mutual, Ordered
<1> QED BY <1>2, <1>3 DEF AloneInv, Linked

-----------------------------------------------------------------------------
(* addNode                                                                  *)

\* The step appends the vector of t to the layers up to l.
NodeAdded(t, l) ==
  LET v == job[t].vec
      top == job[t].top
  IN /\ storage' = storage /\ layers' = IF layers <= l THEN l + 1 ELSE layers
     /\ pc'[t] = IF top > l THEN "descend" ELSE "readTop"
     /\ pc'[t] = "descend" => visited'[t] = {getEntryPoint}
     /\ job'[t].vec = v /\ job'[t].top = top /\ job'[t].assigned = l
     /\ job'[t].node = Len(indexes[l]) + 1 /\ job'[t].entry = getEntryPoint
     /\ job'[t].layer = top
     /\ \A k \in Layers :
          /\ Len(indexes[k]) \in Nat /\ Nodes(k) = 1 .. Len(indexes[k])
          /\ Len(graph[k]) = Len(indexes[k])
          /\ \/ /\ k <= l /\ Nodes(k)' = 1 .. Len(indexes[k]) + 1
                /\ indexes'[k] = Append(indexes[k], v) /\ graph'[k] = Append(graph[k], <<>>)
             \/ /\ ~ (k <= l) /\ indexes'[k] = indexes[k] /\ graph'[k] = graph[k]
                /\ Nodes(k)' = 1 .. Len(indexes[k])
          /\ \A n \in Nodes(k) :
               n \in Nodes(k)' /\ indexes'[k][n] = indexes[k][n] /\ graph'[k][n] = graph[k][n]
          /\ \A n \in Nodes(k)' : n \in Nodes(k) \/ graph'[k][n] = <<>>

LEMMA addNodeGrows ==
  ASSUME IInv, NEW t \in Threads, addNode(t)
  PROVE  \E l \in Layers : NodeAdded(t, l)
<1> DEFINE v == job[t].vec
           top == job[t].top
<1>1. PICK l \in Layers :
        LET j == [job[t] EXCEPT !.assigned = l,
                                !.node = Len(indexes[l]) + 1,
                                !.entry = getEntryPoint,
                                !.layer = job[t].top]
        IN /\ layers' = IF layers <= l THEN l + 1 ELSE layers
           /\ indexes' = [k \in Layers |->
                IF k <= l THEN PushBack(indexes[k], job[t].vec) ELSE indexes[k]]
           /\ down' = [k \in Layers |->
                IF k \in 1 .. l THEN PushBack(down[k], DownwardsEdge(k)) ELSE down[k]]
           /\ graph' = [k \in Layers |->
                IF k <= l THEN PushBack(graph[k], <<>>) ELSE graph[k]]
           /\ job' = [job EXCEPT ![t] = j]
           /\ IF j.top > l THEN StartSearch(t, j) /\ Goto(t, "descend")
              ELSE UNCHANGED <<visited, expanded>> /\ Goto(t, "readTop")
  BY Zenon DEF addNode
<1>2. /\ storage' = storage
      /\ pc'[t] = IF top > l THEN "descend" ELSE "readTop"
      /\ pc'[t] = "descend" => visited'[t] = {getEntryPoint}
      /\ job'[t].vec = v /\ job'[t].top = top /\ job'[t].assigned = l
      /\ job'[t].node = Len(indexes[l]) + 1 /\ job'[t].entry = getEntryPoint
      /\ job'[t].layer = top
  <2> DEFINE j == [job[t] EXCEPT !.assigned = l, !.node = Len(indexes[l]) + 1,
                                 !.entry = getEntryPoint, !.layer = job[t].top]
  <2>1. job[t] \in Jobs /\ pc \in [Threads -> Labels] /\ job \in [Threads -> Jobs]
        /\ visited \in [Threads -> SUBSET Nat]
    BY AtWork DEF IInv, TypeOK
  <2>2. /\ j.vec = v /\ j.top = top /\ j.assigned = l
        /\ j.node = Len(indexes[l]) + 1 /\ j.entry = getEntryPoint /\ j.layer = top
    BY <2>1 DEF Jobs
  <2> HIDE DEF j
  <2>3. /\ job' = [job EXCEPT ![t] = j]
        /\ IF j.top > l
           THEN /\ pc' = [pc EXCEPT ![t] = "descend"]
                /\ visited' = [visited EXCEPT ![t] = {j.entry}]
           ELSE pc' = [pc EXCEPT ![t] = "readTop"]
    <3>1. /\ job' = [job EXCEPT ![t] = j]
          /\ IF j.top > l THEN StartSearch(t, j) /\ Goto(t, "descend")
             ELSE UNCHANGED <<visited, expanded>> /\ Goto(t, "readTop")
      BY <1>1 DEF j
    <3> QED BY <3>1 DEF StartSearch, Goto
  <2>4. job'[t] = j
    BY <2>1, <2>3
  <2>5. /\ pc'[t] = IF top > l THEN "descend" ELSE "readTop"
        /\ pc'[t] = "descend" => visited'[t] = {getEntryPoint}
    BY <2>1, <2>2, <2>3
  <2> QED BY <2>2, <2>4, <2>5 DEF addNode, indexVars
<1>3. /\ l \in Nat /\ layers \in Nat /\ top \in Nat /\ v \in Nat
      /\ \A k \in Layers : k \in Nat
  BY AtWork
<1>4. \A k \in Layers :
        /\ Len(indexes[k]) \in Nat /\ Nodes(k) = 1 .. Len(indexes[k])
        /\ Len(graph[k]) = Len(indexes[k])
        /\ \/ /\ k <= l /\ Nodes(k)' = 1 .. Len(indexes[k]) + 1
              /\ indexes'[k] = Append(indexes[k], v) /\ graph'[k] = Append(graph[k], <<>>)
           \/ /\ ~ (k <= l) /\ indexes'[k] = indexes[k] /\ graph'[k] = graph[k]
              /\ Nodes(k)' = 1 .. Len(indexes[k])
  <2> TAKE k \in Layers
  <2>1. /\ indexes[k] \in Seq(Nat) /\ Len(graph[k]) = Len(indexes[k])
        /\ Len(Append(indexes[k], v)) = Len(indexes[k]) + 1
    BY <1>3, AtWork, Lists, AppendFacts
  <2>2. /\ indexes' = [i \in Layers |-> IF i <= l THEN Append(indexes[i], v) ELSE indexes[i]]
        /\ graph' = [i \in Layers |-> IF i <= l THEN Append(graph[i], <<>>) ELSE graph[i]]
    BY <1>1 DEF PushBack
  <2> QED BY <2>1, <2>2 DEF Nodes
<1>5. \A k \in Layers : \A n \in Nodes(k) :
        /\ n \in Nodes(k)' /\ indexes'[k][n] = indexes[k][n] /\ graph'[k][n] = graph[k][n]
  <2> TAKE k \in Layers
  <2> TAKE n \in Nodes(k)
  <2>1. /\ indexes[k] \in Seq(Nat) /\ graph[k] \in Seq(Seq(Nat)) /\ <<>> \in Seq(Nat)
        /\ n \in 1 .. Len(indexes[k]) /\ n \in 1 .. Len(graph[k])
    BY <1>4, AtWork
  <2>2. Append(indexes[k], v)[n] = indexes[k][n] /\ Append(graph[k], <<>>)[n] = graph[k][n]
    BY <1>3, <2>1, AppendFacts
  <2>3. n \in 1 .. Len(indexes[k]) + 1
    BY <1>4, <2>1
  <2> QED BY <1>4, <2>1, <2>2, <2>3
<1>6. \A k \in Layers : \A n \in Nodes(k)' : n \in Nodes(k) \/ graph'[k][n] = <<>>
  <2> TAKE k \in Layers
  <2> TAKE n \in Nodes(k)'
  <2>1. n \in Nodes(k) \/ (k <= l /\ n = Len(graph[k]) + 1)
    BY <1>4
  <2>2. graph[k] \in Seq(Seq(Nat)) /\ <<>> \in Seq(Nat)
    BY AtWork
  <2>3. Append(graph[k], <<>>)[Len(graph[k]) + 1] = <<>>
    BY <2>2, AppendFacts
  <2> QED BY <1>4, <2>1, <2>3
<1>7. layers' = IF layers <= l THEN l + 1 ELSE layers
  BY <1>1
<1> QED BY <1>2, <1>4, <1>5, <1>6, <1>7 DEF NodeAdded

LEMMA addNodeAlone ==
  ASSUME IInv, Shared, LayersOnce, NEW t \in Threads, AloneInv(t), addNode(t)
  PROVE  AloneInv(t)'
<1> DEFINE v == job[t].vec
           top == job[t].top
<1>1. PICK l \in Layers : NodeAdded(t, l)
  BY addNodeGrows
<1>2. /\ pc[t] = "addNode" /\ storage' = storage
      /\ pc'[t] \in {"descend", "readTop"}
      /\ job'[t].vec = v /\ job'[t].top = top /\ job'[t].assigned = l
      /\ job'[t].node = Len(indexes[l]) + 1
  BY <1>1 DEF NodeAdded, addNode
<1>3. /\ l \in Nat /\ layers \in Nat /\ top \in Nat /\ v \in Nat
      /\ \A k \in Layers : k \in Nat
  BY AtWork
<1>4. \A k \in Layers :
        /\ Len(indexes[k]) \in Nat /\ Nodes(k) = 1 .. Len(indexes[k])
        /\ Len(graph[k]) = Len(indexes[k])
        /\ \/ /\ k <= l /\ Nodes(k)' = 1 .. Len(indexes[k]) + 1
              /\ indexes'[k] = Append(indexes[k], v) /\ graph'[k] = Append(graph[k], <<>>)
           \/ /\ ~ (k <= l) /\ indexes'[k] = indexes[k] /\ graph'[k] = graph[k]
              /\ Nodes(k)' = 1 .. Len(indexes[k])
  BY <1>1 DEF NodeAdded
<1>5. \A k \in Layers : \A n \in Nodes(k) :
        /\ n \in Nodes(k)' /\ indexes'[k][n] = indexes[k][n] /\ graph'[k][n] = graph[k][n]
  BY <1>1 DEF NodeAdded
<1>6. \A k \in Layers : \A n \in Nodes(k)' : n \in Nodes(k) \/ graph'[k][n] = <<>>
  BY <1>1 DEF NodeAdded
<1>7. v \notin Indexed
  BY <1>2 DEF Shared, Owed
<1>8. OwnNode(t)'
  <2>1. layers' = 1 + IF job'[t].top < job'[t].assigned THEN job'[t].assigned ELSE job'[t].top
    <3>1. top = IF layers = 0 THEN 0 ELSE layers - 1
      BY <1>2 DEF AloneInv, OwnNode, getMaxLayer
    <3>2. layers' = IF layers <= l THEN l + 1 ELSE layers
      BY <1>1 DEF NodeAdded
    <3>3. layers' = 1 + IF top < l THEN l ELSE top
      BY <1>3, <3>1, <3>2
    <3> QED BY <1>2, <3>3
  <2>2. NodeLayer(t)' = l
    BY <1>2 DEF NodeLayer
  <2>3. Len(indexes[l]) + 1 \in Nodes(l)' /\ indexes'[l][Len(indexes[l]) + 1] = v
    <3>1. l <= l /\ indexes[l] \in Seq(Nat)
      BY <1>3, AtWork
    <3>2. Append(indexes[l], v)[Len(indexes[l]) + 1] = v
      BY <1>3, <3>1, AppendFacts
    <3> QED BY <1>4, <3>1, <3>2
  <2>4. job'[t].node \in Nodes(NodeLayer(t))' /\ indexes'[NodeLayer(t)'][job'[t].node] = job'[t].vec
    BY <1>2, <2>2, <2>3 DEF Nodes
  <2> QED BY <1>2, <2>1, <2>4 DEF OwnNode, Sinking
<1>9. Fresh(t)'
  <2> SUFFICES ASSUME NEW k \in Layers, NEW n \in Nodes(k)', indexes'[k][n] = v
               PROVE  graph'[k][n] = <<>>
    BY <1>2 DEF Fresh, Unlinked, Sinking
  <2>1. n \notin Nodes(k)
    <3> SUFFICES ASSUME n \in Nodes(k) PROVE FALSE
      OBVIOUS
    <3>1. indexes[k][n] = v /\ n \in DOMAIN indexes[k] /\ indexes[k] \in Seq(Nat)
      BY <1>4, <1>5, AtWork
    <3>2. v \in ToSet(indexes[k])
      BY <3>1 DEF ToSet
    <3> QED BY <1>7, <3>2 DEF LayersOnce
  <2> QED BY <1>6, <2>1
<1>10. /\ \A n \in {} : FALSE
       /\ ToSet(<<>>) = {} /\ IsInjective(<<>>) /\ Len(<<>>) = 0
       /\ \A k, n, m : ~ HalfEdge(t, k, n, m) /\ ~ HalfEdge(t, k, n, m)'
       /\ Over(t) = {}
  BY <1>2 DEF ToSet, IsInjective, HalfEdge, Over, Linking
<1>11. Mutual(t)'
  <2> SUFFICES ASSUME NEW k \in Layers, NEW n \in Nodes(k)'
               PROVE  /\ IsInjective(graph'[k][n])
                      /\ \A m \in ToSet(graph'[k][n]) : n \in ToSet(graph'[k][m])
    BY DEF Mutual
  <2>1. CASE n \in Nodes(k)
    <3>1. graph'[k][n] = graph[k][n] /\ \A m \in ToSet(graph[k][n]) : m \in Nodes(k)
      BY <1>5, <2>1, Lists
    <3> QED BY <1>5, <1>10, <2>1, <3>1 DEF AloneInv, Linked, Mutual
  <2>2. CASE graph'[k][n] = <<>>
    BY <1>10, <2>2
  <2> QED BY <1>6, <2>1, <2>2
<1>12. Short(t)'
  <2>1. max_neighbors >= 0
    BY ParameterAssumption DEF max_neighbors
  <2>2. \A k \in Layers : \A n \in Nodes(k)' : Len(graph'[k][n]) <= max_neighbors
    BY <1>5, <1>6, <1>10, <2>1 DEF AloneInv, Linked, Short
  <2> QED BY <2>2 DEF Short, max_neighbors
<1>13. Ordered'
  <2> SUFFICES ASSUME NEW k \in Layers, NEW n \in Nodes(k)'
               PROVE  Ascending(Near(k, n)', graph'[k][n])
    BY DEF Ordered, Ascending
  <2>1. CASE n \in Nodes(k)
    <3> DEFINE s == graph[k][n]
    <3>1. graph'[k][n] = s /\ Ascending(Near(k, n), s) /\ s \in Seq(Nodes(k))
      BY <1>5, <2>1, Lists DEF AloneInv, Linked, Ordered
    <3> HIDE DEF s
    <3>2. ASSUME NEW m \in Nodes(k) PROVE Near(k, n)'[m] = Near(k, n)[m]
      <4>1. VectorOf(k, m)' = VectorOf(k, m) /\ VectorOf(k, n)' = VectorOf(k, n)
        BY <1>2, <1>5, <2>1 DEF VectorOf
      <4>2. Near(k, n)'[m] = DistTo(k, VectorOf(k, n), m)'
        BY <1>5 DEF Near
      <4>3. Near(k, n)[m] = DistTo(k, VectorOf(k, n), m)
        BY DEF Near
      <4> QED BY <4>1, <4>2, <4>3 DEF DistTo
    <3>3. \A i \in 1 .. Len(s) : Near(k, n)[s[i]] = Near(k, n)'[s[i]]
      BY <3>1, <3>2
    <3>4. Ascending(Near(k, n)', s)
      BY <3>1, <3>3 DEF Ascending
    <3> QED BY <3>1, <3>4
  <2>2. CASE graph'[k][n] = <<>>
    BY <2>2 DEF Ascending
  <2> QED BY <1>6, <2>1, <2>2
<1>14. Room(t)' /\ NoFault(t)' /\ Halfway(t)' /\ InTurn(t)'
  BY <1>2 DEF Room, NoFault, Halfway, InTurn, Linking
<1> QED BY <1>8, <1>9, <1>11, <1>12, <1>13, <1>14 DEF AloneInv, Linked

-----------------------------------------------------------------------------
(* The third loop: steps that only read the lists                           *)

LEMMA MaxNeighbors ==
  /\ max_neighbors \in Nat /\ max_neighbors >= 1 /\ Mbeta \in Nat
  /\ Mbeta <= max_neighbors
  /\ two_hop_prune_cutoff \in Nat /\ two_hop_prune_cutoff <= max_neighbors
<1>1. M \in Nat /\ M >= 1 /\ gamma \in Nat /\ gamma >= 1
  BY ParameterAssumption
<1>2. M * gamma \in Nat /\ M * gamma >= 1
  <2>1. M * gamma \in Nat /\ M * gamma >= M
    BY <1>1, SMT
  <2> QED BY <1>1, <2>1
<1> DEFINE a == M * gamma
<1>3. a \in Nat /\ a >= 1 /\ Mbeta \in 0 .. a
  BY <1>2, ParameterAssumption
<1>4. max_neighbors = a /\ two_hop_prune_cutoff = Mbeta + (a - Mbeta) \div 5
  BY DEF max_neighbors, two_hop_prune_cutoff
<1> HIDE DEF a
<1>5. (a - Mbeta) \div 5 \in Nat /\ (a - Mbeta) \div 5 <= a - Mbeta
  <2>1. a - Mbeta \in Nat
    BY <1>3
  <2> DEFINE b == a - Mbeta
  <2>2. b \in Nat
    BY <2>1
  <2> HIDE DEF b
  <2>3. b \div 5 \in Nat /\ b \div 5 <= b
    BY <2>2
  <2> QED BY <2>3 DEF b
<1> QED BY <1>3, <1>4, <1>5

LEMMA SearchEndAlone ==
  ASSUME IInv, Shared, StoredOnce, LayersOnce, NEW t \in Threads, AloneInv(t), SearchEnd(t)
  PROVE  AloneInv(t)'
<1> DEFINE l == job[t].layer
           v == job[t].node
           heap == NearestOf(max_neighbors, l, Query(t), visited[t])
<1>1. /\ pc[t] = "search" /\ pc'[t] = "link" /\ Struct /\ UNCHANGED <<storage, graph>>
      /\ job'[t].vec = job[t].vec /\ job'[t].node = v /\ job'[t].layer = l
      /\ cands'[t] = heap
  <2>1. job[t] \in Jobs
    BY AtWork
  <2>2. /\ pc' = [pc EXCEPT ![t] = "link"] /\ pc[t] = "search"
        /\ \E e : job' = [job EXCEPT ![t] = [job[t] EXCEPT !.entry = e]]
        /\ cands' = [cands EXCEPT ![t] = heap]
        /\ Struct /\ UNCHANGED <<storage, graph>>
    BY AtWork DEF SearchEnd, Goto, Struct, graphVars, indexVars
  <2> HIDE DEF heap
  <2> QED BY <2>1, <2>2, AtWork DEF Jobs
<1>2. /\ l \in Layers /\ l \in Nat /\ v \in Nodes(l) /\ indexes[l][v] = job[t].vec
      /\ visited[t] \subseteq Nodes(l)
  <2>1. NodeLayer(t) = l
    BY <1>1 DEF NodeLayer
  <2>2. visited[t] \subseteq Nodes(l)
    BY <1>1 DEF IInv, HeldNodesExist, ReadNodesExist
  <2> QED BY <1>1, <2>1, <2>2, AtWork DEF AloneInv, OwnNode
<1>3. graph[l][v] = <<>>
  <2>1. l \in Unlinked(t)
    BY <1>1, <1>2 DEF Unlinked, Sinking
  <2> QED BY <1>2, <2>1 DEF AloneInv, Fresh
<1>4. IsFiniteSet(heap) /\ Cardinality(heap) <= max_neighbors /\ Cardinality(heap) \in Nat
  <2>1. Query(t) \in Points
    BY <1>2, NodeStored, AtWork DEF Query
  <2>2. IsFiniteSet(heap) /\ Cardinality(heap) <= max_neighbors
    BY <1>2, <2>1, HeapSize, MaxNeighbors
  <2> HIDE DEF heap
  <2> QED BY <2>2, FS_CardinalityType
<1> HIDE DEF heap
<1>5. OwnNode(t)'
  BY <1>1, OwnKept DEF AloneInv, Linking
<1>6. Fresh(t)'
  <2>1. Unlinked(t)' \subseteq Unlinked(t)
    BY <1>1, <1>2 DEF Unlinked, Sinking, Linking
  <2> QED BY <1>1, <2>1, FreshKept DEF AloneInv
<1>7. OwnList(t)' = <<>> /\ ToSet(<<>>) = {} /\ Len(<<>>) = 0
  BY <1>1, <1>3 DEF OwnList, ToSet
<1>8. Room(t)'
  <2>1. cands'[t] \cap ToSet(OwnList(t)') = {}
    BY <1>7
  <2>2. Cardinality(cands'[t]) + Len(OwnList(t)') <= max_neighbors
    BY <1>1, <1>4, <1>7, MaxNeighbors
  <2> QED BY <1>1, <2>1, <2>2 DEF Room, max_neighbors
<1>9. Over(t) = {} /\ \A k, n, m : ~ HalfEdge(t, k, n, m)
  BY <1>1 DEF Over, HalfEdge, Linking
<1>10. Short(t)' /\ Mutual(t)' /\ Ordered'
  BY <1>1, <1>9, ShortKept, MutualKept, OrderedKept, Lists DEF AloneInv, Linked
<1>11. NoFault(t)' /\ Halfway(t)'
  BY <1>1 DEF NoFault, Halfway
<1>12. InTurn(t)'
  BY <1>1, <1>7 DEF InTurn
<1> QED BY <1>5, <1>6, <1>8, <1>10, <1>11, <1>12 DEF AloneInv, Linked

\* A step of the third loop that leaves the lists and the job alone.
LEMMA ReadingStep ==
  ASSUME IInv, NEW t \in Threads, AloneInv(t), Struct, UNCHANGED <<storage, graph, job>>,
         pc[t] \in Linking, pc'[t] \in Linking,
         Room(t)', NoFault(t)', Halfway(t)', InTurn(t)',
         \A n \in Over(t) : Len(graph[job[t].layer][n]) <= max_neighbors \/ n \in Over(t)',
         \A l, n, m : HalfEdge(t, l, n, m) => HalfEdge(t, l, n, m)'
  PROVE  AloneInv(t)'
<1>1. OwnNode(t)' /\ Fresh(t)'
  BY OwnKept, FreshKept DEF AloneInv, Unlinked, Sinking, Linking
<1>2. Short(t)' /\ Mutual(t)' /\ Ordered'
  BY ShortKept, MutualKept, OrderedKept, Lists DEF AloneInv, Linked
<1> QED BY <1>1, <1>2 DEF AloneInv, Linked

LEMMA TailParts ==
  ASSUME NEW S, NEW s \in Seq(S), s # <<>>
  PROVE  ToSet(s) = {Head(s)} \cup ToSet(Tail(s))
<1>1. /\ Len(s) \in Nat /\ Len(s) >= 1 /\ DOMAIN s = 1 .. Len(s) /\ Head(s) = s[1]
      /\ DOMAIN Tail(s) = 1 .. Len(s) - 1
      /\ \A i \in 1 .. Len(s) - 1 : Tail(s)[i] = s[i + 1]
  OBVIOUS
<1> DEFINE a == Tail(s)
<1> HIDE DEF a
<1>2. ToSet(a) \subseteq ToSet(s) /\ Head(s) \in ToSet(s)
  BY <1>1 DEF ToSet, a
<1>3. ASSUME NEW i \in 1 .. Len(s) PROVE s[i] \in ToSet(a) \cup {Head(s)}
  <2>1. CASE i = 1
    BY <1>1, <2>1
  <2>2. CASE i # 1
    <3>1. i - 1 \in 1 .. Len(s) - 1 /\ Tail(s)[i - 1] = s[i]
      BY <1>1, <2>2
    <3> QED BY <1>1, <3>1 DEF ToSet, a
  <2> QED BY <2>1, <2>2
<1> QED BY <1>1, <1>2, <1>3 DEF ToSet, a

LEMMA ReadNeighborsAlone ==
  ASSUME IInv, NEW t \in Threads, AloneInv(t), ReadNeighbors(t)
  PROVE  AloneInv(t)'
<1>1. /\ pc[t] = "link" /\ pc'[t] = "check" /\ Struct /\ UNCHANGED <<storage, graph, job>>
      /\ nbrs'[t] = OwnList(t)
  <2>1. /\ pc' = [pc EXCEPT ![t] = "check"] /\ nbrs' = [nbrs EXCEPT ![t] = OwnList(t)]
    BY DEF ReadNeighbors, Goto, OwnList
  <2> QED BY <2>1, AtWork DEF ReadNeighbors, Struct, graphVars, indexVars
<1>2. Over(t)' = Over(t)
  BY <1>1 DEF Over, Linking, OwnList
<1>3. \A l, n, m : ~ HalfEdge(t, l, n, m)
  BY <1>1 DEF HalfEdge
<1>4. Room(t)' /\ NoFault(t)' /\ Halfway(t)' /\ InTurn(t)'
  BY <1>1 DEF Room, NoFault, Halfway, InTurn
<1> QED BY <1>1, <1>2, <1>3, <1>4, ReadingStep DEF Linking

\* The list that is checked next, or pruned.
LEMMA PrunedNode ==
  ASSUME IInv, NEW t \in Threads, pc[t] \in {"check"} \cup Pruning, nbrs[t] # <<>>
  PROVE  /\ job[t].layer \in Layers /\ job[t].layer \in Nat
         /\ nbrs[t] \in Seq(Nodes(job[t].layer))
         /\ Head(nbrs[t]) \in Nodes(job[t].layer)
         /\ Pruned(t) \in Seq(Nodes(job[t].layer) \ {Head(nbrs[t])})
         /\ Len(Pruned(t)) \in Nat
         /\ ToSet(nbrs[t]) = {Head(nbrs[t])} \cup ToSet(Tail(nbrs[t]))
<1>1. job[t].layer \in Layers /\ job[t].layer \in Nat
  BY AtWork
<1>2. nbrs[t] \in Seq(Nodes(job[t].layer))
  BY DEF IInv, HeldNodesExist, ReadNodesExist
<1>3. Head(nbrs[t]) \in Nodes(job[t].layer)
  BY <1>2, TailType
<1>4. Pruned(t) \in Seq(Nodes(job[t].layer) \ {Head(nbrs[t])}) /\ Len(Pruned(t)) \in Nat
  BY <1>1, <1>3, Lists DEF Pruned
<1>5. ToSet(nbrs[t]) = {Head(nbrs[t])} \cup ToSet(Tail(nbrs[t]))
  BY <1>2, TailParts
<1> QED BY <1>1, <1>2, <1>3, <1>4, <1>5

LEMMA CheckAlone ==
  ASSUME IInv, NEW t \in Threads, AloneInv(t), Check(t)
  PROVE  AloneInv(t)'
<1> DEFINE l == job[t].layer
<1>1. /\ pc[t] = "check" /\ nbrs[t] # <<>> /\ Struct /\ UNCHANGED <<storage, graph, job>>
      /\ \/ /\ Overfull(l, Len(Pruned(t))) /\ nbrs' = nbrs
            /\ \/ l > 0 /\ pc'[t] = "readLast"
               \/ ~ (l > 0) /\ pc'[t] = "twoHop"
         \/ /\ ~ Overfull(l, Len(Pruned(t)))
            /\ nbrs'[t] = Tail(nbrs[t]) /\ pc'[t] = "check"
  <2>1. \/ /\ Overfull(l, Len(Pruned(t))) /\ nbrs' = nbrs
           /\ pc' = [pc EXCEPT ![t] = IF l > 0 THEN "readLast" ELSE "twoHop"]
        \/ /\ ~ Overfull(l, Len(Pruned(t)))
           /\ nbrs' = [nbrs EXCEPT ![t] = Tail(nbrs[t])] /\ pc' = [pc EXCEPT ![t] = "check"]
    BY DEF Check, NextNeighbor, Goto, Pruned
  <2> QED BY <2>1, AtWork DEF Check, Struct, graphVars, indexVars
<1>2. /\ l \in Nat /\ Len(Pruned(t)) \in Nat /\ Pruned(t) \in Seq(Nodes(l) \ {Head(nbrs[t])})
      /\ ToSet(nbrs[t]) = {Head(nbrs[t])} \cup ToSet(Tail(nbrs[t]))
  BY <1>1, PrunedNode
<1>3. PruneLength(l) \in Nat /\ PruneLength(l) <= max_neighbors
  BY MaxNeighbors DEF PruneLength
<1>4. \A k, n, m : ~ HalfEdge(t, k, n, m)
  BY <1>1 DEF HalfEdge
<1>5. CASE nbrs' = nbrs /\ Overfull(l, Len(Pruned(t)))
  <2>1. pc'[t] \in {"readLast", "twoHop"} /\ Over(t)' = Over(t)
    BY <1>1, <1>5 DEF Over, Linking
  <2>2. NoFault(t)'
    <3>1. pc'[t] = "readLast" => Pruned(t) # <<>>
      <4> SUFFICES ASSUME pc'[t] = "readLast", Pruned(t) = <<>> PROVE FALSE
        OBVIOUS
      <4>1. l > 0 /\ Len(Pruned(t)) >= max_neighbors
        BY <1>1, <1>5 DEF Overfull, PruneLength
      <4>2. Len(Pruned(t)) = 0
        OBVIOUS
      <4> QED BY <4>1, <4>2, MaxNeighbors
    <3> QED BY <1>1, <1>5, <2>1, <3>1 DEF NoFault, Pruned
  <2>3. Room(t)' /\ Halfway(t)' /\ InTurn(t)'
    BY <2>1 DEF Room, Halfway, InTurn
  <2>4. pc'[t] \in Linking /\ pc[t] \in Linking
    BY <1>1, <2>1 DEF Linking
  <2> QED BY <1>1, <1>4, <2>1, <2>2, <2>3, <2>4, ReadingStep
<1>6. CASE ~ Overfull(l, Len(Pruned(t))) /\ nbrs'[t] = Tail(nbrs[t]) /\ pc'[t] = "check"
  <2>1. Len(Pruned(t)) <= max_neighbors
    BY <1>2, <1>3, <1>6, MaxNeighbors DEF Overfull
  <2>2. Over(t) = ToSet(nbrs[t]) /\ Over(t)' = ToSet(Tail(nbrs[t]))
    BY <1>1, <1>6 DEF Over, Linking
  <2>3. \A n \in Over(t) : Len(graph[l][n]) <= max_neighbors \/ n \in Over(t)'
    BY <1>2, <2>1, <2>2 DEF Pruned
  <2>4. Room(t)' /\ NoFault(t)' /\ Halfway(t)' /\ InTurn(t)'
    BY <1>6 DEF Room, NoFault, Halfway, InTurn
  <2> QED BY <1>1, <1>4, <1>6, <2>3, <2>4, ReadingStep DEF Linking
<1> QED BY <1>1, <1>5, <1>6

LEMMA ReadLastAlone ==
  ASSUME IInv, NEW t \in Threads, AloneInv(t), ReadLast(t)
  PROVE  AloneInv(t)'
<1>1. pc[t] = "readLast" /\ Struct /\ UNCHANGED <<storage, graph, job, nbrs>>
  BY DEF ReadLast, Struct, graphVars, indexVars
<1>2. Pruned(t) # <<>>
  BY <1>1 DEF AloneInv, Linked, NoFault
<1>3. pc'[t] = "popLast" /\ peer'[t] = Last(Pruned(t))
  <2>1. pc' = [pc EXCEPT ![t] = "popLast"] /\ peer' = [peer EXCEPT ![t] = Last(Pruned(t))]
    BY <1>2 DEF ReadLast, Goto, Pruned
  <2> QED BY <2>1, AtWork
<1>4. Over(t)' = Over(t) /\ \A l, n, m : ~ HalfEdge(t, l, n, m)
  BY <1>1, <1>3 DEF Over, HalfEdge, Linking
<1>5. Room(t)' /\ NoFault(t)' /\ Halfway(t)' /\ InTurn(t)'
  BY <1>1, <1>2, <1>3 DEF Room, NoFault, Halfway, InTurn, Pruned
<1> QED BY <1>1, <1>3, <1>4, <1>5, ReadingStep DEF Linking

LEMMA UnlinkEndAlone ==
  ASSUME IInv, NEW t \in Threads, AloneInv(t), UnlinkEnd(t)
  PROVE  AloneInv(t)'
<1>1. /\ pc[t] = "unlink" /\ pc'[t] = "check" /\ hop[t].disc = <<>>
      /\ nbrs'[t] = Tail(nbrs[t]) /\ Struct /\ UNCHANGED <<storage, graph, job>>
  <2>1. /\ nbrs' = [nbrs EXCEPT ![t] = Tail(nbrs[t])] /\ pc' = [pc EXCEPT ![t] = "check"]
    BY DEF UnlinkEnd, NextNeighbor, Goto
  <2> QED BY <2>1, AtWork DEF UnlinkEnd, Struct, graphVars, indexVars
<1>2. nbrs[t] # <<>>
  BY <1>1, PruningFacts
<1>3. Over(t) = ToSet(nbrs[t]) \ {Head(nbrs[t])} /\ Over(t)' = ToSet(Tail(nbrs[t]))
  BY <1>1 DEF Over, Linking
<1>4. Over(t) \subseteq Over(t)'
  BY <1>1, <1>2, <1>3, PrunedNode DEF Pruning
<1>5. \A l, n, m : ~ HalfEdge(t, l, n, m)
  BY <1>1 DEF HalfEdge, ToSet
<1>6. Room(t)' /\ NoFault(t)' /\ Halfway(t)' /\ InTurn(t)'
  BY <1>1 DEF Room, NoFault, Halfway, InTurn
<1> QED BY <1>1, <1>4, <1>5, <1>6, ReadingStep DEF Linking

LEMMA NextLayerAlone ==
  ASSUME IInv, NEW t \in Threads, AloneInv(t), NextLayer(t)
  PROVE  AloneInv(t)'
<1> DEFINE l == job[t].layer
           n == job[t].node
<1>1. pc[t] = "check" /\ nbrs[t] = <<>> /\ Struct /\ UNCHANGED <<storage, graph>>
  BY DEF NextLayer, Struct, graphVars, indexVars
<1>2. \/ /\ l - 1 >= 0 /\ pc'[t] = "search" /\ job'[t].vec = job[t].vec
         /\ job'[t].node = getDownwardsNode(l, n) /\ job'[t].layer = l - 1
      \/ pc'[t] = "idle"
  <2> DEFINE j == NodeBelow(job[t])
  <2>1. /\ j.vec = job[t].vec /\ j.node = getDownwardsNode(l, n) /\ j.layer = l - 1
    <3>1. job[t] \in Jobs
      BY AtWork
    <3> QED BY <3>1 DEF NodeBelow, Jobs
  <2>2. \/ j.layer >= 0 /\ pc' = [pc EXCEPT ![t] = "search"] /\ job' = [job EXCEPT ![t] = j]
        \/ pc' = [pc EXCEPT ![t] = "idle"]
    BY DEF NextLayer, Goto
  <2> HIDE DEF j
  <2> QED BY <2>1, <2>2, AtWork
<1>3. l \in Layers /\ l \in Nat
  BY AtWork
<1>4. n \in Nodes(l) /\ indexes[l][n] = job[t].vec
  <2>1. NodeLayer(t) = l /\ pc[t] \in Linking
    BY <1>1 DEF NodeLayer, Linking
  <2> QED BY <2>1 DEF AloneInv, OwnNode
<1>5. OwnNode(t)'
  <2>1. CASE pc'[t] = "idle"
    BY <2>1 DEF OwnNode, Sinking, Linking
  <2>2. CASE pc'[t] = "search"
    <3>1. /\ l > 0 /\ job'[t].vec = job[t].vec
          /\ job'[t].node = getDownwardsNode(l, n) /\ job'[t].layer = l - 1
      BY <1>2, <1>3, <2>2
    <3>2. job'[t].node \in Nodes(l - 1) /\ indexes[l - 1][job'[t].node] = job'[t].vec
      BY <1>3, <1>4, <3>1, OneDown
    <3>3. NodeLayer(t)' = l - 1
      BY <2>2, <3>1 DEF NodeLayer
    <3>4. /\ job'[t].node \in Nodes(NodeLayer(t))'
          /\ indexes'[NodeLayer(t)'][job'[t].node] = job'[t].vec
      BY <1>1, <3>2, <3>3 DEF Struct, Nodes
    <3> QED BY <2>2, <3>4 DEF OwnNode, Sinking
  <2> QED BY <1>2, <2>1, <2>2
<1>6. Fresh(t)'
  <2>1. CASE pc'[t] = "idle"
    BY <2>1 DEF Fresh, Unlinked, Sinking, Linking
  <2>2. CASE pc'[t] = "search"
    <3>1. job'[t].vec = job[t].vec /\ job'[t].layer = l - 1
      BY <1>2, <2>2
    <3>2. Unlinked(t)' = Unlinked(t)
      BY <1>1, <2>2, <3>1 DEF Unlinked, Sinking, Linking
    <3> QED BY <1>1, <3>1, <3>2, FreshKept DEF AloneInv
  <2> QED BY <1>2, <2>1, <2>2
<1>7. Over(t) = {} /\ \A k, x, m : ~ HalfEdge(t, k, x, m)
  BY <1>1 DEF Over, HalfEdge, Linking, ToSet
<1>8. Short(t)' /\ Mutual(t)' /\ Ordered'
  BY <1>1, <1>7, ShortKept, MutualKept, OrderedKept, Lists DEF AloneInv, Linked
<1>9. Room(t)' /\ NoFault(t)' /\ Halfway(t)' /\ InTurn(t)'
  BY <1>2 DEF Room, NoFault, Halfway, InTurn
<1> QED BY <1>5, <1>6, <1>8, <1>9 DEF AloneInv, Linked

-----------------------------------------------------------------------------
(* The third loop: steps that write lists                                   *)

LEMMA OneWritten ==
  ASSUME IInv, NEW l \in Layers, NEW n \in Nodes(l), NEW s \in Seq(Nodes(l)),
         graph' = [graph EXCEPT ![l][n] = s]
  PROVE  /\ \A k \in Layers \ {l} : \A m \in Nodes(k) : graph'[k][m] = graph[k][m]
         /\ graph'[l][n] = s
         /\ \A m \in Nodes(l) \ {n} : graph'[l][m] = graph[l][m]
<1>1. graph \in [Layers -> Seq(Seq(Nat))] /\ n \in 1 .. Len(graph[l])
  BY AtWork, Lists DEF IInv, TypeOK
<1>2. graph'[l] = [graph[l] EXCEPT ![n] = s] /\ \A k \in Layers \ {l} : graph'[k] = graph[k]
  BY <1>1
<1>3. \A m \in Nodes(l) : m \in 1 .. Len(graph[l])
  BY Lists
<1>4. graph[l] \in Seq(Seq(Nat))
  BY <1>1
<1> QED BY <1>1, <1>2, <1>3, <1>4

LEMMA LayerFinite ==
  ASSUME IInv, NEW l \in Layers, NEW S, S \subseteq Nodes(l)
  PROVE  IsFiniteSet(S) /\ Cardinality(S) \in Nat
<1>1. Len(graph[l]) \in Nat /\ Nodes(l) = 1 .. Len(graph[l])
  BY Lists
<1>2. IsFiniteSet(Nodes(l))
  BY <1>1, FS_Interval
<1> QED BY <1>2, FS_Subset, FS_CardinalityType

\* What the invariant says of one layer, and what is left to show of it.
LEMMA InLayer ==
  ASSUME IInv, NEW t \in Threads, AloneInv(t), NEW l \in Layers, NEW n \in Nodes(l)
  PROVE  /\ Len(graph[l][n]) \in Nat
         /\ \/ Len(graph[l][n]) <= max_neighbors
            \/ Len(graph[l][n]) = max_neighbors + 1 /\ l = job[t].layer /\ n \in Over(t)
         /\ IsInjective(graph[l][n])
         /\ \A m \in ToSet(graph[l][n]) :
              m \in Nodes(l) \ {n} /\ (n \in ToSet(graph[l][m]) \/ HalfEdge(t, l, n, m))
         /\ Ascending(Near(l, n), graph[l][n])
<1>1. /\ Len(graph[l][n]) \in Nat /\ ToSet(graph[l][n]) \subseteq Nodes(l) \ {n}
  BY Lists
<1>2. Short(t) /\ Mutual(t) /\ Ordered
  BY DEF AloneInv, Linked
<1> QED BY <1>1, <1>2 DEF Short, Mutual, Ordered

LEMMA WritingStep ==
  ASSUME IInv, NEW t \in Threads, AloneInv(t), Struct, UNCHANGED <<storage, job>>,
         pc[t] \in Linking, pc'[t] \in Linking,
         NEW l \in Layers, l = job[t].layer, pc'[t] = "unlink" => l = 0,
         \A k \in Layers \ {l} : \A m \in Nodes(k) : graph'[k][m] = graph[k][m],
         \A n \in Nodes(l) :
           /\ \/ Len(graph'[l][n]) <= max_neighbors
              \/ Len(graph'[l][n]) = max_neighbors + 1 /\ n \in Over(t)'
           /\ IsInjective(graph'[l][n])
           /\ \A m \in ToSet(graph'[l][n]) :
                n \in ToSet(graph'[l][m]) \/ HalfEdge(t, l, n, m)'
           /\ Ascending(Near(l, n), graph'[l][n]),
         Room(t)', NoFault(t)', Halfway(t)', InTurn(t)'
  PROVE  AloneInv(t)'
<1>1. OwnNode(t)'
  BY OwnKept DEF AloneInv
<1>2. Fresh(t)'
  <2>1. Unlinked(t)' = 0 .. l - 1 /\ Unlinked(t) = 0 .. l - 1
    BY DEF Unlinked, Sinking, Linking
  <2>2. Unlinked(t)' \subseteq Layers \ {l}
    BY <2>1, TopLayerType DEF Layers
  <2> QED BY <2>1, <2>2, FreshKept DEF AloneInv
<1>3. ASSUME NEW k \in Layers \ {l}, NEW n, NEW m PROVE ~ HalfEdge(t, k, n, m)
  <2>1. pc[t] = "unlink" => l = 0
    BY PruningFacts
  <2> QED BY <2>1 DEF HalfEdge
<1>4. Mutual(t)'
  <2> SUFFICES ASSUME NEW k \in Layers, NEW n \in Nodes(k)
               PROVE  /\ IsInjective(graph'[k][n])
                      /\ \A m \in ToSet(graph'[k][n]) :
                           n \in ToSet(graph'[k][m]) \/ HalfEdge(t, k, n, m)'
    BY NodesFrame DEF Mutual
  <2>1. CASE k # l
    <3>1. /\ IsInjective(graph[k][n])
          /\ \A m \in ToSet(graph[k][n]) : m \in Nodes(k) /\ n \in ToSet(graph[k][m])
      BY <1>3, <2>1, InLayer
    <3> QED BY <2>1, <3>1
  <2> QED BY <2>1
<1>5. Short(t)'
  <2>1. \A k \in Layers \ {l} : \A n \in Nodes(k) : Len(graph[k][n]) <= max_neighbors
    BY DEF AloneInv, Linked, Short
  <2>2. \A k \in Layers : \A n \in Nodes(k)' :
          \/ Len(graph'[k][n]) <= max_neighbors
          \/ Len(graph'[k][n]) = max_neighbors + 1 /\ k = l /\ n \in Over(t)'
    BY <2>1, NodesFrame
  <2> QED BY <2>2 DEF Short, max_neighbors
<1>6. Ordered'
  <2>1. \A k \in Layers : \A n \in Nodes(k) : Ascending(Near(k, n), graph'[k][n])
    <3> SUFFICES ASSUME NEW k \in Layers, NEW n \in Nodes(k), k # l
                 PROVE  Ascending(Near(k, n), graph'[k][n])
      OBVIOUS
    <3> QED BY InLayer
  <2> QED BY <2>1, NodesFrame, NearFrame DEF Ordered, Ascending
<1> QED BY <1>1, <1>2, <1>4, <1>5, <1>6 DEF AloneInv, Linked

-----------------------------------------------------------------------------
(* The two directions of an edge                                            *)

\* find_index leaves a list in order.
LEMMA InsertAscending ==
  ASSUME NEW S, NEW s \in Seq(S), NEW e \in S, NEW d \in [S -> Nat], Ascending(d, s),
         NEW i \in 1 .. Len(s) + 1, i > 1 => d[s[i - 1]] < d[e],
         i <= Len(s) => ~ (d[s[i]] < d[e])
  PROVE  Ascending(d, InsertAt(s, i, e))
<1> DEFINE r == InsertAt(s, i, e)
<1>1. /\ Len(r) = Len(s) + 1 /\ r[i] = e
      /\ \A k \in 1 .. i - 1 : r[k] = s[k]
      /\ \A k \in i + 1 .. Len(s) + 1 : r[k] = s[k - 1]
      /\ Len(s) \in Nat
  BY InsertFacts
<1> HIDE DEF r
<1>2. \A k \in 1 .. Len(s) : s[k] \in S /\ d[s[k]] \in Nat
  OBVIOUS
<1>3. \A j, k \in 1 .. Len(s) : j < k => d[s[j]] <= d[s[k]]
  BY DEF Ascending
<1>4. \A k \in 1 .. i - 1 : k \in 1 .. Len(s) /\ r[k] = s[k] /\ d[s[k]] <= d[e]
  <2> SUFFICES ASSUME NEW k \in 1 .. i - 1 PROVE k \in 1 .. Len(s) /\ d[s[k]] <= d[e]
    BY <1>1
  <2>1. i > 1 /\ i - 1 \in 1 .. Len(s) /\ k \in 1 .. Len(s)
    BY <1>1
  <2>2. d[s[k]] <= d[s[i - 1]]
    <3>1. CASE k = i - 1
      BY <1>2, <2>1, <3>1
    <3>2. CASE k # i - 1
      BY <1>3, <2>1, <3>2
    <3> QED BY <3>1, <3>2
  <2>3. d[e] \in Nat /\ d[s[k]] \in Nat /\ d[s[i - 1]] \in Nat
    BY <1>2, <2>1
  <2> QED BY <2>1, <2>2, <2>3
<1>5. \A k \in i + 1 .. Len(s) + 1 :
        k - 1 \in 1 .. Len(s) /\ r[k] = s[k - 1] /\ d[e] <= d[s[k - 1]]
  <2> SUFFICES ASSUME NEW k \in i + 1 .. Len(s) + 1
               PROVE  k - 1 \in 1 .. Len(s) /\ d[e] <= d[s[k - 1]]
    BY <1>1
  <2>1. i <= Len(s) /\ i \in 1 .. Len(s) /\ k - 1 \in 1 .. Len(s)
    BY <1>1
  <2>2. d[s[i]] <= d[s[k - 1]]
    <3>1. CASE k - 1 = i
      BY <1>2, <2>1, <3>1
    <3>2. CASE k - 1 # i
      BY <1>3, <2>1, <3>2
    <3> QED BY <3>1, <3>2
  <2>3. d[e] \in Nat /\ d[s[i]] \in Nat /\ d[s[k - 1]] \in Nat /\ ~ (d[s[i]] < d[e])
    BY <1>2, <2>1
  <2> QED BY <2>1, <2>2, <2>3
<1> SUFFICES ASSUME NEW j \in 1 .. Len(s) + 1, NEW k \in 1 .. Len(s) + 1, j < k
             PROVE  d[r[j]] <= d[r[k]]
  BY <1>1 DEF Ascending, r
<1>6. CASE j < i /\ k < i
  <2>1. j \in 1 .. i - 1 /\ k \in 1 .. i - 1
    BY <1>6
  <2> QED BY <1>3, <1>4, <2>1
<1>7. CASE j < i /\ k = i
  <2>1. j \in 1 .. i - 1
    BY <1>7
  <2> QED BY <1>1, <1>4, <1>7, <2>1
<1>8. CASE j < i /\ k > i
  <2>1. j \in 1 .. i - 1 /\ k \in i + 1 .. Len(s) + 1 /\ j < k - 1
    BY <1>1, <1>8
  <2> QED BY <1>3, <1>4, <1>5, <2>1
<1>9. CASE j = i
  <2>1. k \in i + 1 .. Len(s) + 1
    BY <1>1, <1>9
  <2> QED BY <1>1, <1>5, <1>9, <2>1
<1>10. CASE j > i
  <2>1. j \in i + 1 .. Len(s) + 1 /\ k \in i + 1 .. Len(s) + 1 /\ j - 1 < k - 1
    BY <1>1, <1>10
  <2> QED BY <1>3, <1>5, <2>1
<1> QED BY <1>6, <1>7, <1>8, <1>9, <1>10

LEMMA AppendAscending ==
  ASSUME NEW S, NEW s \in Seq(S), NEW e \in S, NEW d \in [S -> Nat], Ascending(d, s),
         \A x \in ToSet(s) : d[x] <= d[e]
  PROVE  Ascending(d, Append(s, e))
<1>1. /\ Len(s) \in Nat /\ Len(Append(s, e)) = Len(s) + 1
      /\ Append(s, e)[Len(s) + 1] = e /\ \A i \in 1 .. Len(s) : Append(s, e)[i] = s[i]
  BY AppendFacts
<1> DEFINE r == Append(s, e)
<1> HIDE DEF r
<1>2. \A i \in 1 .. Len(s) : s[i] \in ToSet(s)
  BY DEF ToSet
<1> SUFFICES ASSUME NEW j \in 1 .. Len(s) + 1, NEW k \in 1 .. Len(s) + 1, j < k
             PROVE  d[r[j]] <= d[r[k]]
  BY <1>1 DEF Ascending, r
<1>3. j \in 1 .. Len(s) /\ r[j] = s[j]
  BY <1>1 DEF r
<1>4. CASE k = Len(s) + 1
  BY <1>1, <1>2, <1>3, <1>4 DEF r
<1>5. CASE k # Len(s) + 1
  <2>1. k \in 1 .. Len(s) /\ r[k] = s[k]
    BY <1>1, <1>5 DEF r
  <2> QED BY <1>3, <2>1 DEF Ascending
<1> QED BY <1>4, <1>5

LEMMA SublistAscending ==
  ASSUME NEW d, NEW r, NEW s, Sublist(r, s), Ascending(d, s)
  PROVE  Ascending(d, r)
<1>1. PICK f \in [1 .. Len(r) -> 1 .. Len(s)] :
        /\ \A i \in 1 .. Len(r) : r[i] = s[f[i]]
        /\ \A i, j \in 1 .. Len(r) : i < j => f[i] < f[j]
  BY DEF Sublist
<1> SUFFICES ASSUME NEW i \in 1 .. Len(r), NEW k \in 1 .. Len(r), i < k
             PROVE  d[r[i]] <= d[r[k]]
  BY DEF Ascending
<1>2. f[i] \in 1 .. Len(s) /\ f[k] \in 1 .. Len(s) /\ f[i] < f[k]
  BY <1>1
<1> QED BY <1>1, <1>2 DEF Ascending

\* The vector of the new node is the one the search was made for.
LEMMA OwnVector ==
  ASSUME IInv, NEW t \in Threads, AloneInv(t), pc[t] \in Linking
  PROVE  /\ job[t].layer \in Layers /\ job[t].layer \in Nat
         /\ job[t].node \in Nodes(job[t].layer)
         /\ VectorOf(job[t].layer, job[t].node) = Query(t)
         /\ OwnList(t) \in Seq(Nodes(job[t].layer)) /\ Len(OwnList(t)) \in Nat
         /\ ToSet(OwnList(t)) \subseteq Nodes(job[t].layer) \ {job[t].node}
<1>1. NodeLayer(t) = job[t].layer
  BY DEF NodeLayer, Linking
<1>2. /\ job[t].node \in Nodes(job[t].layer)
      /\ indexes[job[t].layer][job[t].node] = job[t].vec
  BY <1>1 DEF AloneInv, OwnNode
<1> QED BY <1>2, AtWork, Lists DEF OwnList, VectorOf, Query

LEMMA LinkInAlone ==
  ASSUME IInv, Shared, LayersOnce, NEW t \in Threads, AloneInv(t), LinkIn(t)
  PROVE  AloneInv(t)'
<1> DEFINE l == job[t].layer
           v == job[t].node
           d == Near(l, v)
<1>1. PICK c \in Best(l, Query(t), cands[t]) :
        /\ cands' = [cands EXCEPT ![t] = cands[t] \ {c}]
        /\ IF RefusedEdge(c, v)
           THEN UNCHANGED <<graph, pc, peer>>
           ELSE /\ \E i \in InsertPositions(l, c, v) :
                     graph' = [graph EXCEPT ![l][c] = InsertAt(graph[l][c], i, v)]
                /\ peer' = [peer EXCEPT ![t] = c]
                /\ pc' = [pc EXCEPT ![t] = "linkBack"]
  BY DEF LinkIn, Goto
<1>2. /\ pc[t] = "link" /\ Struct /\ UNCHANGED <<storage, job, nbrs, hop>>
      /\ cands'[t] = cands[t] \ {c} /\ pc[t] \in Linking
  BY <1>1, AtWork DEF LinkIn, Struct, indexVars, Linking
<1>3. /\ l \in Layers /\ l \in Nat /\ v \in Nodes(l) /\ VectorOf(l, v) = Query(t)
      /\ OwnList(t) \in Seq(Nodes(l)) /\ Len(OwnList(t)) \in Nat
  BY <1>2, OwnVector
<1>4. cands[t] \subseteq Nodes(l) /\ c \in cands[t] /\ c \in Nodes(l)
  <2>1. cands[t] \subseteq Nodes(l)
    BY <1>2 DEF IInv, HeldNodesExist, ReadNodesExist
  <2> QED BY <2>1 DEF Best
<1>5. /\ IsFiniteSet(cands[t]) /\ Cardinality(cands[t]) \in Nat
      /\ IsFiniteSet(cands[t] \ {c}) /\ Cardinality(cands[t] \ {c}) = Cardinality(cands[t]) - 1
  <2>1. IsFiniteSet(cands[t]) /\ Cardinality(cands[t]) \in Nat
    BY <1>3, <1>4, LayerFinite
  <2> QED BY <1>4, <2>1, FS_RemoveElement
<1>6. /\ cands[t] \cap ToSet(OwnList(t)) = {}
      /\ Cardinality(cands[t]) + Len(OwnList(t)) <= max_neighbors
      /\ \A e \in cands[t], x \in ToSet(OwnList(t)) : d[x] <= d[e]
  BY <1>2 DEF AloneInv, Linked, Room, InTurn
<1>7. d \in [Nodes(l) -> Nat] /\ \A e \in cands[t] : d[c] <= d[e]
  <2>1. d \in [Nodes(l) -> Nat]
    BY <1>3, NearType
  <2>2. \A e \in cands[t] : ~ (DistTo(l, Query(t), e) < DistTo(l, Query(t), c))
    BY DEF Best, Closer
  <2>3. \A e \in Nodes(l) : d[e] = DistTo(l, Query(t), e)
    BY <1>3 DEF Near
  <2> HIDE DEF d
  <2>4. \A e \in cands[t] : d[e] \in Nat /\ d[c] \in Nat /\ ~ (d[e] < d[c])
    BY <1>4, <2>1, <2>2, <2>3
  <2> QED BY <2>1, <2>4
<1>8. Near(l, v)' = d
  BY <1>2, NearFrame
<1> HIDE DEF d
<1>9. CASE c = v
  <2>1. UNCHANGED <<graph, pc, peer>>
    BY <1>1, <1>9 DEF RefusedEdge
  <2>2. OwnList(t)' = OwnList(t)
    BY <1>2, <2>1 DEF OwnList
  <2>3. Room(t)'
    <3>1. Cardinality(cands'[t]) + Len(OwnList(t)') <= max_neighbors
      BY <1>2, <1>3, <1>5, <1>6, <2>2, MaxNeighbors
    <3>2. cands'[t] \cap ToSet(OwnList(t)') = {}
      BY <1>2, <1>6, <2>2
    <3> QED BY <1>2, <2>1, <3>1, <3>2 DEF Room, max_neighbors
  <2>4. InTurn(t)'
    BY <1>2, <1>6, <1>8, <2>1, <2>2 DEF InTurn, d
  <2>5. NoFault(t)' /\ Halfway(t)'
    BY <1>2, <2>1 DEF NoFault, Halfway
  <2>6. Over(t)' = Over(t) /\ \A k, n, m : ~ HalfEdge(t, k, n, m)
    BY <1>2, <2>1, <2>2 DEF Over, HalfEdge
  <2> QED BY <1>2, <2>1, <2>3, <2>4, <2>5, <2>6, ReadingStep DEF Linking
<1>10. CASE c # v
  <2>1. PICK i \in InsertPositions(l, c, v) :
          graph' = [graph EXCEPT ![l][c] = InsertAt(graph[l][c], i, v)]
    BY <1>1, <1>10 DEF RefusedEdge
  <2>2. pc'[t] = "linkBack" /\ peer'[t] = c
    BY <1>1, <1>10, AtWork DEF RefusedEdge
  <2> DEFINE s == graph[l][c]
             r == InsertAt(s, i, v)
             e == Near(l, c)
  <2>3. /\ s \in Seq(Nodes(l)) /\ Len(s) \in Nat /\ IsInjective(s) /\ Ascending(e, s)
        /\ e \in [Nodes(l) -> Nat] /\ \A m \in Nodes(l) : e[m] = DistTo(l, VectorOf(l, c), m)
    BY <1>3, <1>4, Lists, InLayer, NearType DEF Near
  <2>4. /\ i \in 1 .. Len(s) + 1 /\ (i > 1 => e[s[i - 1]] < e[v])
        /\ (i <= Len(s) => ~ (e[s[i]] < e[v]))
    <3>1. /\ i \in 1 .. Len(s) + 1
          /\ i > 1 => Closer(l, VectorOf(l, c), s[i - 1], v)
          /\ i <= Len(s) => ~ Closer(l, VectorOf(l, c), s[i], v)
      BY <2>1 DEF InsertPositions
    <3>2. (i > 1 => s[i - 1] \in Nodes(l)) /\ (i <= Len(s) => s[i] \in Nodes(l))
      BY <2>3, <3>1
    <3> HIDE DEF s, e
    <3> QED BY <1>3, <2>3, <3>1, <3>2 DEF Closer
  <2>5. v \notin ToSet(s)
    <3> SUFFICES ASSUME v \in ToSet(s) PROVE FALSE
      OBVIOUS
    <3>1. c \in ToSet(graph[l][v]) \/ HalfEdge(t, l, c, v)
      BY <1>3, <1>4, InLayer
    <3> QED BY <1>2, <1>4, <1>6, <3>1 DEF HalfEdge, OwnList
  <2>6. Len(s) <= max_neighbors
    <3>1. c \notin Over(t)
      BY <1>2, <1>4, <1>6 DEF Over
    <3> QED BY <1>3, <1>4, <3>1, InLayer
  <2>7. /\ r \in Seq(Nodes(l)) /\ Len(r) = Len(s) + 1 /\ ToSet(r) = ToSet(s) \cup {v}
        /\ IsInjective(r) /\ Ascending(e, r)
    <3> DEFINE N == Nodes(l)
    <3>1. s \in Seq(N) /\ v \in N /\ e \in [N -> Nat]
      BY <1>3, <2>3
    <3> HIDE DEF s, e, v, N
    <3>2. Ascending(e, r)
      BY <2>3, <2>4, <3>1, InsertAscending
    <3>3. /\ r \in Seq(N) /\ Len(r) = Len(s) + 1 /\ ToSet(r) = ToSet(s) \cup {v}
          /\ IsInjective(s) /\ v \notin ToSet(s) => IsInjective(r)
      BY <2>4, <3>1, InsertFacts
    <3> QED BY <2>3, <2>5, <3>2, <3>3 DEF N
  <2>8. /\ \A k \in Layers \ {l} : \A m \in Nodes(k) : graph'[k][m] = graph[k][m]
        /\ graph'[l][c] = r
        /\ \A m \in Nodes(l) \ {c} : graph'[l][m] = graph[l][m]
    <3> HIDE DEF r
    <3>1. graph' = [graph EXCEPT ![l][c] = r]
      BY <2>1 DEF r
    <3> QED BY <1>3, <1>4, <2>7, <3>1, OneWritten
  <2> HIDE DEF r
  <2>9. OwnList(t)' = OwnList(t) /\ OwnList(t) = graph[l][v]
    BY <1>2, <1>3, <1>10, <2>8 DEF OwnList
  <2>10. Over(t)' = ToSet(OwnList(t)) \cup {c} /\ Over(t) = ToSet(OwnList(t))
    BY <1>2, <2>2, <2>9 DEF Over
  <2>11. \A k, n, m : ~ HalfEdge(t, k, n, m)
    BY <1>2 DEF HalfEdge
  <2>12. HalfEdge(t, l, c, v)'
    BY <1>2, <2>2 DEF HalfEdge
  <2>13. ASSUME NEW n \in Nodes(l)
         PROVE  /\ \/ Len(graph'[l][n]) <= max_neighbors
                   \/ Len(graph'[l][n]) = max_neighbors + 1 /\ n \in Over(t)'
                /\ IsInjective(graph'[l][n])
                /\ \A m \in ToSet(graph'[l][n]) :
                     n \in ToSet(graph'[l][m]) \/ HalfEdge(t, l, n, m)'
                /\ Ascending(Near(l, n), graph'[l][n])
    <3>1. /\ Len(graph[l][n]) \in Nat
          /\ \/ Len(graph[l][n]) <= max_neighbors
             \/ Len(graph[l][n]) = max_neighbors + 1 /\ n \in Over(t)
          /\ IsInjective(graph[l][n]) /\ Ascending(Near(l, n), graph[l][n])
          /\ \A m \in ToSet(graph[l][n]) : m \in Nodes(l) \ {n} /\ n \in ToSet(graph[l][m])
      BY <1>3, <2>11, InLayer
    <3>2. \A m \in Nodes(l) : ToSet(graph[l][m]) \subseteq ToSet(graph'[l][m])
      BY <2>7, <2>8
    <3>3. CASE n = c
      <4>1. Len(r) <= max_neighbors \/ Len(r) = max_neighbors + 1
        <5>1. Len(s) \in Nat /\ Len(s) <= max_neighbors /\ Len(r) = Len(s) + 1
          BY <2>3, <2>6, <2>7
        <5> HIDE DEF s
        <5> QED BY <5>1, MaxNeighbors
      <4>2. \A m \in ToSet(r) : m = v \/ c \in ToSet(graph'[l][m])
        BY <2>7, <3>1, <3>2, <3>3
      <4>3. /\ graph'[l][n] = r /\ n \in Over(t)'
            /\ IsInjective(r) /\ Ascending(Near(l, n), r)
        BY <2>7, <2>8, <2>10, <3>3
      <4>4. \A m \in ToSet(r) : n \in ToSet(graph'[l][m]) \/ HalfEdge(t, l, n, m)'
        <5>1. l' = l
          BY <1>2
        <5>2. ASSUME NEW m \in ToSet(r), m = v PROVE HalfEdge(t, l, n, m)'
          BY <1>2, <2>2, <3>3, <5>2 DEF HalfEdge
        <5> QED BY <3>3, <4>2, <5>2
      <4> HIDE DEF l, e, s
      <4> QED BY <4>1, <4>3, <4>4
    <3>4. CASE n # c
      <4>1. graph'[l][n] = graph[l][n]
        BY <2>8, <3>4
      <4> QED BY <2>10, <3>1, <3>2, <4>1
    <3> QED BY <3>3, <3>4
  <2>14. Room(t)'
    <3>1. Cardinality(cands'[t]) + Len(OwnList(t)') < max_neighbors
      BY <1>2, <1>3, <1>5, <1>6, <2>9, MaxNeighbors
    <3>2. /\ cands'[t] \cap ToSet(OwnList(t)') = {}
          /\ c \notin cands'[t] \cup ToSet(OwnList(t)')
      BY <1>2, <1>4, <1>6, <2>9
    <3> QED BY <2>2, <3>1, <3>2 DEF Room, max_neighbors
  <2>15. NoFault(t)' /\ Halfway(t)'
    <3>1. v \in ToSet(graph'[l][c])
      BY <2>7, <2>8
    <3> QED BY <1>2, <2>2, <3>1 DEF NoFault, Halfway
  <2>16. InTurn(t)'
    <3>1. /\ \A b \in cands'[t], x \in ToSet(OwnList(t)') : d[x] <= d[b]
          /\ \A x \in ToSet(OwnList(t)') : d[x] <= d[c]
          /\ \A b \in cands'[t] : d[c] <= d[b]
      BY <1>2, <1>4, <1>6, <1>7, <2>9
    <3> QED BY <1>2, <1>8, <2>2, <3>1 DEF InTurn, d
  <2>17. pc'[t] \in Linking /\ pc'[t] # "unlink"
    BY <2>2 DEF Linking
  <2> HIDE DEF s, e
  <2> QED BY <1>2, <1>3, <2>8, <2>13, <2>14, <2>15, <2>16, <2>17, WritingStep
<1> QED BY <1>9, <1>10

LEMMA LinkBackAlone ==
  ASSUME IInv, Shared, LayersOnce, NEW t \in Threads, AloneInv(t), LinkBack(t)
  PROVE  AloneInv(t)'
<1> DEFINE l == job[t].layer
           v == job[t].node
           d == Near(l, v)
           s == graph[l][v]
           p == peer[t]
           r == Append(s, p)
<1>1. /\ pc[t] = "linkBack" /\ pc'[t] = "link" /\ Struct
      /\ UNCHANGED <<storage, job, nbrs, hop, cands>> /\ pc[t] \in Linking
      /\ graph' = [graph EXCEPT ![l][v] = r]
  BY AtWork DEF LinkBack, Goto, Struct, indexVars, Linking
<1>2. /\ l \in Layers /\ l \in Nat /\ v \in Nodes(l) /\ OwnList(t) = s
      /\ s \in Seq(Nodes(l)) /\ Len(s) \in Nat
  BY <1>1, OwnVector DEF OwnList
<1>3. p \in Nodes(l) \ {v} /\ cands[t] \subseteq Nodes(l)
  BY <1>1 DEF IInv, HeldNodesExist, ReadNodesExist
<1>4. /\ cands[t] \cap ToSet(s) = {} /\ p \notin cands[t] \cup ToSet(s)
      /\ Cardinality(cands[t]) + Len(s) < max_neighbors
      /\ \A e \in cands[t], x \in ToSet(s) : d[x] <= d[e]
      /\ \A x \in ToSet(s) : d[x] <= d[p]
      /\ \A e \in cands[t] : d[p] <= d[e]
      /\ v \in ToSet(graph[l][p])
  BY <1>1, <1>2 DEF AloneInv, Linked, Room, InTurn, Halfway
<1>5. Cardinality(cands[t]) \in Nat
  BY <1>2, <1>3, LayerFinite
<1>6. /\ r \in Seq(Nodes(l)) /\ Len(r) = Len(s) + 1 /\ ToSet(r) = ToSet(s) \cup {p}
      /\ IsInjective(r) /\ Ascending(d, r)
  <2>1. IsInjective(s) /\ Ascending(d, s) /\ d \in [Nodes(l) -> Nat]
    BY <1>2, InLayer, NearType
  <2> HIDE DEF s, d, p
  <2> QED BY <1>2, <1>3, <1>4, <2>1, AppendFacts, AppendOnce, AppendAscending
<1>7. Near(l, v)' = d
  BY <1>1, NearFrame
<1>8. /\ \A k \in Layers \ {l} : \A m \in Nodes(k) : graph'[k][m] = graph[k][m]
      /\ graph'[l][v] = r
      /\ \A m \in Nodes(l) \ {v} : graph'[l][m] = graph[l][m]
  <2> HIDE DEF r
  <2> QED BY <1>1, <1>2, <1>6, OneWritten
<1> HIDE DEF r, d
<1>9. OwnList(t)' = r
  BY <1>1, <1>8 DEF OwnList
<1>10. Over(t)' = ToSet(r) /\ Over(t) = ToSet(r)
  BY <1>1, <1>2, <1>6, <1>9 DEF Over
<1>11. ASSUME NEW n \in Nodes(l)
       PROVE  /\ \/ Len(graph'[l][n]) <= max_neighbors
                 \/ Len(graph'[l][n]) = max_neighbors + 1 /\ n \in Over(t)'
              /\ IsInjective(graph'[l][n])
              /\ \A m \in ToSet(graph'[l][n]) :
                   n \in ToSet(graph'[l][m]) \/ HalfEdge(t, l, n, m)'
              /\ Ascending(Near(l, n), graph'[l][n])
  <2>1. /\ Len(graph[l][n]) \in Nat
        /\ \/ Len(graph[l][n]) <= max_neighbors
           \/ Len(graph[l][n]) = max_neighbors + 1 /\ n \in Over(t)
        /\ IsInjective(graph[l][n]) /\ Ascending(Near(l, n), graph[l][n])
        /\ \A m \in ToSet(graph[l][n]) :
             m \in Nodes(l) \ {n} /\ (n \in ToSet(graph[l][m]) \/ (n = p /\ m = v))
    BY <1>1, <1>2, InLayer DEF HalfEdge
  <2>2. /\ \A m \in Nodes(l) : ToSet(graph[l][m]) \subseteq ToSet(graph'[l][m])
        /\ p \in ToSet(graph'[l][v])
    BY <1>6, <1>8
  <2>3. CASE n = v
    <3>1. Len(r) <= max_neighbors
      BY <1>2, <1>4, <1>5, <1>6, MaxNeighbors
    <3>2. \A m \in ToSet(r) : v \in ToSet(graph'[l][m])
      BY <1>2, <1>3, <1>4, <1>6, <2>1, <2>2, <2>3
    <3> QED BY <1>6, <1>8, <2>3, <3>1, <3>2 DEF d
  <2>4. CASE n # v
    <3>1. graph'[l][n] = graph[l][n]
      BY <1>8, <2>4
    <3> QED BY <1>10, <2>1, <2>2, <3>1
  <2> QED BY <2>3, <2>4
<1>12. Room(t)'
  <2>1. /\ Cardinality(cands'[t]) + Len(OwnList(t)') <= max_neighbors
        /\ cands'[t] \cap ToSet(OwnList(t)') = {}
    BY <1>1, <1>2, <1>4, <1>5, <1>6, <1>9, MaxNeighbors
  <2> QED BY <1>1, <2>1 DEF Room, max_neighbors
<1>13. NoFault(t)' /\ Halfway(t)'
  BY <1>1 DEF NoFault, Halfway
<1>14. InTurn(t)'
  <2>1. \A e \in cands'[t], x \in ToSet(OwnList(t)') : d[x] <= d[e]
    BY <1>1, <1>4, <1>6, <1>9
  <2> QED BY <1>1, <1>7, <2>1 DEF InTurn, d
<1> QED BY <1>1, <1>2, <1>8, <1>11, <1>12, <1>13, <1>14, WritingStep DEF Linking

-----------------------------------------------------------------------------
(* removeLast                                                               *)

LEMMA PopLastAlone ==
  ASSUME IInv, NEW t \in Threads, AloneInv(t), PopLast(t)
  PROVE  AloneInv(t)'
<1> DEFINE l == job[t].layer
           h == Head(nbrs[t])
           p == peer[t]
           s == graph[l][h]
           q == graph[l][p]
<1>1. pc[t] = "popLast" /\ p # h /\ Struct /\ UNCHANGED <<storage, job, hop, cands>>
  BY DEF PopLast, Struct, indexVars
<1>2. s # <<>> /\ p = Last(s)
  BY <1>1 DEF AloneInv, Linked, NoFault, Pruned
<1>3. /\ l \in Layers /\ h \in Nodes(l) /\ p \in Nodes(l)
      /\ s \in Seq(Nodes(l)) /\ q \in Seq(Nodes(l)) /\ Len(s) \in Nat /\ Len(q) \in Nat
      /\ ToSet(nbrs[t]) = {h} \cup ToSet(Tail(nbrs[t]))
  <2>1. nbrs[t] # <<>> /\ p \in Nodes(l)
    BY <1>1 DEF IInv, HeldNodesExist, ReadNodesExist, Pruning
  <2>2. /\ l \in Layers /\ h \in Nodes(l)
        /\ ToSet(nbrs[t]) = {h} \cup ToSet(Tail(nbrs[t]))
    BY <1>1, <2>1, PrunedNode DEF Pruning
  <2> QED BY <2>1, <2>2, Lists
<1>4. PICK rest \in Erased(q, h) : graph' = [graph EXCEPT ![l][h] = Front(s), ![l][p] = rest]
  <2>1. \E rest \in Erased(graph[l][p], h) :
          graph' = [graph EXCEPT ![l][h] = Front(@), ![l][p] = rest]
    BY <1>2 DEF PopLast
  <2> QED BY <2>1
<1>5. pc'[t] = "check" /\ nbrs'[t] = Tail(nbrs[t])
  <2>1. pc' = [pc EXCEPT ![t] = "check"] /\ nbrs' = [nbrs EXCEPT ![t] = Tail(nbrs[t])]
    BY <1>2 DEF PopLast, NextNeighbor, Goto
  <2> QED BY <2>1, AtWork
<1> DEFINE front == Front(s)
           N == Nodes(l)
<1>6. /\ front \in Seq(N) /\ Sublist(front, s) /\ Len(front) = Len(s) - 1
      /\ ToSet(s) = ToSet(front) \cup {p} /\ (IsInjective(s) => p \notin ToSet(front))
  <2>1. s \in Seq(N) /\ s # <<>> /\ p = Last(s)
    BY <1>2, <1>3
  <2> HIDE DEF s, N, p
  <2> QED BY <2>1, FrontFacts
<1>7. /\ rest \in Seq(N) /\ Sublist(rest, q) /\ Len(rest) <= Len(q)
      /\ ToSet(q) \ {h} \subseteq ToSet(rest) /\ (IsInjective(q) => h \notin ToSet(rest))
  <2>1. q \in Seq(N) /\ rest \in Erased(q, h)
    BY <1>3, <1>4
  <2> HIDE DEF q, N, h
  <2> QED BY <2>1, ErasedFacts
<1>8. ToSet(rest) \subseteq ToSet(q)
  <2>1. q \in Seq(N) /\ rest \in Seq(N) /\ Sublist(rest, q)
    BY <1>3, <1>7
  <2> HIDE DEF q, N
  <2> QED BY <2>1, SublistOnce
<1> HIDE DEF front
<1>9. /\ \A k \in Layers \ {l} : \A m \in Nodes(k) : graph'[k][m] = graph[k][m]
      /\ graph'[l][h] = front /\ graph'[l][p] = rest
      /\ \A m \in Nodes(l) \ {h, p} : graph'[l][m] = graph[l][m]
  <2>1. graph' = [graph EXCEPT ![l][h] = front, ![l][p] = rest]
    BY <1>4 DEF front
  <2>2. /\ l \in Layers /\ h \in Nodes(l) /\ p \in Nodes(l) /\ h # p
        /\ front \in Seq(Nodes(l)) /\ rest \in Seq(Nodes(l))
    BY <1>1, <1>3, <1>6, <1>7
  <2>3. /\ graph \in [Layers -> Seq(Seq(Nat))] /\ graph[l] \in Seq(Seq(Nat))
        /\ \A x \in Nodes(l) : x \in 1 .. Len(graph[l])
    BY <1>3, AtWork, Lists
  <2> HIDE DEF l, h, p
  <2>4. /\ graph'[l] = [[graph[l] EXCEPT ![h] = front] EXCEPT ![p] = rest]
        /\ \A k \in Layers \ {l} : graph'[k] = graph[k]
    BY <2>1, <2>2, <2>3
  <2> QED BY <2>2, <2>3, <2>4
<1>10. \A k, n, m : ~ HalfEdge(t, k, n, m)
  BY <1>1 DEF HalfEdge
<1>11. Over(t) = ToSet(nbrs[t]) /\ Over(t)' = ToSet(Tail(nbrs[t]))
  BY <1>1, <1>5 DEF Over, Linking
<1>12. ASSUME NEW n \in Nodes(l)
       PROVE  /\ \/ Len(graph'[l][n]) <= max_neighbors
                 \/ Len(graph'[l][n]) = max_neighbors + 1 /\ n \in Over(t)'
              /\ IsInjective(graph'[l][n])
              /\ \A m \in ToSet(graph'[l][n]) : n \in ToSet(graph'[l][m])
              /\ Ascending(Near(l, n), graph'[l][n])
  <2>1. /\ Len(graph[l][n]) \in Nat
        /\ \/ Len(graph[l][n]) <= max_neighbors
           \/ Len(graph[l][n]) = max_neighbors + 1 /\ n \in Over(t)
        /\ IsInjective(graph[l][n]) /\ Ascending(Near(l, n), graph[l][n])
        /\ \A m \in ToSet(graph[l][n]) : m \in Nodes(l) \ {n} /\ n \in ToSet(graph[l][m])
    BY <1>3, <1>10, InLayer
  <2>2. IsInjective(s) /\ IsInjective(q)
    BY <1>3, InLayer
  <2>3. /\ \A m \in Nodes(l) : m # p /\ h \in ToSet(graph[l][m]) => h \in ToSet(graph'[l][m])
        /\ \A x \in ToSet(q) : x # h => x \in ToSet(graph'[l][p])
        /\ \A x \in ToSet(s) : x # p => x \in ToSet(graph'[l][h])
        /\ \A m \in Nodes(l) \ {h, p} : ToSet(graph'[l][m]) = ToSet(graph[l][m])
    <3>1. h \notin ToSet(s)
      BY <1>3, Lists
    <3> QED BY <1>3, <1>6, <1>7, <1>9, <3>1
  <2>4. CASE n = h
    <3>1. Len(front) <= max_neighbors
      <4>1. Len(s) \in Nat /\ Len(s) <= max_neighbors + 1
        BY <1>3, <2>1, <2>4, MaxNeighbors
      <4> HIDE DEF s
      <4> QED BY <1>6, <4>1, MaxNeighbors
    <3>2. IsInjective(front) /\ Ascending(Near(l, n), front)
      <4>1. s \in Seq(N) /\ IsInjective(s) /\ Ascending(Near(l, n), s)
        BY <1>3, <2>1, <2>2, <2>4
      <4> HIDE DEF s, N
      <4> QED BY <1>6, <4>1, SublistOnce, SublistAscending
    <3>3. \A m \in ToSet(front) : m \in ToSet(s) /\ m # p
      BY <1>6, <2>2
    <3>4. \A m \in ToSet(front) : n \in ToSet(graph'[l][m])
      BY <2>1, <2>3, <2>4, <3>3
    <3> QED BY <1>9, <2>4, <3>1, <3>2, <3>4
  <2>5. CASE n = p
    <3>1. \/ Len(rest) <= max_neighbors
          \/ Len(rest) = max_neighbors + 1 /\ n \in Over(t)'
      <4>1. Len(rest) \in Nat
        BY <1>7
      <4>2. n \in Over(t) => n \in Over(t)'
        BY <1>1, <1>3, <1>11, <2>5
      <4>3. /\ Len(q) \in Nat
            /\ \/ Len(q) <= max_neighbors
               \/ Len(q) = max_neighbors + 1 /\ n \in Over(t)
        BY <1>3, <2>1, <2>5
      <4> HIDE DEF q
      <4> QED BY <1>7, <4>1, <4>2, <4>3, MaxNeighbors
    <3>2. IsInjective(rest) /\ Ascending(Near(l, n), rest)
      <4>1. q \in Seq(N) /\ IsInjective(q) /\ Ascending(Near(l, n), q)
        BY <1>3, <2>1, <2>2, <2>5
      <4> HIDE DEF q, N
      <4> QED BY <1>7, <4>1, SublistOnce, SublistAscending
    <3>3. \A m \in ToSet(rest) : m \in ToSet(q) /\ m # h
      BY <1>7, <1>8, <2>2
    <3>4. \A m \in ToSet(rest) : n \in ToSet(graph'[l][m])
      BY <2>1, <2>3, <2>5, <3>3
    <3> QED BY <1>9, <2>5, <3>1, <3>2, <3>4
  <2>6. CASE n \notin {h, p}
    <3>1. graph'[l][n] = graph[l][n]
      BY <1>9, <2>6
    <3>2. n \in Over(t) => n \in Over(t)'
      BY <1>3, <1>11, <2>6
    <3>3. \A m \in ToSet(graph[l][n]) : n \in ToSet(graph'[l][m])
      BY <2>1, <2>3, <2>6
    <3> QED BY <2>1, <3>1, <3>2, <3>3
  <2> QED BY <2>4, <2>5, <2>6
<1>13. Room(t)' /\ NoFault(t)' /\ Halfway(t)' /\ InTurn(t)'
  BY <1>5 DEF Room, NoFault, Halfway, InTurn
<1>14. pc[t] \in Linking /\ pc'[t] \in Linking /\ pc'[t] # "unlink"
  BY <1>1, <1>5 DEF Linking
<1> HIDE DEF h, p, s, q
<1> QED BY <1>1, <1>3, <1>9, <1>12, <1>13, <1>14, WritingStep

-----------------------------------------------------------------------------
(* twoHopPruning                                                            *)

LEMMA CutFacts ==
  ASSUME NEW S, NEW s \in Seq(S), NEW i \in 0 .. Len(s)
  PROVE  LET a == SubSeq(s, 1, i)
             b == SubSeq(s, i + 1, Len(s))
         IN a \in Seq(S) /\ b \in Seq(S) /\ Len(a) = i /\ a \o b = s
<1> DEFINE a == SubSeq(s, 1, i)
           b == SubSeq(s, i + 1, Len(s))
<1>1. Len(s) \in Nat /\ i \in Nat /\ \A k \in 1 .. Len(s) : s[k] \in S
  OBVIOUS
<1>2. a \in Seq(S) /\ Len(a) = i /\ \A k \in 1 .. i : a[k] = s[k]
  BY <1>1, SubSeqProperties
<1>3. b \in Seq(S) /\ Len(b) = Len(s) - i /\ \A k \in 1 .. Len(s) - i : b[k] = s[i + k]
  <2>1. /\ \A k \in i + 1 .. Len(s) : s[k] \in S
        /\ i + 1 \in Int /\ Len(s) \in Int
    BY <1>1
  <2>2. /\ b \in Seq(S) /\ Len(b) = IF i + 1 <= Len(s) THEN Len(s) - (i + 1) + 1 ELSE 0
        /\ \A k \in 1 .. Len(s) - (i + 1) + 1 : b[k] = s[(i + 1) + k - 1]
    BY <2>1, SubSeqProperties
  <2> HIDE DEF b
  <2>3. Len(b) = Len(s) - i /\ Len(s) - (i + 1) + 1 = Len(s) - i
    <3>1. CASE i + 1 <= Len(s)
      BY <1>1, <2>2, <3>1
    <3>2. CASE ~ (i + 1 <= Len(s))
      <4>1. i = Len(s) /\ Len(b) = 0
        BY <1>1, <2>2, <3>2
      <4> QED BY <1>1, <4>1
    <3> QED BY <3>1, <3>2
  <2>4. ASSUME NEW k \in 1 .. Len(s) - i PROVE b[k] = s[i + k]
    <3>1. (i + 1) + k - 1 = i + k
      BY <1>1
    <3> QED BY <2>2, <2>3, <3>1
  <2> QED BY <2>2, <2>3, <2>4
<1> HIDE DEF a, b
<1> DEFINE c == a \o b
<1>4. /\ c \in Seq(S) /\ Len(c) = Len(a) + Len(b)
      /\ \A k \in 1 .. Len(a) + Len(b) : c[k] = IF k <= Len(a) THEN a[k] ELSE b[k - Len(a)]
  BY <1>2, <1>3, ConcatProperties
<1> HIDE DEF c
<1>5. Len(c) = Len(s)
  BY <1>1, <1>2, <1>3, <1>4
<1>6. ASSUME NEW k \in 1 .. Len(s) PROVE c[k] = s[k]
  <2>1. c[k] = IF k <= i THEN a[k] ELSE b[k - i]
    BY <1>1, <1>2, <1>3, <1>4
  <2>2. CASE k <= i
    BY <1>2, <2>1, <2>2
  <2>3. CASE ~ (k <= i)
    <3>1. k - i \in 1 .. Len(s) - i /\ i + (k - i) = k
      BY <1>1, <2>3
    <3> QED BY <1>3, <2>1, <2>3, <3>1
  <2> QED BY <2>2, <2>3
<1>7. c = s
  BY <1>4, <1>5, <1>6, SeqEqual
<1> QED BY <1>2, <1>3, <1>7 DEF a, b, c

LEMMA twoHopPruningAlone ==
  ASSUME IInv, NEW t \in Threads, AloneInv(t), twoHopPruning(t)
  PROVE  AloneInv(t)'
<1> DEFINE h == Head(nbrs[t])
           s == graph[0][h]
           cut == IF Len(s) < Mbeta THEN Len(s) ELSE Mbeta
           kept == SubSeq(s, 1, cut)
           rest == SubSeq(s, cut + 1, Len(s))
<1>1. /\ pc[t] = "twoHop" /\ pc'[t] = "twoHopScan" /\ Struct
      /\ UNCHANGED <<storage, graph, job, nbrs>>
      /\ hop'[t].kept = kept /\ hop'[t].rest = rest
      /\ hop'[t].disc = <<>> /\ hop'[t].dyn = {}
  <2> DEFINE r == [rest |-> rest, kept |-> kept, disc |-> <<>>, dyn |-> {}]
  <2>1. /\ pc[t] = "twoHop" /\ pc' = [pc EXCEPT ![t] = "twoHopScan"] /\ Struct
        /\ UNCHANGED <<storage, graph, job, nbrs>> /\ hop' = [hop EXCEPT ![t] = r]
    BY DEF twoHopPruning, Goto, Struct, graphVars, indexVars
  <2>2. r.kept = kept /\ r.rest = rest /\ r.disc = <<>> /\ r.dyn = {}
    OBVIOUS
  <2> HIDE DEF r
  <2> QED BY <2>1, <2>2, AtWork
<1>2. job[t].layer = 0 /\ 0 \in Layers /\ h \in Nodes(0)
  BY <1>1, PruningFacts
<1>3. s \in Seq(Nodes(0)) /\ Len(s) \in Nat /\ IsInjective(s) /\ Ascending(Near(0, h), s)
  BY <1>2, InLayer, Lists
<1>4. cut \in 0 .. Len(s) /\ cut \in Nat /\ cut <= max_neighbors
  <2> HIDE DEF s
  <2> QED BY <1>3, MaxNeighbors
<1>5. Len(kept) = cut /\ kept \o rest = s
  <2> HIDE DEF s, cut
  <2> QED BY <1>3, <1>4, CutFacts
<1> HIDE DEF cut, kept, rest
<1>6. Over(t)' = Over(t) /\ \A l, n, m : ~ HalfEdge(t, l, n, m)
  BY <1>1 DEF Over, HalfEdge, Linking
<1>7. NoFault(t)' /\ Room(t)'
  BY <1>1 DEF NoFault, Room
<1>8. Halfway(t)'
  <2>1. IsFiniteSet({})
    BY FS_EmptySet
  <2>2. ToSet(<<>>) = {}
    BY DEF ToSet
  <2>3. Pruned(t)' = s
    BY <1>1, <1>2 DEF Pruned
  <2> HIDE DEF s
  <2> QED BY <1>1, <1>3, <1>4, <1>5, <2>1, <2>2, <2>3 DEF Halfway, max_neighbors
<1>9. InTurn(t)'
  <2>1. Near(0, h)' = Near(0, h) /\ h' = h
    BY <1>1, NearFrame DEF Struct, Near, Nodes, DistTo, VectorOf
  <2>2. Ascending(Near(0, h)', hop'[t].kept \o hop'[t].rest)
    BY <1>1, <1>3, <1>5, <2>1
  <2> QED BY <1>1, <2>1, <2>2 DEF InTurn, Ascending
<1>10. pc[t] \in Linking /\ pc'[t] \in Linking
  BY <1>1 DEF Linking
<1> QED BY <1>1, <1>6, <1>7, <1>8, <1>9, <1>10, ReadingStep

\* old_neighbors after one step of the scan, if its next one is kept and if
\* it is not.
LEMMA KeepNext ==
  ASSUME NEW S, NEW k \in Seq(S), NEW r \in Seq(S), r # <<>>
  PROVE  Append(k, Head(r)) \o Tail(r) = k \o r
<1> DEFINE a == Append(k, Head(r))
           b == Tail(r)
           n == Len(k)
           m == Len(r)
<1>1. /\ n \in Nat /\ m \in Nat /\ m >= 1
      /\ a \in Seq(S) /\ Len(a) = n + 1 /\ a[n + 1] = r[1]
      /\ \A i \in 1 .. n : a[i] = k[i]
  BY AppendProperties
<1>2. b \in Seq(S) /\ Len(b) = m - 1 /\ \A i \in 1 .. m - 1 : b[i] = r[i + 1]
  OBVIOUS
<1>3. /\ k \o r \in Seq(S) /\ Len(k \o r) = n + m
      /\ \A i \in 1 .. n + m : (k \o r)[i] = IF i <= n THEN k[i] ELSE r[i - n]
  BY ConcatProperties
<1> HIDE DEF a, b
<1>4. /\ a \o b \in Seq(S) /\ Len(a \o b) = Len(a) + Len(b)
      /\ \A i \in 1 .. Len(a) + Len(b) : (a \o b)[i] = IF i <= Len(a) THEN a[i] ELSE b[i - Len(a)]
  BY <1>1, <1>2, ConcatProperties
<1> DEFINE c == k \o r
           d == a \o b
<1>5. c \in Seq(S) /\ Len(c) = n + m /\ d \in Seq(S) /\ Len(d) = Len(a) + Len(b)
  BY <1>3, <1>4
<1>6. \A i \in 1 .. n + m : c[i] = IF i <= n THEN k[i] ELSE r[i - n]
  BY <1>3
<1>7. \A i \in 1 .. Len(a) + Len(b) : d[i] = IF i <= Len(a) THEN a[i] ELSE b[i - Len(a)]
  BY <1>4
<1> HIDE DEF c, d, n, m
<1>8. Len(a) = n + 1 /\ Len(b) = m - 1 /\ Len(a) + Len(b) = n + m
  BY <1>1, <1>2
<1>9. ASSUME NEW i \in 1 .. n + m PROVE d[i] = c[i]
  <2>1. CASE i <= n
    <3>1. i \in 1 .. n /\ i <= n + 1
      BY <1>1, <2>1
    <3> QED BY <1>1, <1>6, <1>7, <1>8, <2>1, <3>1
  <2>2. CASE i = n + 1
    <3>1. ~ (i <= n) /\ i <= n + 1 /\ i - n = 1
      BY <1>1, <2>2
    <3> QED BY <1>1, <1>6, <1>7, <1>8, <2>2, <3>1
  <2>3. CASE i > n + 1
    <3>1. /\ ~ (i <= n) /\ ~ (i <= n + 1) /\ i - (n + 1) \in 1 .. m - 1
          /\ (i - (n + 1)) + 1 = i - n
      BY <1>1, <2>3
    <3> QED BY <1>2, <1>6, <1>7, <1>8, <3>1
  <2> QED BY <1>1, <2>1, <2>2, <2>3
<1>10. Len(d) = Len(c)
  BY <1>5, <1>8
<1>11. d = c
  BY <1>5, <1>9, <1>10, SeqEqual
<1> QED BY <1>11 DEF a, b, c, d

LEMMA DropNext ==
  ASSUME NEW S, NEW k \in Seq(S), NEW r \in Seq(S), r # <<>>
  PROVE  LET a == k \o Tail(r)
             b == k \o r
         IN /\ a \in Seq(S) /\ Sublist(a, b) /\ ToSet(b) = ToSet(a) \cup {Head(r)}
            /\ IsInjective(b) => Head(r) \notin ToSet(a)
<1> DEFINE n == Len(k)
           m == Len(r)
           e == Tail(r)
           a == k \o e
           b == k \o r
           i == n + 1
<1>1. /\ n \in Nat /\ m \in Nat /\ m >= 1 /\ e \in Seq(S) /\ Len(e) = m - 1
      /\ \A j \in 1 .. m - 1 : e[j] = r[j + 1]
  OBVIOUS
<1>2. /\ b \in Seq(S) /\ Len(b) = n + m
      /\ \A j \in 1 .. n + m : b[j] = IF j <= n THEN k[j] ELSE r[j - n]
  BY ConcatProperties
<1> HIDE DEF e
<1>3. /\ a \in Seq(S) /\ Len(a) = n + (m - 1)
      /\ \A j \in 1 .. n + (m - 1) : a[j] = IF j <= n THEN k[j] ELSE e[j - n]
  <2>1. /\ a \in Seq(S) /\ Len(a) = Len(k) + Len(e)
        /\ \A j \in 1 .. Len(k) + Len(e) : a[j] = IF j <= Len(k) THEN k[j] ELSE e[j - Len(k)]
    BY <1>1, ConcatProperties
  <2> HIDE DEF a, m
  <2> QED BY <1>1, <2>1
<1> HIDE DEF a, b, m
<1>4. Head(r) = b[i] /\ i \in 1 .. Len(b)
  <2>1. Head(r) = r[1] /\ i \in 1 .. n + m /\ ~ (i <= n) /\ i - n = 1
    BY <1>1
  <2> QED BY <1>2, <2>1
<1> DEFINE q == RemoveAt(b, i)
<1> HIDE DEF n, i
<1>5. /\ q \in Seq(S) /\ Sublist(q, b) /\ Len(q) = Len(b) - 1
      /\ \A j \in 1 .. i - 1 : q[j] = b[j]
      /\ \A j \in i .. Len(b) - 1 : q[j] = b[j + 1]
      /\ ToSet(b) = ToSet(q) \cup {b[i]}
      /\ IsInjective(b) => b[i] \notin ToSet(q)
  <2>1. b \in Seq(S) /\ i \in 1 .. Len(b)
    BY <1>2, <1>4
  <2> QED BY <2>1, RemoveFacts
<1> HIDE DEF q
<1>6. Len(a) = Len(q)
  BY <1>1, <1>2, <1>3, <1>5
<1>7. ASSUME NEW j \in 1 .. Len(a) PROVE a[j] = q[j]
  <2>1. CASE j <= n
    <3>1. j \in 1 .. i - 1 /\ j \in 1 .. n + m /\ j \in 1 .. n + (m - 1)
      BY <1>1, <1>3, <2>1 DEF i
    <3> QED BY <1>2, <1>3, <1>5, <2>1, <3>1
  <2>2. CASE ~ (j <= n)
    <3>1. /\ j \in i .. Len(b) - 1 /\ j \in 1 .. n + (m - 1) /\ j + 1 \in 1 .. n + m
          /\ ~ (j + 1 <= n) /\ j - n \in 1 .. m - 1 /\ (j + 1) - n = (j - n) + 1
      BY <1>1, <1>2, <1>3, <2>2 DEF i
    <3>2. a[j] = e[j - n] /\ e[j - n] = r[(j - n) + 1]
      BY <1>1, <1>3, <2>2, <3>1
    <3>3. q[j] = b[j + 1] /\ b[j + 1] = r[(j + 1) - n]
      BY <1>2, <1>5, <3>1
    <3> QED BY <3>1, <3>2, <3>3
  <2> QED BY <2>1, <2>2
<1>8. a = q
  BY <1>3, <1>5, <1>6, <1>7, SeqEqual
<1> QED BY <1>3, <1>4, <1>5, <1>8 DEF a, b, e

LEMMA ConcatElements ==
  ASSUME NEW S, NEW s \in Seq(S), NEW r \in Seq(S)
  PROVE  ToSet(s \o r) = ToSet(s) \cup ToSet(r)
<1> DEFINE c == s \o r
           n == Len(s)
           m == Len(r)
<1>1. /\ c \in Seq(S) /\ n \in Nat /\ m \in Nat /\ Len(c) = n + m
      /\ DOMAIN s = 1 .. n /\ DOMAIN r = 1 .. m
      /\ \A i \in 1 .. n + m : c[i] = IF i <= n THEN s[i] ELSE r[i - n]
  BY ConcatProperties
<1>2. DOMAIN c = 1 .. n + m
  BY <1>1
<1> HIDE DEF c, n, m
<1>3. \A i \in 1 .. n : i \in 1 .. n + m /\ c[i] = s[i]
  BY <1>1
<1>4. \A i \in 1 .. m : i + n \in 1 .. n + m /\ c[i + n] = r[i]
  <2> SUFFICES ASSUME NEW i \in 1 .. m PROVE i + n \in 1 .. n + m /\ c[i + n] = r[i]
    OBVIOUS
  <2>1. i + n \in 1 .. n + m /\ ~ (i + n <= n) /\ (i + n) - n = i
    BY <1>1
  <2> QED BY <1>1, <2>1
<1>5. \A i \in 1 .. n + m : (i \in 1 .. n /\ c[i] = s[i]) \/ (i - n \in 1 .. m /\ c[i] = r[i - n])
  BY <1>1
<1>6. ToSet(c) \subseteq ToSet(s) \cup ToSet(r)
  BY <1>1, <1>2, <1>5 DEF ToSet
<1>7. ToSet(s) \subseteq ToSet(c)
  BY <1>1, <1>2, <1>3 DEF ToSet
<1>8. ToSet(r) \subseteq ToSet(c)
  <2>1. ASSUME NEW i \in 1 .. m PROVE r[i] \in ToSet(c)
    <3>1. i + n \in DOMAIN c /\ c[i + n] = r[i]
      BY <1>2, <1>4
    <3> QED BY <3>1 DEF ToSet
  <2>2. DOMAIN r = 1 .. m
    BY <1>1
  <2> QED BY <2>1, <2>2 DEF ToSet
<1> QED BY <1>6, <1>7, <1>8 DEF c

LEMMA AppendElements ==
  ASSUME NEW S, NEW s \in Seq(S), NEW e \in S
  PROVE  ToSet(Append(s, e)) = ToSet(s) \cup {e}
<1>1. <<e>> \in Seq(S) /\ Append(s, e) = s \o <<e>>
  BY AppendIsConcat
<1>2. ToSet(<<e>>) = {e}
  BY DEF ToSet
<1> DEFINE r == <<e>>
<1> HIDE DEF r
<1>3. ToSet(s \o r) = ToSet(s) \cup ToSet(r)
  BY <1>1, ConcatElements DEF r
<1> QED BY <1>1, <1>2, <1>3 DEF r

LEMMA TwoHopScanAlone ==
  ASSUME IInv, NEW t \in Threads, AloneInv(t), TwoHopScan(t)
  PROVE  AloneInv(t)'
<1> DEFINE h == Head(nbrs[t])
           kept == hop[t].kept
           rest == hop[t].rest
           disc == hop[t].disc
           dyn  == hop[t].dyn
           c == Head(rest)
           N == Nodes(0) \ {h}
<1>1. /\ pc[t] = "twoHopScan" /\ pc'[t] = "twoHopScan" /\ Struct
      /\ UNCHANGED <<storage, graph, job, nbrs>>
      /\ rest # <<>> /\ Len(kept) + Cardinality(dyn) < max_neighbors
      /\ hop'[t].rest = Tail(rest)
      /\ \/ /\ c \in dyn /\ hop'[t].kept = kept /\ hop'[t].disc = Append(disc, c)
            /\ hop'[t].dyn = dyn
         \/ /\ c \notin dyn /\ hop'[t].kept = Append(kept, c) /\ hop'[t].disc = disc
            /\ hop'[t].dyn = dyn \cup ToSet(graph[0][c])
  <2> DEFINE r == [rest |-> Tail(rest),
                   kept |-> IF c \in dyn THEN kept ELSE Append(kept, c),
                   disc |-> IF c \in dyn THEN Append(disc, c) ELSE disc,
                   dyn  |-> IF c \in dyn THEN dyn ELSE dyn \cup ToSet(graph[0][c])]
  <2>1. /\ pc[t] = "twoHopScan" /\ pc' = pc /\ Struct
        /\ UNCHANGED <<storage, graph, job, nbrs>> /\ hop' = [hop EXCEPT ![t] = r]
        /\ rest # <<>> /\ Len(kept) + Cardinality(dyn) < max_neighbors
    BY DEF TwoHopScan, TwoHopOpen, Struct, graphVars, indexVars
  <2>2. /\ r.rest = Tail(rest)
        /\ c \in dyn => r.kept = kept /\ r.disc = Append(disc, c) /\ r.dyn = dyn
        /\ c \notin dyn => /\ r.kept = Append(kept, c) /\ r.disc = disc
                           /\ r.dyn = dyn \cup ToSet(graph[0][c])
    OBVIOUS
  <2> HIDE DEF r
  <2>3. hop'[t] = r
    BY <2>1, AtWork
  <2> QED BY <2>1, <2>2, <2>3
<1>2. /\ job[t].layer = 0 /\ 0 \in Layers /\ h \in Nodes(0)
      /\ kept \in Seq(N) /\ rest \in Seq(N) /\ disc \in Seq(N)
  BY <1>1, PruningFacts
<1> DEFINE scan == kept \o rest
           D == ToSet(disc)
<1>3. /\ IsInjective(scan) /\ D \cap ToSet(scan) = {} /\ D \cup ToSet(scan) = ToSet(Pruned(t))
      /\ Len(kept) <= max_neighbors /\ IsFiniteSet(dyn)
      /\ Ascending(Near(0, h), scan)
  BY <1>1 DEF AloneInv, Linked, Halfway, InTurn
<1> DEFINE scan2 == hop'[t].kept \o hop'[t].rest
           D2 == ToSet(hop'[t].disc)
<1> HIDE DEF D
<1>4. /\ IsInjective(scan2) /\ D2 \cap ToSet(scan2) = {}
      /\ D2 \cup ToSet(scan2) = ToSet(Pruned(t))
      /\ Len(hop'[t].kept) <= max_neighbors /\ IsFiniteSet(hop'[t].dyn)
      /\ Ascending(Near(0, h), scan2)
  <2>1. CASE /\ c \in dyn /\ hop'[t].kept = kept /\ hop'[t].disc = Append(disc, c)
             /\ hop'[t].dyn = dyn
    <3>1. scan2 = kept \o Tail(rest)
      BY <1>1, <2>1
    <3>2. D2 = D \cup {c}
      <4>1. c \in N
        BY <1>1, <1>2, TailType
      <4>2. disc \in Seq(N)
        BY <1>2
      <4>3. ToSet(Append(disc, c)) = ToSet(disc) \cup {c}
        <5> HIDE DEF c, N, disc
        <5> QED BY <4>1, <4>2, AppendElements
      <4> QED BY <2>1, <4>3 DEF D
    <3> HIDE DEF scan2, D2
    <3>3. /\ scan2 \in Seq(N) /\ scan \in Seq(N) /\ Sublist(scan2, scan)
          /\ ToSet(scan) = ToSet(scan2) \cup {c} /\ c \notin ToSet(scan2)
      <4>1. scan \in Seq(N)
        BY <1>2, ConcatProperties
      <4>2. /\ kept \o Tail(rest) \in Seq(N) /\ Sublist(kept \o Tail(rest), scan)
            /\ ToSet(scan) = ToSet(kept \o Tail(rest)) \cup {c}
            /\ IsInjective(scan) => c \notin ToSet(kept \o Tail(rest))
        <5>1. kept \in Seq(N) /\ rest \in Seq(N) /\ rest # <<>>
          BY <1>1, <1>2
        <5> HIDE DEF N, kept, rest
        <5> QED BY <5>1, DropNext
      <4> QED BY <1>3, <3>1, <4>1, <4>2
    <3> HIDE DEF scan, N, c
    <3>4. IsInjective(scan2) /\ Ascending(Near(0, h), scan2)
      BY <1>3, <3>3, SublistOnce, SublistAscending
    <3> QED BY <1>3, <2>1, <3>2, <3>3, <3>4
  <2>2. CASE /\ c \notin dyn /\ hop'[t].kept = Append(kept, c) /\ hop'[t].disc = disc
             /\ hop'[t].dyn = dyn \cup ToSet(graph[0][c])
    <3>1. scan2 = scan
      <4>1. scan2 = Append(kept, c) \o Tail(rest)
        BY <1>1, <2>2
      <4> HIDE DEF N, kept, rest, scan2
      <4> QED BY <1>1, <1>2, <4>1, KeepNext
    <3>2. D2 = D
      BY <2>2 DEF D
    <3>3. Len(hop'[t].kept) <= max_neighbors
      <4>1. Cardinality(dyn) \in Nat
        BY <1>3, FS_CardinalityType
      <4>2. Len(kept) \in Nat /\ Len(Append(kept, c)) = Len(kept) + 1
        BY <1>2
      <4> HIDE DEF kept, dyn
      <4> QED BY <1>1, <2>2, <4>1, <4>2, MaxNeighbors
    <3>4. IsFiniteSet(hop'[t].dyn)
      <4>1. c \in Nodes(0)
        BY <1>1, <1>2, TailType
      <4>2. ToSet(graph[0][c]) \subseteq Nodes(0)
        BY <1>2, <4>1, Lists
      <4>3. IsFiniteSet(ToSet(graph[0][c]))
        BY <1>2, <4>2, LayerFinite
      <4> QED BY <1>3, <2>2, <4>3, FS_Union
    <3> HIDE DEF scan, scan2, D2
    <3> QED BY <1>3, <3>1, <3>2, <3>3, <3>4
  <2> QED BY <1>1, <2>1, <2>2
<1>5. Over(t)' = Over(t) /\ \A l, n, m : ~ HalfEdge(t, l, n, m)
  BY <1>1 DEF Over, HalfEdge, Linking
<1>6. NoFault(t)' /\ Room(t)'
  BY <1>1 DEF NoFault, Room
<1>7. Halfway(t)'
  <2>1. Pruned(t)' = Pruned(t)
    BY <1>1 DEF Pruned
  <2> QED BY <1>1, <1>4, <2>1 DEF Halfway, max_neighbors
<1>8. InTurn(t)'
  <2>1. Near(0, h)' = Near(0, h)
    BY <1>1 DEF Struct, Near, Nodes, DistTo, VectorOf
  <2>2. Ascending(Near(0, h)', scan2)
    BY <1>4, <2>1
  <2> QED BY <1>1, <2>2 DEF InTurn, Ascending
<1>9. pc[t] \in Linking /\ pc'[t] \in Linking
  BY <1>1 DEF Linking
<1> QED BY <1>1, <1>5, <1>6, <1>7, <1>8, <1>9, ReadingStep

LEMMA PartsApart ==
  ASSUME NEW S, NEW s \in Seq(S), NEW r \in Seq(S), IsInjective(s \o r)
  PROVE  ToSet(s) \cap ToSet(r) = {}
<1> DEFINE c == s \o r
           n == Len(s)
           m == Len(r)
<1>1. /\ c \in Seq(S) /\ n \in Nat /\ m \in Nat /\ Len(c) = n + m
      /\ DOMAIN s = 1 .. n /\ DOMAIN r = 1 .. m
      /\ \A i \in 1 .. n + m : c[i] = IF i <= n THEN s[i] ELSE r[i - n]
  BY ConcatProperties
<1>2. DOMAIN c = 1 .. n + m /\ IsInjective(c)
  BY <1>1
<1> HIDE DEF c, n, m
<1> SUFFICES ASSUME NEW i \in 1 .. n, NEW j \in 1 .. m, s[i] = r[j] PROVE FALSE
  BY <1>1 DEF ToSet
<1>3. i \in 1 .. n + m /\ c[i] = s[i]
  BY <1>1
<1>4. j + n \in 1 .. n + m /\ c[j + n] = r[j]
  <2>1. j + n \in 1 .. n + m /\ ~ (j + n <= n) /\ (j + n) - n = j
    BY <1>1
  <2> QED BY <1>1, <2>1
<1>5. i = j + n
  BY <1>2, <1>3, <1>4 DEF IsInjective
<1> QED BY <1>1, <1>5

LEMMA TwoHopWriteAlone ==
  ASSUME IInv, NEW t \in Threads, AloneInv(t), TwoHopWrite(t)
  PROVE  AloneInv(t)'
<1> DEFINE h == Head(nbrs[t])
           kept == hop[t].kept
           rest == hop[t].rest
           disc == hop[t].disc
           scan == kept \o rest
           s == graph[0][h]
           N == Nodes(0) \ {h}
<1>1. /\ pc[t] = "twoHopScan" /\ pc'[t] = "unlink" /\ Struct
      /\ UNCHANGED <<storage, job, nbrs>>
      /\ graph' = [graph EXCEPT ![0][h] = kept]
      /\ hop'[t].disc = disc \o rest
  <2> DEFINE r == [rest |-> <<>>, kept |-> <<>>, dyn |-> {}, disc |-> disc \o rest]
  <2>1. /\ pc[t] = "twoHopScan" /\ pc' = [pc EXCEPT ![t] = "unlink"] /\ Struct
        /\ UNCHANGED <<storage, job, nbrs>> /\ hop' = [hop EXCEPT ![t] = r]
        /\ graph' = [graph EXCEPT ![0][h] = kept]
    BY DEF TwoHopWrite, Goto, Struct, indexVars
  <2>2. r.disc = disc \o rest
    OBVIOUS
  <2> HIDE DEF r
  <2> QED BY <2>1, <2>2, AtWork
<1>2. /\ job[t].layer = 0 /\ 0 \in Layers /\ h \in Nodes(0)
      /\ kept \in Seq(N) /\ rest \in Seq(N) /\ disc \in Seq(N)
      /\ nbrs[t] # <<>> /\ s \in Seq(N)
  BY <1>1, PruningFacts
<1> DEFINE D == ToSet(disc)
           D2 == ToSet(disc \o rest)
<1>3. /\ IsInjective(scan) /\ D \cap ToSet(scan) = {} /\ D \cup ToSet(scan) = ToSet(s)
      /\ Len(kept) <= max_neighbors /\ Ascending(Near(0, h), scan)
  BY <1>1, <1>2 DEF AloneInv, Linked, Halfway, InTurn, Pruned
<1>4. /\ ToSet(scan) = ToSet(kept) \cup ToSet(rest) /\ ToSet(kept) \cap ToSet(rest) = {}
      /\ D2 = D \cup ToSet(rest)
      /\ IsInjective(kept) /\ Ascending(Near(0, h), kept)
  <2>1. kept \in Seq(N) /\ rest \in Seq(N) /\ disc \in Seq(N) /\ scan \in Seq(N)
    BY <1>2, ConcatProperties
  <2>2. ToSet(scan) = ToSet(kept) \cup ToSet(rest) /\ Sublist(kept, scan)
    <3> HIDE DEF kept, rest, N
    <3> QED BY <2>1, ConcatElements, PrefixIsSublist
  <2>3. ToSet(kept) \cap ToSet(rest) = {}
    <3> HIDE DEF kept, rest, N
    <3> QED BY <1>3, <2>1, PartsApart
  <2>4. D2 = D \cup ToSet(rest)
    <3> HIDE DEF disc, rest, N
    <3> QED BY <2>1, ConcatElements
  <2> HIDE DEF scan, kept, N, D, D2
  <2>5. IsInjective(kept) /\ Ascending(Near(0, h), kept)
    BY <1>3, <2>1, <2>2, SublistOnce, SublistAscending
  <2> QED BY <2>2, <2>3, <2>4, <2>5
<1>5. kept \in Seq(Nodes(0))
  <2> HIDE DEF kept
  <2> QED BY <1>2, SeqIsMonotonic
<1> HIDE DEF kept
<1>6. /\ \A k \in Layers \ {0} : \A m \in Nodes(k) : graph'[k][m] = graph[k][m]
      /\ graph'[0][h] = kept
      /\ \A m \in Nodes(0) \ {h} : graph'[0][m] = graph[0][m]
  BY <1>1, <1>2, <1>5, OneWritten
<1> HIDE DEF scan, rest, disc, D
<1>7. Over(t) = ToSet(nbrs[t]) /\ Over(t)' = ToSet(nbrs[t]) \ {h}
  BY <1>1 DEF Over, Linking
<1>8. \A k, n, m : ~ HalfEdge(t, k, n, m)
  BY <1>1 DEF HalfEdge
<1>9. \A n \in D2 : HalfEdge(t, 0, n, h)'
  BY <1>1, <1>2 DEF HalfEdge
<1> HIDE DEF D2
<1>10. ASSUME NEW n \in Nodes(0)
       PROVE  /\ \/ Len(graph'[0][n]) <= max_neighbors
                 \/ Len(graph'[0][n]) = max_neighbors + 1 /\ n \in Over(t)'
              /\ IsInjective(graph'[0][n])
              /\ \A m \in ToSet(graph'[0][n]) :
                   n \in ToSet(graph'[0][m]) \/ HalfEdge(t, 0, n, m)'
              /\ Ascending(Near(0, n), graph'[0][n])
  <2>1. /\ \/ Len(graph[0][n]) <= max_neighbors
           \/ Len(graph[0][n]) = max_neighbors + 1 /\ n \in Over(t)
        /\ IsInjective(graph[0][n]) /\ Ascending(Near(0, n), graph[0][n])
        /\ \A m \in ToSet(graph[0][n]) : m \in Nodes(0) \ {n} /\ n \in ToSet(graph[0][m])
    BY <1>2, <1>8, InLayer
  <2>2. CASE n = h
    <3>1. \A m \in ToSet(kept) : m \in ToSet(s)
      BY <1>3, <1>4
    <3>2. \A m \in ToSet(kept) : n \in ToSet(graph'[0][m])
      BY <1>6, <2>1, <2>2, <3>1
    <3> QED BY <1>3, <1>4, <1>6, <2>2, <3>2
  <2>3. CASE n # h
    <3>1. graph'[0][n] = graph[0][n]
      BY <1>6, <2>3
    <3>2. ASSUME NEW m \in ToSet(graph[0][n])
          PROVE  n \in ToSet(graph'[0][m]) \/ HalfEdge(t, 0, n, m)'
      <4>1. CASE m # h
        BY <1>6, <2>1, <4>1
      <4>2. CASE m = h
        <5>1. n \in ToSet(kept) \/ n \in D2
          BY <1>3, <1>4, <2>1, <4>2
        <5>2. CASE n \in ToSet(kept)
          BY <1>6, <4>2, <5>2
        <5>3. CASE n \in D2
          <6>1. h' = h
            BY <1>1
          <6> QED BY <1>1, <1>9, <4>2, <5>3 DEF HalfEdge
        <5> QED BY <5>1, <5>2, <5>3
      <4> QED BY <4>1, <4>2
    <3> QED BY <1>7, <2>1, <2>3, <3>1, <3>2
  <2> QED BY <2>2, <2>3
<1>11. NoFault(t)' /\ Room(t)' /\ InTurn(t)'
  BY <1>1 DEF NoFault, Room, InTurn
<1>12. Halfway(t)'
  <2>1. Pruned(t)' = kept
    BY <1>1, <1>2, <1>6 DEF Pruned
  <2>2. ToSet(hop'[t].disc) = D2
    BY <1>1 DEF D2
  <2>3. D2 \cap ToSet(kept) = {}
    BY <1>3, <1>4
  <2> QED BY <1>1, <2>1, <2>2, <2>3 DEF Halfway
<1>13. pc[t] \in Linking /\ pc'[t] \in Linking
  BY <1>1 DEF Linking
<1> QED BY <1>1, <1>2, <1>6, <1>10, <1>11, <1>12, <1>13, WritingStep

LEMMA UnlinkAlone ==
  ASSUME IInv, NEW t \in Threads, AloneInv(t), Unlink(t)
  PROVE  AloneInv(t)'
<1> DEFINE h == Head(nbrs[t])
           disc == hop[t].disc
           d == Head(disc)
           q == graph[0][d]
           N == Nodes(0)
<1>1. /\ pc[t] = "unlink" /\ pc'[t] = "unlink" /\ Struct /\ disc # <<>>
      /\ UNCHANGED <<storage, job, nbrs>> /\ hop'[t].disc = Tail(disc)
  <2>1. /\ pc[t] = "unlink" /\ pc' = pc /\ Struct /\ disc # <<>>
        /\ UNCHANGED <<storage, job, nbrs>>
        /\ hop' = [hop EXCEPT ![t] = [hop[t] EXCEPT !.disc = Tail(disc)]]
    BY DEF Unlink, Struct, indexVars
  <2>2. hop[t] \in Hops
    BY AtWork
  <2>3. [hop[t] EXCEPT !.disc = Tail(disc)].disc = Tail(disc)
    BY <2>2 DEF Hops
  <2> QED BY <2>1, <2>3, AtWork
<1>2. PICK rest \in Erased(q, h) : graph' = [graph EXCEPT ![0][d] = rest]
  BY DEF Unlink
<1>3. /\ job[t].layer = 0 /\ 0 \in Layers /\ h \in Nodes(0)
      /\ disc \in Seq(Nodes(0) \ {h}) /\ nbrs[t] # <<>>
  BY <1>1, PruningFacts
<1>4. d \in Nodes(0) /\ d # h /\ ToSet(disc) = {d} \cup ToSet(Tail(disc))
  BY <1>1, <1>3, TailType, TailParts
<1>5. q \in Seq(N) /\ Len(q) \in Nat
  BY <1>3, <1>4, Lists
<1>6. /\ rest \in Seq(N) /\ Sublist(rest, q) /\ Len(rest) <= Len(q)
      /\ ToSet(q) \ {h} \subseteq ToSet(rest) /\ (IsInjective(q) => h \notin ToSet(rest))
      /\ ToSet(rest) \subseteq ToSet(q) /\ (IsInjective(q) => IsInjective(rest))
  <2> HIDE DEF q, N, h
  <2>1. /\ rest \in Seq(N) /\ Sublist(rest, q) /\ Len(rest) <= Len(q)
        /\ ToSet(q) \ {h} \subseteq ToSet(rest) /\ (IsInjective(q) => h \notin ToSet(rest))
    BY <1>5, ErasedFacts
  <2> QED BY <1>5, <2>1, SublistOnce
<1>7. ToSet(disc) \cap ToSet(graph[0][h]) = {}
  BY <1>1, <1>3 DEF AloneInv, Linked, Halfway, Pruned
<1> HIDE DEF d, disc
<1>8. /\ \A k \in Layers \ {0} : \A m \in Nodes(k) : graph'[k][m] = graph[k][m]
      /\ graph'[0][d] = rest
      /\ \A m \in Nodes(0) \ {d} : graph'[0][m] = graph[0][m]
  <2>1. /\ 0 \in Layers /\ d \in Nodes(0) /\ rest \in Seq(Nodes(0))
        /\ graph' = [graph EXCEPT ![0][d] = rest]
    BY <1>2, <1>3, <1>4, <1>6
  <2> QED BY <2>1, OneWritten
<1>9. Over(t)' = Over(t)
  BY <1>1 DEF Over, Linking
<1>10. \A n, m : HalfEdge(t, 0, n, m) <=> n \in ToSet(disc) /\ m = h
  BY <1>1, <1>3 DEF HalfEdge, disc
<1>11. \A n, m : HalfEdge(t, 0, n, m)' <=> n \in ToSet(Tail(disc)) /\ m = h
  BY <1>1, <1>3 DEF HalfEdge
<1> HIDE DEF h
<1>12. ASSUME NEW n \in Nodes(0)
       PROVE  /\ \/ Len(graph'[0][n]) <= max_neighbors
                 \/ Len(graph'[0][n]) = max_neighbors + 1 /\ n \in Over(t)'
              /\ IsInjective(graph'[0][n])
              /\ \A m \in ToSet(graph'[0][n]) :
                   n \in ToSet(graph'[0][m]) \/ HalfEdge(t, 0, n, m)'
              /\ Ascending(Near(0, n), graph'[0][n])
  <2>1. /\ \/ Len(graph[0][n]) <= max_neighbors
           \/ Len(graph[0][n]) = max_neighbors + 1 /\ n \in Over(t)
        /\ IsInjective(graph[0][n]) /\ Ascending(Near(0, n), graph[0][n])
        /\ \A m \in ToSet(graph[0][n]) :
             m \in Nodes(0) \ {n} /\ (n \in ToSet(graph[0][m]) \/ HalfEdge(t, 0, n, m))
    BY <1>3, InLayer
  <2>2. CASE n = d
    <3>1. \/ Len(rest) <= max_neighbors
          \/ Len(rest) = max_neighbors + 1 /\ n \in Over(t)'
      <4>1. Len(rest) \in Nat
        BY <1>6
      <4>2. \/ Len(q) <= max_neighbors
            \/ Len(q) = max_neighbors + 1 /\ n \in Over(t)
        BY <2>1, <2>2
      <4> HIDE DEF q
      <4> QED BY <1>5, <1>6, <1>9, <4>1, <4>2, MaxNeighbors
    <3>2. IsInjective(rest) /\ Ascending(Near(0, n), rest)
      <4>1. IsInjective(q) /\ Ascending(Near(0, n), q)
        BY <2>1, <2>2
      <4> HIDE DEF q
      <4> QED BY <1>6, <4>1, SublistAscending
    <3>3. \A m \in ToSet(rest) : n \in ToSet(graph'[0][m])
      <4>1. \A m \in ToSet(rest) : m \in ToSet(graph[0][n]) /\ m # h
        BY <1>6, <2>1, <2>2
      <4> QED BY <1>8, <1>10, <2>1, <2>2, <4>1
    <3> QED BY <1>8, <2>2, <3>1, <3>2, <3>3
  <2>3. CASE n # d
    <3>1. graph'[0][n] = graph[0][n]
      BY <1>8, <2>3
    <3>2. ASSUME NEW m \in ToSet(graph[0][n])
          PROVE  n \in ToSet(graph'[0][m]) \/ HalfEdge(t, 0, n, m)'
      <4>1. CASE HalfEdge(t, 0, n, m)
        BY <1>4, <1>10, <1>11, <2>3, <4>1
      <4>2. CASE n \in ToSet(graph[0][m]) /\ m # d
        BY <1>8, <2>1, <4>2
      <4>3. CASE n \in ToSet(graph[0][m]) /\ m = d
        <5>1. n # h
          BY <1>4, <1>7, <4>3
        <5> QED BY <1>6, <1>8, <4>3, <5>1
      <4> QED BY <2>1, <4>1, <4>2, <4>3
    <3> QED BY <1>9, <2>1, <3>1, <3>2
  <2> QED BY <2>2, <2>3
<1>13. NoFault(t)' /\ Room(t)' /\ InTurn(t)'
  BY <1>1 DEF NoFault, Room, InTurn
<1>14. Halfway(t)'
  <2>1. Pruned(t)' = graph[0][h]
    BY <1>1, <1>3, <1>4, <1>8 DEF Pruned, h
  <2>2. ToSet(hop'[t].disc) \cap ToSet(graph[0][h]) = {}
    BY <1>1, <1>4, <1>7
  <2> QED BY <1>1, <2>1, <2>2 DEF Halfway
<1>15. pc[t] \in Linking /\ pc'[t] \in Linking
  BY <1>1 DEF Linking
<1> QED BY <1>1, <1>3, <1>8, <1>12, <1>13, <1>14, <1>15, WritingStep

-----------------------------------------------------------------------------
(* The invariant holds as long as one thread does all the work              *)

\* What the thread finds when it takes a step.
Alone(t) == Shared /\ Once /\ StoredOnce /\ LayersOnce /\ AloneInv(t)

LEMMA StepAlone ==
  ASSUME IInv, NEW t \in Threads, Alone(t), ThreadStep(t)
  PROVE  AloneInv(t)'
<1>1. Shared /\ StoredOnce /\ LayersOnce /\ AloneInv(t)
  BY DEF Alone
<1>2. CASE Claim(t)
  <2>1. UNCHANGED <<storage, graphVars, pc, locals>>
    BY <1>2 DEF Claim
  <2> QED BY <1>1, <2>1, RestAlone
<1>3. CASE ReadMaxLayer(t) \/ addNode(t) \/ Expand(t) \/ DescendEnd(t)
  BY <1>1, <1>3, ReadMaxLayerAlone, addNodeAlone, ExpandAlone, DescendEndAlone
<1>4. CASE ReadTop(t) \/ Remap(t) \/ RemapEnd(t) \/ SearchEnd(t)
  BY <1>1, <1>4, ReadTopAlone, RemapAlone, RemapEndAlone, SearchEndAlone
<1>5. CASE LinkIn(t) \/ LinkBack(t) \/ ReadNeighbors(t) \/ Check(t)
  BY <1>1, <1>5, LinkInAlone, LinkBackAlone, ReadNeighborsAlone, CheckAlone
<1>6. CASE NextLayer(t) \/ ReadLast(t) \/ PopLast(t) \/ twoHopPruning(t)
  BY <1>1, <1>6, NextLayerAlone, ReadLastAlone, PopLastAlone, twoHopPruningAlone
<1>7. CASE TwoHopScan(t) \/ TwoHopWrite(t) \/ Unlink(t) \/ UnlinkEnd(t)
  BY <1>1, <1>7, TwoHopScanAlone, TwoHopWriteAlone, UnlinkAlone, UnlinkEndAlone
<1> QED BY <1>2, <1>3, <1>4, <1>5, <1>6, <1>7 DEF ThreadStep, addSingle

LEMMA InitAlone ==
  ASSUME NEW t, Threads = {t}
  PROVE  Init => Alone(t)
<1> SUFFICES ASSUME Init PROVE Alone(t)
  OBVIOUS
<1>1. /\ storage = <<>> /\ indexes = [l \in Layers |-> <<>>]
      /\ pc[t] = "idle"
  BY DEF Init
<1>2. IsInjective(<<>>) /\ ToSet(<<>>) = {}
  BY DEF IsInjective, ToSet
<1>3. StoredOnce /\ LayersOnce
  BY <1>1, <1>2 DEF StoredOnce, LayersOnce
<1>4. AloneInv(t)
  <2>1. \A l \in Layers : Nodes(l) = {}
    BY <1>1 DEF Nodes
  <2> QED BY <1>1, <2>1, EmptyAlone
<1> QED BY <1>3, <1>4, InitOnce DEF Alone

LEMMA NextAlone ==
  ASSUME NEW t, Threads = {t}
  PROVE  IInv /\ Alone(t) /\ [Next]_vars => Alone(t)'
<1> SUFFICES ASSUME IInv, Alone(t), [Next]_vars
             PROVE  Alone(t)'
  OBVIOUS
<1>1. t \in Threads /\ Shared /\ Once /\ StoredOnce /\ LayersOnce /\ AloneInv(t)
  BY DEF Alone
<1>2. Shared' /\ Once' /\ StoredOnce' /\ LayersOnce'
  BY <1>1, NextOnce, NextDistinct
<1>3. AloneInv(t)'
  <2>1. CASE Add
    BY <1>1, <2>1, AddAlone
  <2>2. CASE reset
    BY <1>1, <2>2, resetAlone
  <2>3. CASE AddEnd \/ Undefined \/ UNCHANGED vars
    <3>1. UNCHANGED <<storage, graphVars, pc, locals>>
      BY <2>3 DEF AddEnd, Undefined, vars, indexVars
    <3> QED BY <1>1, <3>1, RestAlone
  <2>4. CASE \E u \in Threads : ThreadStep(u)
    <3>1. ThreadStep(t)
      BY <2>4
    <3> QED BY <1>1, <3>1, StepAlone
  <2> QED BY <2>1, <2>2, <2>3, <2>4 DEF Next
<1> QED BY <1>2, <1>3 DEF Alone

\* While the only thread is at rest, the graph keeps all its promises.
LEMMA QuiescentAlone ==
  ASSUME NEW t, Threads = {t}
  PROVE  IInv /\ Alone(t) => DegreeBound /\ ListsSorted /\ Bidirectional /\ ~ Faulted
<1> SUFFICES ASSUME IInv, Alone(t)
             PROVE  DegreeBound /\ ListsSorted /\ Bidirectional /\ ~ Faulted
  OBVIOUS
<1>1. t \in Threads /\ Shared /\ LayersOnce /\ AloneInv(t)
  BY DEF Alone
<1>2. ~ Faulted
  BY <1>1 DEF Faulted, AloneInv, Linked, NoFault
<1>3. ASSUME Quiescent
      PROVE  /\ Ordered
             /\ \A l \in Layers : \A n \in Nodes(l) :
                  /\ Len(graph[l][n]) <= max_neighbors
                  /\ \A m \in ToSet(graph[l][n]) : n \in ToSet(graph[l][m])
  <2>1. pc[t] = "idle"
    BY <1>1, <1>3 DEF IInv, TeamAtRest
  <2> QED BY <1>1, <2>1, IdleAlone
<1>4. DegreeBound
  BY <1>3 DEF DegreeBound
<1>5. Bidirectional
  <2> SUFFICES ASSUME Quiescent, NEW l \in Layers, NEW n \in Nodes(l),
                      NEW i \in DOMAIN graph[l][n]
               PROVE  Contains(graph[l][graph[l][n][i]], n)
    BY DEF Bidirectional
  <2> DEFINE m == graph[l][n][i]
  <2>1. m \in ToSet(graph[l][n])
    BY DEF ToSet
  <2>2. m \in Nodes(l) /\ n \in ToSet(graph[l][m])
    BY <1>3, <2>1, Lists
  <2>3. DOMAIN graph[l][m] = 1 .. Len(graph[l][m])
    BY <2>2, Lists
  <2> HIDE DEF m
  <2>4. \E k \in 1 .. Len(graph[l][m]) : graph[l][m][k] = n
    BY <2>2, <2>3 DEF ToSet
  <2> QED BY <2>4 DEF Contains, m
<1>6. ListsSorted
  <2> SUFFICES ASSUME Quiescent, NEW l \in Layers, NEW n \in Nodes(l),
                      NEW i \in DOMAIN graph[l][n], NEW j \in DOMAIN graph[l][n], i < j
               PROVE  ~ Closer(l, VectorOf(l, n), graph[l][n][j], graph[l][n][i])
    BY DEF ListsSorted
  <2> DEFINE s == graph[l][n]
             d == Near(l, n)
  <2>1. s \in Seq(Nodes(l)) /\ DOMAIN s = 1 .. Len(s)
    <3>1. s \in Seq(Nodes(l))
      BY Lists
    <3> HIDE DEF s
    <3> QED BY <3>1
  <2>2. d \in [Nodes(l) -> Nat]
    BY <1>1, NearType
  <2>3. s[i] \in Nodes(l) /\ s[j] \in Nodes(l)
    BY <2>1
  <2>4. d[s[i]] <= d[s[j]]
    BY <1>3, <2>1 DEF Ordered, Ascending
  <2>5. /\ d[s[i]] = DistTo(l, VectorOf(l, n), s[i])
        /\ d[s[j]] = DistTo(l, VectorOf(l, n), s[j])
    BY <2>3 DEF Near
  <2> HIDE DEF d, s
  <2>6. d[s[i]] \in Nat /\ d[s[j]] \in Nat
    BY <2>2, <2>3
  <2>7. ~ (d[s[j]] < d[s[i]])
    BY <2>4, <2>6
  <2> QED BY <2>5, <2>7 DEF Closer, s
<1> QED BY <1>2, <1>4, <1>5, <1>6

LEMMA AlwaysAlone ==
  ASSUME NEW CONSTANT t, Threads = {t}
  PROVE  Spec => [](DegreeBound /\ ListsSorted /\ Bidirectional /\ ~ Faulted)
<1>1. Init => Alone(t)
  BY InitAlone
<1>2. IInv /\ Alone(t) /\ [Next]_vars => Alone(t)'
  BY NextAlone
<1>3. IInv /\ Alone(t) => DegreeBound /\ ListsSorted /\ Bidirectional /\ ~ Faulted
  BY QuiescentAlone
<1> QED BY <1>1, <1>2, <1>3, Invariance, PTL DEF Spec

\* With one thread every edge of the finished graph has its reverse, in every
\* layer: addInitialEdges links both ways, and what removeLast and
\* twoHopPruning drop from one list they drop from the other
\* (HierarchicalGraph.cpp:716-717).
THEOREM BidirectionalAlone ==
  ASSUME NEW CONSTANT t, Threads = {t}
  PROVE  Spec => []Bidirectional
BY AlwaysAlone, PTL

\* With one thread every list of the finished graph is in order of distance to
\* its owner, so that find_index may search it by bisection: the push_back of
\* addInitialEdges meets its candidates nearest first, and pruning only leaves
\* elements out (HierarchicalGraph.cpp:226).
THEOREM ListsSortedAlone ==
  ASSUME NEW CONSTANT t, Threads = {t}
  PROVE  Spec => []ListsSorted
BY AlwaysAlone, PTL

\* With one thread no list of the finished graph is longer than max_neighbors:
\* each insertion makes each list at most one too long, and addSingle prunes
\* every neighbour it has linked before it goes on.
THEOREM DegreeBoundAlone ==
  ASSUME NEW CONSTANT t, Threads = {t}
  PROVE  Spec => []DegreeBound
BY AlwaysAlone, PTL

\* With one thread removeLast never calls back() or pop_back() of an empty
\* vector: nobody else can empty the list between its two sections.
THEOREM NeverFaultedAlone ==
  ASSUME NEW CONSTANT t, Threads = {t}
  PROVE  Spec => []~ Faulted
BY AlwaysAlone, PTL
===============================================================================
