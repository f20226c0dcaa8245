------------------------- MODULE AcornConnected_proofs -------------------------
(***************************************************************************)
(* What can be reached in a finished graph: a walk along its edges finds   *)
(* the components that getConnectedComponents reports, whenever every edge *)
(* has its reverse; and if one thread builds the graph and no list has to  *)
(* be pruned, each layer is connected and a search wide enough is exact.   *)
(***************************************************************************)
EXTENDS GraphStats, AcornSearch_proofs, AcornSequential_proofs,
        NaturalsInduction, WellFoundedInduction

-----------------------------------------------------------------------------
(* Walks                                                                    *)

LEMMA NumbersFromZero ==
  ASSUME NEW T, 0 \in T, \A n \in Nat : n \in T => n + 1 \in T
  PROVE  Nat \subseteq T
<1> DEFINE R == {p \in Nat \X Nat : p[1] < p[2]}
           bad == Nat \ T
<1>1. IsWellFoundedOn(R, Nat)
  BY NatLessThanWellFounded DEF OpToRel
<1> SUFFICES ASSUME bad # {} PROVE FALSE
  OBVIOUS
<1>2. PICK x \in bad : \A y \in bad : ~ (<<y, x>> \in R)
  <2> bad \subseteq Nat
    OBVIOUS
  <2> HIDE DEF R, bad
  <2> QED BY <1>1, WFMin
<1>3. x # 0 /\ x \in Nat /\ x - 1 \in Nat
  OBVIOUS
<1>4. x - 1 \notin bad
  <2>1. <<x - 1, x>> \in R
    BY <1>3
  <2> HIDE DEF R, bad
  <2> QED BY <1>2, <2>1
<1> QED BY <1>3, <1>4

LEMMA UptoSize == \A n \in Nat : IsFiniteSet(1 .. n) /\ Cardinality(1 .. n) = n
<1> TAKE n \in Nat
<1>1. (IF 1 > n THEN 0 ELSE n - 1 + 1) = n
  OBVIOUS
<1> QED BY <1>1, FS_Interval

\* What step makes of a, N times over.
Iterates(S, a, step, N) ==
  {f \in [0 .. N -> S] : f[0] = a /\ \A k \in 1 .. N : f[k] = step[f[k-1]]}

LEMMA Iterated ==
  ASSUME NEW S, NEW a \in S, NEW step \in [S -> S], NEW N \in Nat
  PROVE  Iterates(S, a, step, N) # {}
<1> DEFINE T == {n \in Nat : \E f \in [0 .. n -> S] :
                   f[0] = a /\ \A k \in 1 .. n : f[k] = step[f[k-1]]}
<1>1. 0 \in T
  <2> DEFINE f == [k \in 0 .. 0 |-> a]
  <2>1. f \in [0 .. 0 -> S] /\ f[0] = a /\ \A k \in 1 .. 0 : f[k] = step[f[k-1]]
    OBVIOUS
  <2> QED BY <2>1
<1>2. ASSUME NEW n \in Nat, n \in T PROVE n + 1 \in T
  <2>1. PICK f \in [0 .. n -> S] :
          f[0] = a /\ \A k \in 1 .. n : f[k] = step[f[k-1]]
    BY <1>2
  <2> DEFINE g == [k \in 0 .. n + 1 |-> IF k <= n THEN f[k] ELSE step[f[n]]]
  <2>2. \A k \in 0 .. n + 1 : g[k] \in S
    <3> TAKE k \in 0 .. n + 1
    <3>1. f[n] \in S /\ step[f[n]] \in S
      OBVIOUS
    <3>2. k <= n => f[k] \in S
      OBVIOUS
    <3> QED BY <3>1, <3>2
  <2>3. g \in [0 .. n + 1 -> S]
    <3>1. g = [k \in 0 .. n + 1 |-> g[k]]
      OBVIOUS
    <3> HIDE DEF g
    <3> QED BY <2>2, <3>1
  <2>4. g[0] = a
    BY <2>1
  <2>5. ASSUME NEW k \in 1 .. n + 1 PROVE g[k] = step[g[k-1]]
    <3>1. CASE k <= n
      <4>1. k \in 1 .. n /\ k \in 0 .. n + 1 /\ k - 1 \in 0 .. n + 1 /\ k - 1 <= n
        BY <3>1
      <4>2. g[k] = f[k] /\ g[k-1] = f[k-1]
        BY <3>1, <4>1
      <4> HIDE DEF g
      <4> QED BY <2>1, <4>1, <4>2
    <3>2. CASE ~ (k <= n)
      <4>1. k = n + 1 /\ k - 1 = n /\ n \in 0 .. n + 1
        BY <3>2
      <4>2. g[n] = f[n] /\ g[n + 1] = step[f[n]]
        BY <4>1
      <4> HIDE DEF g
      <4> QED BY <4>1, <4>2
    <3> QED BY <3>1, <3>2
  <2> HIDE DEF g
  <2> QED BY <2>3, <2>4, <2>5
<1> HIDE DEF T
<1>3. Nat \subseteq T
  BY <1>1, <1>2, NumbersFromZero
<1> QED BY <1>3 DEF T, Iterates

\* The sets of Spread, one step further out each.
Grows(g, i, seen, next) ==
  g = [k \in 0 .. MaxVecs |->
         IF k = 0 THEN {i} ELSE g[k-1] \cup ((UNION {next[n] : n \in g[k-1]}) \ seen)]

LEMMA GrowsEach ==
  ASSUME NEW g, NEW i, NEW seen, NEW next, Grows(g, i, seen, next)
  PROVE  /\ MaxVecs \in Nat /\ g[0] = {i}
         /\ \A k \in 1 .. MaxVecs :
              g[k] = g[k-1] \cup ((UNION {next[n] : n \in g[k-1]}) \ seen)
<1> DEFINE e(k) == IF k = 0 THEN {i} ELSE g[k-1] \cup ((UNION {next[n] : n \in g[k-1]}) \ seen)
<1>1. MaxVecs \in Nat
  BY ParameterAssumption
<1>2. g = [k \in 0 .. MaxVecs |-> e(k)]
  BY DEF Grows
<1> HIDE DEF e
<1>3. \A k \in 0 .. MaxVecs : g[k] = e(k)
  BY <1>2
<1>4. 0 \in 0 .. MaxVecs /\ \A k \in 1 .. MaxVecs : k \in 0 .. MaxVecs /\ k # 0
  BY <1>1
<1>5. g[0] = {i}
  BY <1>3, <1>4 DEF e
<1>6. ASSUME NEW k \in 1 .. MaxVecs
      PROVE  g[k] = g[k-1] \cup ((UNION {next[n] : n \in g[k-1]}) \ seen)
  BY <1>3, <1>4 DEF e
<1> QED BY <1>1, <1>5, <1>6

LEMMA GrowsExists ==
  ASSUME NEW N, NEW i \in N, NEW seen, NEW next \in [N -> SUBSET N]
  PROVE  \E g \in [0 .. MaxVecs -> SUBSET N] : Grows(g, i, seen, next)
<1> DEFINE step == [S \in SUBSET N |-> S \cup ((UNION {next[n] : n \in S}) \ seen)]
<1>1. step \in [SUBSET N -> SUBSET N]
  <2>1. \A S \in SUBSET N : S \cup ((UNION {next[n] : n \in S}) \ seen) \in SUBSET N
    OBVIOUS
  <2> QED BY <2>1
<1>2. MaxVecs \in Nat /\ {i} \in SUBSET N
  BY ParameterAssumption
<1>3. \A S \in SUBSET N : step[S] = S \cup ((UNION {next[n] : n \in S}) \ seen)
  OBVIOUS
<1> DEFINE all == SUBSET N
           first == {i}
<1> HIDE DEF step, all, first
<1>4. PICK g \in [0 .. MaxVecs -> all] :
        g[0] = first /\ \A k \in 1 .. MaxVecs : g[k] = step[g[k-1]]
  <2>1. step \in [all -> all] /\ first \in all /\ MaxVecs \in Nat
    BY <1>1, <1>2 DEF all, first
  <2>2. Iterates(all, first, step, MaxVecs) # {}
    BY <2>1, Iterated
  <2> QED BY <2>2 DEF Iterates
<1> USE DEF all, first
<1> DEFINE e(k) == IF k = 0 THEN {i} ELSE g[k-1] \cup ((UNION {next[n] : n \in g[k-1]}) \ seen)
<1>5. ASSUME NEW k \in 0 .. MaxVecs PROVE g[k] = e(k)
  <2>1. CASE k = 0
    BY <1>4, <2>1
  <2>2. CASE k # 0
    <3>1. k \in 1 .. MaxVecs /\ k - 1 \in 0 .. MaxVecs
      BY <1>2, <2>2
    <3>2. g[k-1] \in SUBSET N
      BY <3>1
    <3> QED BY <1>3, <1>4, <2>2, <3>1, <3>2
  <2> QED BY <2>1, <2>2
<1> HIDE DEF e
<1>6. g = [k \in 0 .. MaxVecs |-> e(k)]
  BY <1>5
<1>7. Grows(g, i, seen, next)
  BY <1>6 DEF Grows, e
<1> QED BY <1>7

\* R is what can be reached from i: it is closed under the steps, and every
\* other set with i that is closed contains it.
Closed(R, seen, next) == \A n \in R : next[n] \ seen \subseteq R
Reaches(R, N, i, seen, next) ==
  /\ R \in SUBSET N /\ i \in R /\ Closed(R, seen, next)
  /\ \A C \in SUBSET N : i \in C /\ Closed(C, seen, next) => R \subseteq C

\* A walk over no more than MaxVecs nodes is closed after MaxVecs steps: each
\* step before has added a node.
LEMMA GrowthReaches ==
  ASSUME NEW N, IsFiniteSet(N), Cardinality(N) <= MaxVecs, NEW i \in N, NEW seen,
         NEW next \in [N -> SUBSET N], NEW g, Grows(g, i, seen, next)
  PROVE  Reaches(g[MaxVecs], N, i, seen, next)
<1> DEFINE out(S) == (UNION {next[n] : n \in S}) \ seen
<1>0. \A S, x : x \in out(S) <=> \E n \in S : x \in next[n] \ seen
  <2> TAKE S, x
  <2>1. ASSUME x \in out(S) PROVE \E n \in S : x \in next[n] \ seen
    BY <2>1
  <2>2. ASSUME NEW n \in S, x \in next[n] \ seen PROVE x \in out(S)
    BY <2>2
  <2> HIDE DEF out
  <2> QED BY <2>1, <2>2
<1>1. /\ MaxVecs \in Nat /\ g[0] = {i}
      /\ \A k \in Nat : k + 1 <= MaxVecs => g[k+1] = g[k] \cup out(g[k])
  <2>1. /\ MaxVecs \in Nat /\ g[0] = {i}
        /\ \A k \in 1 .. MaxVecs :
              g[k] = g[k-1] \cup ((UNION {next[n] : n \in g[k-1]}) \ seen)
    BY GrowsEach
  <2>2. \A k \in Nat : k + 1 <= MaxVecs => k + 1 \in 1 .. MaxVecs /\ (k + 1) - 1 = k
    BY <2>1
  <2> QED BY <2>1, <2>2
<1> HIDE DEF out
\* The sets stay within every closed set.
<1>2. ASSUME NEW C \in SUBSET N, i \in C, Closed(C, seen, next)
      PROVE  \A k \in Nat : k <= MaxVecs => g[k] \in SUBSET C
  <2> DEFINE T == {k \in Nat : k <= MaxVecs => g[k] \in SUBSET C}
  <2>1. 0 \in T
    BY <1>1, <1>2
  <2>2. ASSUME NEW k \in Nat, k \in T PROVE k + 1 \in T
    <3> SUFFICES ASSUME k + 1 <= MaxVecs PROVE g[k+1] \in SUBSET C
      OBVIOUS
    <3>1. g[k] \in SUBSET C /\ g[k+1] = g[k] \cup out(g[k])
      BY <1>1, <2>2
    <3>2. \A n \in g[k] : next[n] \ seen \subseteq C
      BY <1>2, <3>1 DEF Closed
    <3> QED BY <1>0, <3>1, <3>2
  <2> HIDE DEF T
  <2>3. Nat \subseteq T
    BY <2>1, <2>2, NumbersFromZero
  <2> QED BY <2>3 DEF T
<1>3. \A k \in Nat : k <= MaxVecs => g[k] \in SUBSET N
  <2>1. N \in SUBSET N /\ Closed(N, seen, next)
    BY DEF Closed
  <2> QED BY <1>2, <2>1
<1>4. \A k \in Nat : k <= MaxVecs =>
        \/ Closed(g[k], seen, next)
        \/ Cardinality(g[k]) >= k + 1
  <2> DEFINE T == {k \in Nat : k <= MaxVecs =>
                     Closed(g[k], seen, next) \/ Cardinality(g[k]) >= k + 1}
  <2>1. 0 \in T
    <3>1. Cardinality(g[0]) = 1
      BY <1>1, FS_Singleton
    <3> QED BY <3>1
  <2>2. ASSUME NEW k \in Nat, k \in T PROVE k + 1 \in T
    <3> SUFFICES ASSUME k + 1 <= MaxVecs
                 PROVE  Closed(g[k+1], seen, next) \/ Cardinality(g[k+1]) >= k + 2
      BY SMT
    <3> DEFINE a == g[k]
               b == g[k+1]
    <3>1. /\ a \in SUBSET N /\ b \in SUBSET N /\ a \in SUBSET b
          /\ b = a \cup out(a)
      BY <1>1, <1>3
    <3>2. Closed(a, seen, next) \/ Cardinality(a) >= k + 1
      BY <1>1, <2>2
    <3> HIDE DEF a, b
    <3>3. CASE Closed(a, seen, next)
      <4>1. \A n \in a : next[n] \ seen \subseteq a
        BY <3>3 DEF Closed
      <4>2. b = a
        BY <1>0, <3>1, <4>1
      <4> QED BY <3>3, <4>2 DEF b
    <3>4. CASE ~ Closed(a, seen, next)
      <4>1. PICK n \in a : ~ (next[n] \ seen \subseteq a)
        BY <3>4 DEF Closed
      <4>2. a # b
        BY <1>0, <3>1, <4>1
      <4>3. IsFiniteSet(b) /\ Cardinality(b) \in Nat /\ Cardinality(a) \in Nat
        BY <3>1, FS_Subset, FS_CardinalityType
      <4>4. Cardinality(a) <= Cardinality(b) /\ Cardinality(a) # Cardinality(b)
        BY <3>1, <4>2, <4>3, FS_Subset
      <4>5. Cardinality(b) >= k + 2
        BY <3>2, <3>4, <4>3, <4>4
      <4> QED BY <4>5 DEF b
    <3> QED BY <3>3, <3>4
  <2> HIDE DEF T
  <2>3. Nat \subseteq T
    BY <2>1, <2>2, NumbersFromZero
  <2> QED BY <2>3 DEF T
<1> DEFINE R == g[MaxVecs]
<1>5. R \in SUBSET N /\ Cardinality(R) <= Cardinality(N)
      /\ Cardinality(N) \in Nat /\ Cardinality(R) \in Nat
  <2>1. R \in SUBSET N
    BY <1>1, <1>3
  <2> HIDE DEF R
  <2> QED BY <2>1, FS_Subset, FS_CardinalityType
<1>6. Closed(R, seen, next)
  <2>1. Closed(R, seen, next) \/ Cardinality(R) >= MaxVecs + 1
    BY <1>1, <1>4
  <2> HIDE DEF R
  <2> QED BY <1>1, <1>5, <2>1
<1>7. i \in R
  <2> DEFINE T == {k \in Nat : k <= MaxVecs => i \in g[k]}
  <2>1. 0 \in T
    BY <1>1
  <2>2. ASSUME NEW k \in Nat, k \in T PROVE k + 1 \in T
    BY <1>1, <2>2
  <2> HIDE DEF T
  <2>3. Nat \subseteq T
    BY <2>1, <2>2, NumbersFromZero
  <2> QED BY <1>1, <2>3 DEF T
<1>8. \A C \in SUBSET N : i \in C /\ Closed(C, seen, next) => R \subseteq C
  BY <1>1, <1>2
<1> HIDE DEF R
<1> QED BY <1>5, <1>6, <1>7, <1>8 DEF Reaches, R

LEMMA SpreadReaches ==
  ASSUME NEW N, IsFiniteSet(N), Cardinality(N) <= MaxVecs, NEW i \in N, NEW seen,
         NEW next \in [N -> SUBSET N]
  PROVE  Reaches(Spread(i, seen, next), N, i, seen, next)
<1> DEFINE f == CHOOSE g : Grows(g, i, seen, next)
<1>1. Spread(i, seen, next) = f[MaxVecs]
  BY DEF Spread, Grows
<1>2. Grows(f, i, seen, next)
  BY GrowsExists
<1> HIDE DEF f
<1> QED BY <1>1, <1>2, GrowthReaches

-----------------------------------------------------------------------------
(* Walks along steps that can be taken both ways                            *)

BothWays(N, next) == \A n \in N : \A m \in next[n] : n \in next[m]

\* What two nodes reach is the same or has no node in common.
LEMMA SameComponent ==
  ASSUME NEW N, IsFiniteSet(N), Cardinality(N) <= MaxVecs, NEW next \in [N -> SUBSET N],
         BothWays(N, next), NEW i \in N, NEW j \in Spread(i, {}, next)
  PROVE  j \in N /\ Spread(j, {}, next) = Spread(i, {}, next)
<1> DEFINE I == Spread(i, {}, next)
           J == Spread(j, {}, next)
<1>1. Reaches(I, N, i, {}, next)
  BY SpreadReaches
<1>2. j \in N
  BY <1>1 DEF Reaches
<1>3. Reaches(J, N, j, {}, next)
  BY <1>2, SpreadReaches
<1> HIDE DEF I, J
<1>4. J \subseteq I
  <2>1. I \in SUBSET N /\ j \in I /\ Closed(I, {}, next)
    BY <1>1 DEF Reaches, I
  <2> QED BY <1>3, <2>1 DEF Reaches
\* Else what I has more than J would be closed, too.
<1>5. i \in J
  <2> SUFFICES ASSUME i \notin J PROVE FALSE
    OBVIOUS
  <2> DEFINE C == I \ J
  <2>1. C \in SUBSET N /\ i \in C
    BY <1>1 DEF Reaches
  <2>2. Closed(C, {}, next)
    <3> SUFFICES ASSUME NEW n \in C, NEW m \in next[n] PROVE m \in C
      BY DEF Closed
    <3>1. n \in N /\ n \in next[m] /\ m \in N
      BY <2>1 DEF BothWays
    <3>2. m \in I
      BY <1>1 DEF Reaches, Closed
    <3>3. m \notin J
      BY <1>3, <3>1 DEF Reaches, Closed
    <3> QED BY <3>2, <3>3
  <2>3. I \subseteq C
    BY <1>1, <2>1, <2>2 DEF Reaches
  <2> QED BY <1>2, <1>3, <1>4, <2>3 DEF Reaches, I
<1>6. I \subseteq J
  BY <1>1, <1>3, <1>5 DEF Reaches
<1> QED BY <1>2, <1>4, <1>6 DEF I, J

\* A walk need not look out for the components met before.
LEMMA WalkUnseen ==
  ASSUME NEW N, IsFiniteSet(N), Cardinality(N) <= MaxVecs, NEW next \in [N -> SUBSET N],
         BothWays(N, next), NEW seen \in SUBSET N, Closed(seen, {}, next), NEW i \in N \ seen
  PROVE  Spread(i, seen, next) = Spread(i, {}, next)
<1> DEFINE A == Spread(i, seen, next)
           B == Spread(i, {}, next)
<1>1. Reaches(A, N, i, seen, next) /\ Reaches(B, N, i, {}, next)
  BY SpreadReaches
<1> HIDE DEF A, B
<1>2. A \subseteq B
  <2>1. Closed(B, seen, next)
    BY <1>1 DEF Reaches, Closed
  <2> QED BY <1>1, <2>1 DEF Reaches
<1>3. A \cap seen = {}
  <2> DEFINE C == N \ seen
  <2>1. C \in SUBSET N /\ i \in C /\ Closed(C, seen, next)
    BY DEF Closed
  <2> HIDE DEF C
  <2>2. A \subseteq C
    BY <1>1, <2>1 DEF Reaches
  <2> QED BY <2>2 DEF C
<1>4. Closed(A, {}, next)
  <2> SUFFICES ASSUME NEW n \in A, NEW m \in next[n] PROVE m \in A
    BY DEF Closed
  <2>1. n \in N /\ n \in next[m]
    BY <1>1 DEF Reaches, BothWays
  <2>2. m \notin seen
    BY <1>3, <2>1 DEF Closed
  <2> QED BY <1>1, <2>2 DEF Reaches, Closed
<1>5. B \subseteq A
  BY <1>1, <1>4 DEF Reaches
<1> QED BY <1>2, <1>5 DEF A, B

-----------------------------------------------------------------------------
(* getConnectedComponents                                                   *)

\* A layer that is small enough and whose edges all have their reverse.
Edges(l) == [n \in Nodes(l) |-> ToSet(graph[l][n])]
Undirected(l) ==
  /\ Len(graph[l]) \in 0 .. MaxVecs /\ Nodes(l) = 1 .. Len(graph[l])
  /\ \A n \in Nodes(l) : /\ graph[l][n] \in Seq(Nat)
                         /\ ToSet(graph[l][n]) \subseteq Nodes(l) \ {n}
  /\ BothWays(Nodes(l), Edges(l))

\* The component of a node, and what getConnectedComponents has visited when
\* it is past node i.
Component(l, i) == Walk(l, i, {})
Visited(l, i) == UNION {Component(l, j) : j \in 1 .. i}

LEMMA LayerSize ==
  ASSUME NEW l, Undirected(l)
  PROVE  /\ Len(graph[l]) \in Nat /\ Len(graph[l]) <= MaxVecs
         /\ IsFiniteSet(Nodes(l)) /\ Cardinality(Nodes(l)) <= MaxVecs
         /\ Edges(l) \in [Nodes(l) -> SUBSET Nodes(l)]
<1> DEFINE len == Len(graph[l])
<1>1. len \in Nat /\ len <= MaxVecs /\ MaxVecs \in Nat /\ Nodes(l) = 1 .. len
  BY ParameterAssumption DEF Undirected
<1>2. Edges(l) \in [Nodes(l) -> SUBSET Nodes(l)]
  <2>1. \A n \in Nodes(l) : ToSet(graph[l][n]) \in SUBSET Nodes(l)
    BY DEF Undirected
  <2> QED BY <2>1 DEF Edges
<1> HIDE DEF len
<1>3. IsFiniteSet(1 .. len) /\ Cardinality(1 .. len) = len
  BY <1>1, UptoSize
<1> QED BY <1>1, <1>2, <1>3 DEF len

LEMMA ComponentFacts ==
  ASSUME NEW l, Undirected(l), NEW i \in Nodes(l)
  PROVE  /\ Reaches(Component(l, i), Nodes(l), i, {}, Edges(l))
         /\ \A j \in Component(l, i) : j \in Nodes(l) /\ Component(l, j) = Component(l, i)
<1>1. \A k : Component(l, k) = Spread(k, {}, Edges(l))
  BY DEF Component, Walk, Edges
<1>2. BothWays(Nodes(l), Edges(l))
  BY DEF Undirected
<1>3. Reaches(Component(l, i), Nodes(l), i, {}, Edges(l))
  BY <1>1, LayerSize, SpreadReaches
<1>4. ASSUME NEW j \in Component(l, i)
      PROVE  j \in Nodes(l) /\ Component(l, j) = Component(l, i)
  BY <1>1, <1>2, LayerSize, SameComponent
<1> QED BY <1>3, <1>4

LEMMA VisitedFacts ==
  ASSUME NEW l, Undirected(l), NEW i \in 0 .. Len(graph[l])
  PROVE  /\ Visited(l, i) \in SUBSET Nodes(l) /\ Closed(Visited(l, i), {}, Edges(l))
         /\ \A x : x \in Visited(l, i) <=> \E j \in 1 .. i : x \in Component(l, j)
<1>1. \A x : x \in Visited(l, i) <=> \E j \in 1 .. i : x \in Component(l, j)
  BY DEF Visited
<1>2. \A j \in 1 .. i : j \in Nodes(l)
  BY LayerSize DEF Undirected
<1>3. \A j \in 1 .. i : Reaches(Component(l, j), Nodes(l), j, {}, Edges(l))
  BY <1>2, ComponentFacts
<1>4. Visited(l, i) \in SUBSET Nodes(l)
  BY <1>1, <1>3 DEF Reaches
<1>5. Closed(Visited(l, i), {}, Edges(l))
  <2> SUFFICES ASSUME NEW n \in Visited(l, i), NEW m \in Edges(l)[n]
               PROVE  m \in Visited(l, i)
    BY DEF Closed
  <2>1. PICK j \in 1 .. i : n \in Component(l, j)
    BY <1>1
  <2>2. m \in Component(l, j)
    BY <1>3, <2>1 DEF Reaches, Closed
  <2> QED BY <1>1, <2>2
<1> QED BY <1>1, <1>4, <1>5

\* A node met before is in the component of an earlier node, and its walk
\* would find that component again.
LEMMA VisitedNext ==
  ASSUME NEW l, Undirected(l), NEW i \in Nodes(l)
  PROVE  /\ i - 1 \in 0 .. Len(graph[l])
         /\ i \in Visited(l, i - 1) => Visited(l, i) = Visited(l, i - 1)
         /\ i \notin Visited(l, i - 1) =>
              /\ Walk(l, i, Visited(l, i - 1)) = Component(l, i)
              /\ Visited(l, i) = Visited(l, i - 1) \cup Component(l, i)
<1>1. i \in 1 .. Len(graph[l]) /\ Len(graph[l]) \in Nat
  BY LayerSize DEF Undirected
<1>2. i - 1 \in 0 .. Len(graph[l]) /\ i \in 0 .. Len(graph[l])
  BY <1>1
<1>3. 1 .. i = (1 .. i - 1) \cup {i}
  BY <1>1
<1>4. Visited(l, i) = Visited(l, i - 1) \cup Component(l, i)
  <2>1. \A x : x \in Visited(l, i) <=> x \in Visited(l, i - 1) \/ x \in Component(l, i)
    BY <1>2, <1>3, VisitedFacts
  <2> QED BY <2>1
<1>5. ASSUME i \in Visited(l, i - 1) PROVE Visited(l, i) = Visited(l, i - 1)
  <2>1. PICK j \in 1 .. i - 1 : i \in Component(l, j)
    BY <1>2, <1>5, VisitedFacts
  <2>2. j \in Nodes(l)
    BY <1>1 DEF Undirected
  <2>3. Component(l, i) = Component(l, j)
    BY <2>1, <2>2, ComponentFacts
  <2>4. Component(l, j) \subseteq Visited(l, i - 1)
    BY <1>2, VisitedFacts
  <2> QED BY <1>4, <2>3, <2>4
<1>6. ASSUME i \notin Visited(l, i - 1)
      PROVE  Walk(l, i, Visited(l, i - 1)) = Component(l, i)
  <2> DEFINE seen == Visited(l, i - 1)
             N == Nodes(l)
             next == Edges(l)
  <2>1. /\ seen \in SUBSET N /\ Closed(seen, {}, next) /\ i \in N \ seen
    BY <1>2, <1>6, VisitedFacts
  <2>2. /\ IsFiniteSet(N) /\ Cardinality(N) <= MaxVecs /\ next \in [N -> SUBSET N]
        /\ BothWays(N, next)
    BY LayerSize DEF Undirected
  <2>3. /\ Walk(l, i, seen) = Spread(i, seen, next)
        /\ Component(l, i) = Spread(i, {}, next)
    BY DEF Component, Walk, Edges
  <2> HIDE DEF seen, N, next
  <2>4. Spread(i, seen, next) = Spread(i, {}, next)
    BY <2>1, <2>2, WalkUnseen
  <2> QED BY <2>3, <2>4 DEF seen
<1> QED BY <1>2, <1>4, <1>5, <1>6

\* The components found are those of the nodes no earlier walk has met.
LEMMA ComponentsAre ==
  ASSUME NEW l, Undirected(l)
  PROVE  Components(l) = {<<i, Component(l, i)>> :
                            i \in {n \in Nodes(l) : n \notin Visited(l, n - 1)}}
<1> DEFINE e(v, i) == IF i = 0 THEN {}
                      ELSE IF i \in v[i-1] THEN v[i-1]
                      ELSE v[i-1] \cup Walk(l, i, v[i-1])
           len == Len(graph[l])
           f == CHOOSE v : v = [i \in 0 .. len |-> e(v, i)]
           g == [i \in 0 .. len |-> Visited(l, i)]
<1>1. len \in Nat /\ Nodes(l) = 1 .. len
  BY LayerSize DEF Undirected
<1>2. Components(l) = {<<i, Walk(l, i, f[i-1])>> : i \in {n \in Nodes(l) : n \notin f[n-1]}}
  BY DEF Components
<1>3. \A i \in 0 .. len : g[i] = Visited(l, i)
  OBVIOUS
<1>4. \A i \in 0 .. len : g[i] = e(g, i)
  <2> TAKE i \in 0 .. len
  <2>1. CASE i = 0
    <3>1. Visited(l, 0) = {}
      BY DEF Visited
    <3> QED BY <1>3, <2>1, <3>1
  <2>2. CASE i # 0
    <3>1. i \in Nodes(l) /\ i - 1 \in 0 .. len
      BY <1>1, <2>2
    <3>2. g[i-1] = Visited(l, i - 1) /\ g[i] = Visited(l, i)
      BY <1>3, <3>1
    <3> HIDE DEF g
    <3> QED BY <2>2, <3>1, <3>2, VisitedNext
  <2> QED BY <2>1, <2>2
<1>5. g = [i \in 0 .. len |-> e(g, i)]
  <2> HIDE DEF e
  <2>1. g = [i \in 0 .. len |-> g[i]]
    OBVIOUS
  <2> HIDE DEF g
  <2> QED BY <1>4, <2>1
<1>6. \A i \in 0 .. len : f[i] = e(f, i)
  <2> HIDE DEF e, g
  <2>1. f = [i \in 0 .. len |-> e(f, i)]
    BY <1>5
  <2> HIDE DEF f
  <2> QED BY <2>1
<1> HIDE DEF f, g, len
<1>7. \A i \in 0 .. len : f[i] = g[i]
  <2> DEFINE T == {i \in Nat : i \in 0 .. len => f[i] = g[i]}
  <2>1. 0 \in T
    <3>1. 0 \in 0 .. len
      BY <1>1
    <3>2. f[0] = {} /\ g[0] = {}
      BY <1>4, <1>6, <3>1
    <3> QED BY <3>2
  <2>2. ASSUME NEW i \in Nat, i \in T PROVE i + 1 \in T
    <3> SUFFICES ASSUME i + 1 \in 0 .. len PROVE f[i + 1] = g[i + 1]
      OBVIOUS
    <3>1. i \in 0 .. len /\ i + 1 # 0 /\ i + 1 - 1 = i
      BY <1>1
    <3>2. f[i] = g[i]
      BY <2>2, <3>1
    <3>3. f[i + 1] = e(f, i + 1) /\ g[i + 1] = e(g, i + 1)
      BY <1>4, <1>6
    <3>4. e(f, i + 1) = e(g, i + 1)
      BY <3>1, <3>2
    <3> QED BY <3>3, <3>4
  <2> HIDE DEF T
  <2>3. Nat \subseteq T
    BY <2>1, <2>2, NumbersFromZero
  <2> QED BY <1>1, <2>3 DEF T
<1>8. \A i \in Nodes(l) : f[i-1] = Visited(l, i - 1)
  BY <1>1, <1>3, <1>7
<1>9. \A i \in Nodes(l) : i \notin Visited(l, i - 1) =>
        Walk(l, i, f[i-1]) = Component(l, i)
  BY <1>8, VisitedNext
<1> DEFINE firsts == {n \in Nodes(l) : n \notin Visited(l, n - 1)}
<1>10. {n \in Nodes(l) : n \notin f[n-1]} = firsts
  BY <1>8
<1>11. \A i \in firsts : <<i, Walk(l, i, f[i-1])>> = <<i, Component(l, i)>>
  BY <1>9
<1> HIDE DEF firsts
<1>12. {<<i, Walk(l, i, f[i-1])>> : i \in firsts} = {<<i, Component(l, i)>> : i \in firsts}
  BY <1>11
<1> QED BY <1>2, <1>10, <1>12 DEF firsts

\* Each component has a node no earlier walk has met, and one only.
LEMMA FirstOfComponent ==
  ASSUME NEW l, Undirected(l)
  PROVE  \A n \in Nodes(l) : \E i \in Nodes(l) :
           i \notin Visited(l, i - 1) /\ Component(l, i) = Component(l, n)
<1> DEFINE First(n) == \E i \in Nodes(l) :
                         /\ i <= n /\ i \notin Visited(l, i - 1)
                         /\ Component(l, i) = Component(l, n)
           T == {n \in Nat : \A m \in 1 .. n : m \in Nodes(l) => First(m)}
<1>1. 0 \in T
  OBVIOUS
<1>2. ASSUME NEW n \in Nat, n \in T PROVE n + 1 \in T
  <2>1. ASSUME n + 1 \in Nodes(l) PROVE First(n + 1)
    <3>1. CASE n + 1 \notin Visited(l, n)
      BY <2>1, <3>1
    <3>2. CASE n + 1 \in Visited(l, n)
      <4>1. n \in 0 .. Len(graph[l]) /\ Len(graph[l]) \in Nat
        BY <2>1, LayerSize DEF Undirected
      <4>2. PICK j \in 1 .. n : n + 1 \in Component(l, j)
        BY <3>2, <4>1, VisitedFacts
      <4>3. j \in Nodes(l)
        BY <4>1, <4>2 DEF Undirected
      <4>4. Component(l, n + 1) = Component(l, j)
        BY <4>2, <4>3, ComponentFacts
      <4>5. First(j)
        BY <1>2, <4>3
      <4> QED BY <4>1, <4>4, <4>5 DEF Undirected
    <3> QED BY <3>1, <3>2
  <2> HIDE DEF First
  <2>2. ASSUME NEW m \in 1 .. n + 1, m \in Nodes(l) PROVE First(m)
    <3>1. CASE m = n + 1
      BY <2>1, <2>2, <3>1
    <3>2. CASE m # n + 1
      <4>1. m \in 1 .. n
        BY <3>2
      <4> QED BY <1>2, <2>2, <4>1
    <3> QED BY <3>1, <3>2
  <2> QED BY <2>2
<1> HIDE DEF T
<1>3. Nat \subseteq T
  BY <1>1, <1>2, NumbersFromZero
<1> SUFFICES ASSUME NEW n \in Nodes(l) PROVE First(n)
  OBVIOUS
<1>4. n \in Nat /\ n \in 1 .. n
  BY LayerSize DEF Undirected
<1> HIDE DEF First
<1> QED BY <1>3, <1>4 DEF T

LEMMA OneFirst ==
  ASSUME NEW l, Undirected(l), NEW i \in Nodes(l), NEW j \in Nodes(l),
         i \notin Visited(l, i - 1), j \notin Visited(l, j - 1),
         Component(l, i) = Component(l, j)
  PROVE  i = j
<1>1. /\ i \in 1 .. Len(graph[l]) /\ j \in 1 .. Len(graph[l]) /\ Len(graph[l]) \in Nat
      /\ i - 1 \in 0 .. Len(graph[l]) /\ j - 1 \in 0 .. Len(graph[l])
  BY LayerSize DEF Undirected
<1>2. i \in Component(l, j) /\ j \in Component(l, i)
  BY ComponentFacts DEF Reaches
<1>3. ~ (i < j)
  <2>1. i < j => i \in 1 .. j - 1
    BY <1>1
  <2> QED BY <1>1, <1>2, <2>1, VisitedFacts
<1>4. ~ (j < i)
  <2>1. j < i => j \in 1 .. i - 1
    BY <1>1
  <2> QED BY <1>1, <1>2, <2>1, VisitedFacts
<1> QED BY <1>1, <1>3, <1>4

\* As many as there are of one kind as of the other.
LEMMA OneEach ==
  ASSUME NEW S, NEW T, IsFiniteSet(S), NEW f \in [S -> T],
         \A x, y \in S : f[x] = f[y] => x = y, \A z \in T : \E x \in S : f[x] = z
  PROVE  Cardinality(T) = Cardinality(S)
<1>1. f \in Bijection(S, T)
  BY DEF Bijection, Injection, Surjection, IsInjective
<1>2. ExistsBijection(S, T)
  BY <1>1 DEF ExistsBijection
<1> QED BY <1>2, FS_Bijection

LEMMA UndirectedConnected ==
  ASSUME NEW l, Undirected(l)
  PROVE  \A n : Connected(l, n) = Component(l, n)
<1> DEFINE N == Nodes(l)
           both == [a \in N |-> {b \in N : \/ Contains(graph[l][a], b)
                                        \/ Contains(graph[l][b], a)}]
<1>1. \A n : Connected(l, n) = Spread(n, {}, both) /\ Component(l, n) = Spread(n, {}, Edges(l))
  BY DEF Connected, Component, Walk, Edges
<1>2. ASSUME NEW a \in N, NEW b PROVE b \in ToSet(graph[l][a]) <=> Contains(graph[l][a], b)
  <2>1. graph[l][a] \in Seq(Nat)
    BY DEF Undirected
  <2> DEFINE s == graph[l][a]
  <2>2. DOMAIN s = 1 .. Len(s)
    BY <2>1
  <2> HIDE DEF s
  <2>3. b \in ToSet(s) <=> Contains(s, b)
    BY <2>2 DEF ToSet, Contains
  <2> QED BY <2>3 DEF s
<1>3. ASSUME NEW a \in N PROVE both[a] = ToSet(graph[l][a])
  <2>1. ToSet(graph[l][a]) \subseteq N
    BY DEF Undirected
  <2>2. \A b \in N : a \in ToSet(graph[l][b]) => b \in ToSet(graph[l][a])
    BY DEF Undirected, BothWays, Edges
  <2>3. \A b \in N : b \in both[a] <=> b \in ToSet(graph[l][a])
    BY <1>2, <2>2
  <2> QED BY <2>1, <2>3
<1>4. both = Edges(l)
  BY <1>3 DEF Edges
<1> HIDE DEF both
<1> QED BY <1>1, <1>4

\* What is counted of a layer.
LEMMA LayerCounted ==
  ASSUME NEW l, Undirected(l)
  PROVE  getConnectedComponents(l) =
           [num_components |-> Cardinality({Connected(l, n) : n \in Nodes(l)}),
            largest_component_size |-> MaxSize({Connected(l, n) : n \in Nodes(l)}),
            isolated_nodes |-> Cardinality({n \in Nodes(l) : Connected(l, n) = {n}})]
<1> DEFINE firsts == {n \in Nodes(l) : n \notin Visited(l, n - 1)}
           all == {Connected(l, n) : n \in Nodes(l)}
           found == Components(l)
           named == [i \in firsts |-> <<i, Component(l, i)>>]
           bare == [i \in firsts |-> Component(l, i)]
<1>1. found = {<<i, Component(l, i)>> : i \in firsts}
  BY ComponentsAre
<1>2. all = {Component(l, n) : n \in Nodes(l)}
  BY UndirectedConnected
<1>3. IsFiniteSet(firsts)
  <2>1. firsts \in SUBSET Nodes(l)
    OBVIOUS
  <2> HIDE DEF firsts
  <2> QED BY <2>1, LayerSize, FS_Subset
<1>4. \A z \in all : \E i \in firsts : Component(l, i) = z
  BY <1>2, FirstOfComponent
<1>5. \A i, j \in firsts : Component(l, i) = Component(l, j) => i = j
  BY OneFirst
<1>6. \A i \in firsts : Component(l, i) \in all
  BY <1>2
<1> HIDE DEF firsts, all, found
<1>7. Cardinality(found) = Cardinality(firsts)
  <2>1. named \in [firsts -> found] /\ \A z \in found : \E i \in firsts : named[i] = z
    BY <1>1
  <2>2. \A i, j \in firsts : named[i] = named[j] => i = j
    OBVIOUS
  <2> HIDE DEF named
  <2> QED BY <1>3, <2>1, <2>2, OneEach
<1>8. Cardinality(all) = Cardinality(firsts)
  <2>1. bare \in [firsts -> all] /\ \A z \in all : \E i \in firsts : bare[i] = z
    BY <1>4, <1>6
  <2>2. \A i, j \in firsts : bare[i] = bare[j] => i = j
    BY <1>5
  <2> HIDE DEF bare
  <2> QED BY <1>3, <2>1, <2>2, OneEach
<1>9. {c[2] : c \in found} = all
  <2>1. \A i \in firsts : <<i, Component(l, i)>> \in found
    BY <1>1
  <2>3. \A c \in found : \E i \in firsts : c[2] = Component(l, i)
    BY <1>1
  <2>4. \A i \in firsts : \E c \in found : c[2] = Component(l, i)
    <3> TAKE i \in firsts
    <3>1. <<i, Component(l, i)>>[2] = Component(l, i)
      OBVIOUS
    <3> QED BY <2>1, <3>1
  <2>2. \A z : z \in all <=> \E i \in firsts : z = Component(l, i)
    BY <1>4, <1>6
  <2> QED BY <2>2, <2>3, <2>4
<1>10. ASSUME NEW n \in Nodes(l) PROVE graph[l][n] = <<>> <=> Connected(l, n) = {n}
  <2> DEFINE s == graph[l][n]
             C == Component(l, n)
  <2>1. /\ s \in Seq(Nat) /\ ToSet(s) \subseteq Nodes(l) \ {n} /\ Connected(l, n) = C
        /\ Edges(l)[n] = ToSet(s)
    BY UndirectedConnected DEF Undirected, Edges
  <2>2. Reaches(C, Nodes(l), n, {}, Edges(l))
    BY ComponentFacts
  <2> HIDE DEF s, C
  <2>3. s = <<>> <=> ToSet(s) = {}
    <3>1. DOMAIN s = 1 .. Len(s) /\ Len(s) \in Nat
      BY <2>1
    <3>2. CASE s = <<>>
      BY <3>1, <3>2 DEF ToSet
    <3>3. CASE s # <<>>
      <4>1. 1 \in DOMAIN s
        BY <2>1, <3>1, <3>3
      <4> QED BY <3>3, <4>1 DEF ToSet
    <3> QED BY <3>2, <3>3
  <2>4. ASSUME ToSet(s) = {} PROVE C = {n}
    <3>1. {n} \in SUBSET Nodes(l) /\ n \in {n} /\ Closed({n}, {}, Edges(l))
      BY <2>1, <2>4 DEF Closed
    <3> QED BY <2>2, <3>1 DEF Reaches
  <2>5. ASSUME C = {n} PROVE ToSet(s) = {}
    BY <2>1, <2>2, <2>5 DEF Reaches, Closed
  <2> QED BY <2>1, <2>3, <2>4, <2>5 DEF s
<1>11. {n \in Nodes(l) : graph[l][n] = <<>>} = {n \in Nodes(l) : Connected(l, n) = {n}}
  BY <1>10
<1> QED BY <1>7, <1>8, <1>9, <1>11 DEF getConnectedComponents, all, found

-----------------------------------------------------------------------------
(* How large a layer can be                                                 *)

Capacity == Len(storage) <= MaxVecs

LEMMA InitCapacity == Init => Capacity
BY ParameterAssumption DEF Init, Capacity

LEMMA NextCapacity == IInv /\ Capacity /\ [Next]_vars => Capacity'
<1> SUFFICES ASSUME IInv, Capacity, [Next]_vars PROVE Capacity'
  OBVIOUS
<1>1. CASE Add
  <2>1. PICK n \in BatchSizes : /\ Len(storage) + n <= MaxVecs
                                /\ \E batch \in [1 .. n -> Points \ ToSet(storage)] :
                                     storage' = storage \o batch
    BY <1>1 DEF Add
  <2>2. PICK batch \in [1 .. n -> Points \ ToSet(storage)] : storage' = storage \o batch
    BY <2>1
  <2>3. n \in Nat /\ storage \in Seq(Points)
    BY <2>1, ParameterAssumption DEF IInv, TypeOK
  <2>4. batch \in Seq(Points) /\ Len(batch) = n
    BY <2>3
  <2>5. Len(storage') = Len(storage) + n
    BY <2>2, <2>3, <2>4
  <2> QED BY <2>1, <2>5 DEF Capacity
<1>2. CASE reset
  BY <1>2, ParameterAssumption DEF reset, Capacity
<1>3. CASE AddEnd \/ Undefined \/ UNCHANGED vars
  BY <1>3 DEF AddEnd, Undefined, vars, indexVars, Capacity
<1>4. ASSUME NEW t \in Threads, ThreadStep(t) PROVE Capacity'
  BY <1>4, ThreadKeepsVectors DEF Capacity
<1> QED BY <1>1, <1>2, <1>3, <1>4 DEF Next

\* A layer has no more nodes than the index may have vectors.
LEMMA LayersFit ==
  ASSUME IInv, Shared, Once, Capacity
  PROVE  \A l \in Layers : Len(graph[l]) \in 0 .. MaxVecs
<1> DEFINE s == indexes[0]
<1>1. /\ s \in Seq(Nat) /\ 0 \in Layers /\ claimed \in Nat /\ claimed <= Len(storage)
      /\ Len(storage) \in Nat /\ MaxVecs \in Nat
  BY TopLayerType, ParameterAssumption DEF IInv, TypeOK, Layers, TeamAtRest
<1>2. IsInjective(s) /\ ToSet(s) \subseteq 1 .. claimed
  BY DEF Once, Shared, Indexed
<1> HIDE DEF s
<1>3. DOMAIN s = 1 .. Len(s) /\ Len(s) \in Nat
  BY <1>1
<1>4. s \in Injection(1 .. Len(s), 1 .. claimed)
  <2>1. \A i \in 1 .. Len(s) : s[i] \in 1 .. claimed
    BY <1>2, <1>3 DEF ToSet
  <2>2. s \in [1 .. Len(s) -> 1 .. claimed]
    BY <1>1, <1>3, <2>1
  <2> QED BY <1>2, <1>3, <2>2 DEF Injection, IsInjective
<1>5. Len(s) <= claimed
  <2>1. /\ IsFiniteSet(1 .. claimed) /\ Cardinality(1 .. claimed) = claimed
        /\ Cardinality(1 .. Len(s)) = Len(s)
    BY <1>1, <1>3, UptoSize
  <2> QED BY <1>4, <2>1, FS_Injection
<1>6. Len(s) <= MaxVecs
  BY <1>1, <1>3, <1>5 DEF Capacity
<1> SUFFICES ASSUME NEW l \in Layers PROVE Len(graph[l]) \in 0 .. MaxVecs
  OBVIOUS
<1>7. Len(graph[l]) \in Nat /\ Nodes(l) = 1 .. Len(graph[l]) /\ Nodes(0) = 1 .. Len(s)
  BY <1>1, Lists DEF Nodes, s
<1>8. Nodes(l) \subseteq Nodes(0)
  <2>1. l \in Nat /\ 0 \in 0 .. l
    BY TopLayerType DEF Layers
  <2> QED BY <2>1 DEF IInv, LayersNested
<1>9. Len(graph[l]) <= Len(s)
  <2> SUFFICES ASSUME ~ (Len(graph[l]) <= Len(s)) PROVE FALSE
    OBVIOUS
  <2>1. Len(graph[l]) \in Nodes(l) /\ Len(graph[l]) \notin Nodes(0)
    BY <1>3, <1>7
  <2> QED BY <1>8, <2>1
<1> QED BY <1>1, <1>3, <1>6, <1>7, <1>9

LEMMA LayerUndirected ==
  ASSUME IInv, Shared, Once, Capacity, Quiescent, Bidirectional, NEW l \in Layers
  PROVE  Undirected(l)
<1>1. Len(graph[l]) \in 0 .. MaxVecs /\ Nodes(l) = 1 .. Len(graph[l])
  BY LayersFit, Lists
<1>2. ASSUME NEW n \in Nodes(l)
      PROVE  graph[l][n] \in Seq(Nat) /\ ToSet(graph[l][n]) \subseteq Nodes(l) \ {n}
  <2>1. graph[l] \in Seq(Seq(Nat)) /\ n \in 1 .. Len(graph[l])
    BY <1>1, Lists
  <2>2. graph[l][n] \in Seq(Nat)
    BY <2>1
  <2> QED BY <2>2, Lists
<1>3. ASSUME NEW n \in Nodes(l), NEW m \in Edges(l)[n] PROVE n \in Edges(l)[m]
  <2>1. m \in ToSet(graph[l][n])
    BY DEF Edges
  <2>2. m \in Nodes(l) /\ \A k \in Nodes(l) : graph[l][k] \in Seq(Nat)
    BY <1>2, <2>1
  <2>3. PICK i \in DOMAIN graph[l][n] : graph[l][n][i] = m
    BY <2>1 DEF ToSet
  <2>4. Contains(graph[l][m], n)
    BY <2>3 DEF Bidirectional
  <2> DEFINE s == graph[l][m]
  <2>5. s \in Seq(Nat) /\ Contains(s, n)
    BY <2>2, <2>4
  <2> HIDE DEF s
  <2>6. DOMAIN s = 1 .. Len(s)
    BY <2>5
  <2>7. n \in ToSet(s)
    BY <2>5, <2>6 DEF Contains, ToSet
  <2> QED BY <2>2, <2>7 DEF Edges, s
<1> QED BY <1>1, <1>2, <1>3 DEF Undirected, BothWays

LEMMA AllCounted ==
  IInv /\ Shared /\ Once /\ Capacity => (Bidirectional => ComponentsCounted)
<1> SUFFICES ASSUME IInv, Shared, Once, Capacity, Bidirectional, Quiescent,
                    NEW l \in 0 .. layers - 1
             PROVE  getConnectedComponents(l) =
                      [num_components |-> Cardinality({Connected(l, n) : n \in Nodes(l)}),
                       largest_component_size |-> MaxSize({Connected(l, n) : n \in Nodes(l)}),
                       isolated_nodes |-> Cardinality({n \in Nodes(l) : Connected(l, n) = {n}})]
  BY DEF ComponentsCounted
<1>1. l \in Layers
  <2>1. layers \in 0 .. TopLayer + 1
    BY DEF IInv, TypeOK
  <2> QED BY <2>1, TopLayerType DEF Layers
<1> QED BY <1>1, LayerUndirected, LayerCounted

\* A step of the client, whatever it is, is a step of add() or leaves the
\* index alone.
LEMMA BuildStep == [NextSearch]_<<vars, searchVars>> => [Next]_vars
BY DEF NextSearch, SearchStep, search, StorageSearch, searchLayer, Descend,
       searchSingle, Return

\* For any team: whenever every edge has its reverse, the components that
\* getConnectedComponents counts are those of the undirected graph, although
\* its walks follow edges one way only (HierarchicalGraph.cpp:716-717), and
\* however the walks before have marked the nodes.
THEOREM MutualIsCounted == SearchSpec => [](Bidirectional => ComponentsCounted)
<1>1. InitSearch => Whole /\ Capacity
  BY InitWhole, InitCapacity DEF InitSearch
<1>2. Whole /\ Capacity /\ [NextSearch]_<<vars, searchVars>> => (Whole /\ Capacity)'
  BY NextWhole, NextCapacity, BuildStep DEF Whole, SearchInv
<1>3. Whole /\ Capacity => (Bidirectional => ComponentsCounted)
  BY AllCounted DEF Whole, SearchInv
<1> QED BY <1>1, <1>2, <1>3, PTL DEF SearchSpec

-----------------------------------------------------------------------------
(* One thread                                                               *)

\* What is known of the index, the query and the only thread.
Sole(t) == Whole /\ Capacity /\ Alone(t)

LEMMA InitSole ==
  ASSUME NEW t, Threads = {t}
  PROVE  InitSearch => Sole(t)
BY InitWhole, InitCapacity, InitAlone DEF Sole, InitSearch

LEMMA NextSole ==
  ASSUME NEW t, Threads = {t}
  PROVE  Sole(t) /\ [NextSearch]_<<vars, searchVars>> => Sole(t)'
<1> SUFFICES ASSUME Sole(t), [NextSearch]_<<vars, searchVars>> PROVE Sole(t)'
  OBVIOUS
<1>1. Whole /\ IInv /\ Capacity /\ Alone(t) /\ [Next]_vars
  BY BuildStep DEF Sole, Whole, SearchInv
<1>2. Whole'
  BY <1>1, NextWhole
<1>3. Capacity' /\ Alone(t)'
  BY <1>1, NextCapacity, NextAlone
<1> QED BY <1>2, <1>3 DEF Sole

\* With one thread every edge of a finished graph has its reverse, and the
\* statistics of the layers are right.
THEOREM ComponentsCountedAlone ==
  ASSUME NEW CONSTANT t, Threads = {t}
  PROVE  SearchSpec => []ComponentsCounted
<1>1. InitSearch => Sole(t)
  BY InitSole
<1>2. Sole(t) /\ [NextSearch]_<<vars, searchVars>> => Sole(t)'
  BY NextSole
<1>3. Sole(t) => ComponentsCounted
  BY QuiescentAlone, AllCounted DEF Sole, Whole, SearchInv
<1> QED BY <1>1, <1>2, <1>3, PTL DEF SearchSpec

-----------------------------------------------------------------------------
(* One thread and no list to prune: each layer is connected                 *)

\* No list is long enough to be pruned.
NeverPruned == \A u \in Threads : pc[u] \notin Pruning

\* Edges lead from the entry point of the layer to every node that is not loose.
Spans(l, loose) ==
  \A C \in SUBSET Nodes(l) :
    getEntryPoint \in C /\ (\A n \in C : ToSet(graph[l][n]) \subseteq C) =>
      Nodes(l) \ loose \subseteq C

\* The layers in which t has yet to link the vector it inserts, and the nodes
\* that may hang loose for that.
Untied(t) ==
  IF pc[t] \in Sinking THEN 0 .. FirstLinkedLayer(job[t])
  ELSE IF pc[t] = "search" \/ (pc[t] = "link" /\ cands[t] # {}) THEN 0 .. job[t].layer
  ELSE IF pc[t] \in Linking THEN 0 .. job[t].layer - 1
  ELSE {}
Loose(t, l) == {n \in Nodes(l) : l \in Untied(t) /\ indexes[l][n] = job[t].vec}
Spanned(t) == \A l \in Layers : Spans(l, Loose(t, l))

\* Node n of layer l is not the one t inserts, unless that is the first of all.
Foreign(t, l, n) == indexes[l][n] = job[t].vec => n = getEntryPoint /\ l = 0

\* The search for the new node's neighbours stays among other vectors' nodes.
Apart(t) ==
  LET j == job[t]
  IN /\ pc[t] \in {"descend", "search"} => \A n \in visited[t] : Foreign(t, j.layer, n)
     /\ pc[t] \in {"readTop", "remap"} => Foreign(t, FirstLinkedLayer(j), j.entry)
     /\ pc[t] \in {"link", "linkBack"} => \A c \in cands[t] : Foreign(t, j.layer, c)
     /\ pc[t] \in Linking /\ j.layer > 0 => Foreign(t, j.layer - 1, j.entry)

Joined(t) == Spanned(t) /\ Apart(t)

\* Lists that only grow still span the layer.
LEMMA SpannedKept ==
  ASSUME NEW t, Struct, Spanned(t),
         \A l \in Layers : l \in Untied(t) => l \in Untied(t)' /\ job'[t].vec = job[t].vec,
         \A l \in Layers : \A n \in Nodes(l) : ToSet(graph[l][n]) \subseteq ToSet(graph'[l][n])
  PROVE  Spanned(t)'
<1> SUFFICES ASSUME NEW l \in Layers, NEW C \in SUBSET Nodes(l)', getEntryPoint \in C,
                    \A n \in C : ToSet(graph'[l][n]) \subseteq C
             PROVE  Nodes(l)' \ Loose(t, l)' \subseteq C
  BY DEF Spanned, Spans, getEntryPoint
<1>1. C \in SUBSET Nodes(l) /\ \A n \in C : ToSet(graph[l][n]) \subseteq C
  BY NodesFrame
<1>2. Nodes(l) \ Loose(t, l) \subseteq C
  BY <1>1 DEF Spanned, Spans
<1>3. Loose(t, l) \subseteq Loose(t, l)'
  BY NodesFrame DEF Loose, Struct
<1> QED BY <1>2, <1>3, NodesFrame

LEMMA ReadingJoins ==
  ASSUME NEW t, Struct, graph' = graph, Spanned(t), Apart(t)',
         \A l \in Layers : l \in Untied(t) => l \in Untied(t)' /\ job'[t].vec = job[t].vec
  PROVE  Joined(t)'
BY SpannedKept DEF Joined

LEMMA RestJoins ==
  ASSUME NEW t \in Threads, Joined(t), UNCHANGED <<graphVars, pc, locals>>
  PROVE  Joined(t)'
<1>1. Struct /\ graph' = graph /\ UNCHANGED <<pc, job, visited, cands>>
  BY DEF Struct, graphVars, locals
<1>2. Apart(t)'
  BY <1>1 DEF Joined, Apart, Foreign, Struct, FirstLinkedLayer
<1>3. Untied(t)' = Untied(t)
  BY <1>1 DEF Untied, FirstLinkedLayer
<1> QED BY <1>1, <1>2, <1>3, ReadingJoins DEF Joined

LEMMA ReadMaxLayerJoins ==
  ASSUME IInv, NEW t \in Threads, Joined(t), ReadMaxLayer(t)
  PROVE  Joined(t)'
<1>1. pc[t] = "idle" /\ pc'[t] = "addNode" /\ Struct /\ graph' = graph
  BY AtWork DEF ReadMaxLayer, Goto, Struct, graphVars
<1>2. Apart(t)' /\ Untied(t) = {}
  BY <1>1 DEF Apart, Untied, Sinking, Linking
<1> QED BY <1>1, <1>2, ReadingJoins DEF Joined

LEMMA resetJoins ==
  ASSUME IInv, NEW t \in Threads, reset
  PROVE  Joined(t)'
<1>1. pc'[t] = "idle" /\ \A l \in Layers : Nodes(l)' = {}
  BY DEF reset, IInv, TeamAtRest, Nodes
<1>2. Apart(t)'
  BY <1>1 DEF Apart, Linking
<1>3. Spanned(t)'
  <2> SUFFICES ASSUME NEW l \in Layers PROVE Spans(l, Loose(t, l))'
    BY DEF Spanned
  <2>1. Nodes(l)' = {}
    BY <1>1
  <2> QED BY <2>1 DEF Spans
<1> QED BY <1>2, <1>3 DEF Joined

\* In a layer above 0 the thread holds no node of its own vector.
LEMMA ForeignBelow ==
  ASSUME IInv, NEW t \in Threads, NEW l \in Layers, l > 0, NEW n \in Nodes(l), Foreign(t, l, n)
  PROVE  indexes[l - 1][getDownwardsNode(l, n)] # job[t].vec
BY OneDown DEF Foreign

LEMMA ExpandJoins ==
  ASSUME IInv, NEW t \in Threads, AloneInv(t), Joined(t), Expand(t)
  PROVE  Joined(t)'
<1> DEFINE l == job[t].layer
<1>1. /\ pc[t] \in {"descend", "search"} /\ Struct
      /\ UNCHANGED <<storage, graph, pc, job, cands>>
  BY DEF Expand, Struct, graphVars, indexVars
<1>2. PICK n \in Best(l, Query(t), Frontier(t)) :
        visited' = [visited EXCEPT ![t] = visited[t] \cup
                      {graph[l][n][i] : i \in {k \in DOMAIN graph[l][n] : k <= M}}]
  BY DEF Expand
<1>3. /\ l \in Layers /\ l \in Nat /\ visited \in [Threads -> SUBSET Nat]
      /\ visited[t] \subseteq Nodes(l) /\ n \in visited[t]
  <2>1. visited[t] \subseteq Nodes(l) /\ visited \in [Threads -> SUBSET Nat]
    BY <1>1 DEF IInv, HeldNodesExist, ReadNodesExist, TypeOK
  <2>2. n \in visited[t]
    BY <1>2 DEF Best, Frontier, NearestOf
  <2> QED BY <2>1, <2>2, AtWork
<1>4. visited'[t] \subseteq visited[t] \cup ToSet(graph[l][n])
  <2>1. {graph[l][n][i] : i \in {k \in DOMAIN graph[l][n] : k <= M}} \subseteq ToSet(graph[l][n])
    BY DEF ToSet
  <2> QED BY <1>2, <1>3, <2>1
<1>5. ASSUME NEW m \in ToSet(graph[l][n]) PROVE Foreign(t, l, m)
  <2> SUFFICES ASSUME indexes[l][m] = job[t].vec PROVE FALSE
    BY DEF Foreign
  <2>1. m \in Nodes(l) /\ (n \in ToSet(graph[l][m]) \/ HalfEdge(t, l, n, m))
    BY <1>3, InLayer
  <2>2. n \in ToSet(graph[l][m])
    BY <1>1, <2>1 DEF HalfEdge
  <2>3. graph[l][m] = <<>>
    <3>1. l \in Unlinked(t)
      BY <1>1, <1>3 DEF Unlinked, Sinking
    <3> QED BY <1>3, <2>1, <3>1 DEF AloneInv, Fresh
  <2> QED BY <2>2, <2>3 DEF ToSet
<1>6. \A m \in visited'[t] : Foreign(t, l, m)
  BY <1>1, <1>4, <1>5 DEF Joined, Apart
<1>7. Apart(t)'
  BY <1>1, <1>6 DEF Apart, Foreign, Struct, Linking
<1>8. Untied(t)' = Untied(t)
  BY <1>1 DEF Untied, FirstLinkedLayer
<1> QED BY <1>1, <1>7, <1>8, ReadingJoins DEF Joined

LEMMA DescendEndJoins ==
  ASSUME IInv, NEW t \in Threads, Joined(t), DescendEnd(t)
  PROVE  Joined(t)'
<1> DEFINE l == job[t].layer
<1>1. /\ pc[t] = "descend" /\ Struct /\ graph' = graph
  BY DEF DescendEnd, Struct, graphVars, indexVars
<1>2. PICK n \in Best(job[t].layer, Query(t), visited[t]) :
        LET j == [job[t] EXCEPT !.entry = getDownwardsNode(job[t].layer, n),
                                !.layer = @ - 1]
        IN /\ job' = [job EXCEPT ![t] = j]
           /\ IF j.layer > j.assigned
              THEN StartSearch(t, j) /\ Goto(t, "descend")
              ELSE /\ visited' = [visited EXCEPT ![t] = {}]
                   /\ expanded' = [expanded EXCEPT ![t] = {}]
                   /\ Goto(t, "readTop")
  BY Zenon DEF DescendEnd
<1> DEFINE e == getDownwardsNode(l, n)
<1>3. /\ job'[t].vec = job[t].vec /\ job'[t].top = job[t].top
      /\ job'[t].assigned = job[t].assigned
      /\ job'[t].entry = e /\ job'[t].layer = l - 1
      /\ IF l - 1 > job[t].assigned THEN pc'[t] = "descend" /\ visited'[t] = {e}
         ELSE pc'[t] = "readTop"
  <2> DEFINE j == [job[t] EXCEPT !.entry = getDownwardsNode(l, n), !.layer = l - 1]
  <2>1. job[t] \in Jobs /\ visited \in [Threads -> SUBSET Nat]
    BY AtWork DEF IInv, TypeOK
  <2>2. /\ j.vec = job[t].vec /\ j.top = job[t].top /\ j.assigned = job[t].assigned
        /\ j.entry = e /\ j.layer = l - 1
    BY <2>1 DEF Jobs
  <2>3. /\ job' = [job EXCEPT ![t] = j]
        /\ IF j.layer > j.assigned
           THEN /\ visited' = [visited EXCEPT ![t] = {j.entry}]
                /\ pc' = [pc EXCEPT ![t] = "descend"]
           ELSE pc' = [pc EXCEPT ![t] = "readTop"]
    BY <1>2 DEF StartSearch, Goto
  <2> HIDE DEF j, e
  <2> QED BY <2>1, <2>2, <2>3, AtWork
<1>4. /\ l \in Layers /\ l \in Nat /\ job[t].assigned \in Nat /\ job[t].top \in Nat
      /\ job[t].assigned < l /\ l <= job[t].top
      /\ visited[t] \subseteq Nodes(l) /\ n \in Nodes(l) /\ Foreign(t, l, n)
  <2>1. job[t].assigned < l /\ l <= job[t].top /\ visited[t] \subseteq Nodes(l)
    BY <1>1 DEF IInv, HeldNodesExist, JobNodesExist, ReadNodesExist
  <2>2. n \in visited[t]
    BY DEF Best
  <2> QED BY <1>1, <2>1, <2>2, AtWork DEF Joined, Apart
<1>5. indexes[l - 1][e] # job[t].vec
  BY <1>4, ForeignBelow
<1>6. pc'[t] = "readTop" => FirstLinkedLayer(job'[t]) = l - 1
  <2> SUFFICES ASSUME pc'[t] = "readTop" PROVE FirstLinkedLayer(job'[t]) = l - 1
    OBVIOUS
  <2>1. ~ (l - 1 > job[t].assigned)
    BY <1>3
  <2>2. job[t].assigned = l - 1 /\ ~ (job[t].top <= job[t].assigned)
    BY <1>4, <2>1
  <2> QED BY <1>3, <2>2 DEF FirstLinkedLayer
<1> HIDE DEF e
<1>7. Apart(t)'
  <2>1. indexes'[l - 1][e] # job'[t].vec
    BY <1>1, <1>3, <1>5 DEF Struct
  <2>2. CASE pc'[t] = "descend"
    BY <1>3, <2>1, <2>2 DEF Apart, Foreign, Linking
  <2>3. CASE pc'[t] = "readTop"
    BY <1>3, <1>6, <2>1, <2>3 DEF Apart, Foreign, Linking
  <2> QED BY <1>3, <2>2, <2>3
<1>8. Untied(t)' = Untied(t)
  BY <1>1, <1>3 DEF Untied, Sinking, FirstLinkedLayer
<1> QED BY <1>1, <1>3, <1>7, <1>8, ReadingJoins DEF Joined

\* ReadTop and Remap keep the entry.
LEMMA SinkJoins ==
  ASSUME IInv, NEW t \in Threads, Joined(t), ReadTop(t) \/ Remap(t)
  PROVE  Joined(t)'
<1>1. /\ pc[t] \in {"readTop", "remap"} /\ pc'[t] = "remap" /\ Struct /\ graph' = graph
  BY AtWork DEF ReadTop, Remap, Goto, Struct, graphVars
<1>2. /\ job'[t].vec = job[t].vec /\ job'[t].top = job[t].top
      /\ job'[t].assigned = job[t].assigned /\ job'[t].entry = job[t].entry
  <2>1. job[t] \in Jobs
    BY AtWork
  <2>2. CASE Remap(t)
    <3> DEFINE n == getDownwardsNode(job[t].layer, job[t].node)
    <3>1. job' = [job EXCEPT ![t] = [job[t] EXCEPT !.node = n, !.layer = job[t].layer - 1]]
      BY <2>2 DEF Remap, NodeBelow
    <3> HIDE DEF n
    <3> QED BY <2>1, <3>1, AtWork DEF Jobs
  <2>3. CASE ReadTop(t)
    <3>1. job' = [job EXCEPT ![t] = [job[t] EXCEPT !.layer = getMaxLayer]]
      BY <2>3, AtWork DEF ReadTop
    <3> QED BY <2>1, <3>1, AtWork DEF Jobs
  <2> QED BY <2>2, <2>3
<1>3. FirstLinkedLayer(job'[t]) = FirstLinkedLayer(job[t])
  BY <1>2 DEF FirstLinkedLayer
<1>4. Apart(t)'
  BY <1>1, <1>2, <1>3 DEF Joined, Apart, Foreign, Struct, Linking
<1>5. Untied(t)' = Untied(t)
  BY <1>1, <1>3 DEF Untied, Sinking
<1> QED BY <1>1, <1>2, <1>4, <1>5, ReadingJoins DEF Joined

LEMMA RemapEndJoins ==
  ASSUME IInv, NEW t \in Threads, Joined(t), RemapEnd(t)
  PROVE  Joined(t)'
<1> DEFINE k == FirstLinkedLayer(job[t])
<1>1. /\ pc[t] = "remap" /\ pc'[t] = "search" /\ Struct /\ graph' = graph
      /\ job'[t].vec = job[t].vec /\ job'[t].layer = k /\ visited'[t] = {job[t].entry}
  <2> DEFINE j == [job[t] EXCEPT !.layer = k]
  <2>1. job[t] \in Jobs /\ visited \in [Threads -> SUBSET Nat]
    BY AtWork DEF IInv, TypeOK
  <2>2. /\ pc' = [pc EXCEPT ![t] = "search"] /\ job' = [job EXCEPT ![t] = j]
        /\ visited' = [visited EXCEPT ![t] = {j.entry}]
    BY DEF RemapEnd, Goto, StartSearch
  <2>3. j.vec = job[t].vec /\ j.layer = k /\ j.entry = job[t].entry
    BY <2>1 DEF Jobs
  <2> HIDE DEF j, k
  <2> QED BY <2>1, <2>2, <2>3, AtWork DEF RemapEnd, Struct, graphVars
<1>2. Foreign(t, k, job[t].entry)
  BY <1>1 DEF Joined, Apart
<1>3. Apart(t)'
  BY <1>1, <1>2 DEF Apart, Foreign, Struct, Linking
<1>4. Untied(t)' = Untied(t)
  BY <1>1 DEF Untied, Sinking
<1> QED BY <1>1, <1>3, <1>4, ReadingJoins DEF Joined

LEMMA SearchEndJoins ==
  ASSUME IInv, NEW t \in Threads, Joined(t), SearchEnd(t)
  PROVE  Joined(t)'
<1> DEFINE l == job[t].layer
           heap == NearestOf(max_neighbors, l, Query(t), visited[t])
<1>1. PICK n \in Best(l, Query(t), visited[t]) :
        job' = [job EXCEPT ![t] = [job[t] EXCEPT !.entry = getDownwardsNode(l, n)]]
  BY DEF SearchEnd
<1>2. /\ pc[t] = "search" /\ pc'[t] = "link" /\ Struct /\ graph' = graph
      /\ job'[t].vec = job[t].vec /\ job'[t].layer = l
      /\ job'[t].entry = getDownwardsNode(l, n) /\ cands'[t] = heap
  <2>1. job[t] \in Jobs
    BY AtWork
  <2>2. /\ pc' = [pc EXCEPT ![t] = "link"] /\ pc[t] = "search"
        /\ cands' = [cands EXCEPT ![t] = heap] /\ Struct /\ graph' = graph
    BY DEF SearchEnd, Goto, Struct, graphVars
  <2> HIDE DEF heap
  <2> QED BY <1>1, <2>1, <2>2, AtWork DEF Jobs
<1>3. /\ l \in Layers /\ l \in Nat /\ visited[t] \subseteq Nodes(l)
      /\ n \in visited[t] /\ \A m \in visited[t] : Foreign(t, l, m)
  <2>1. visited[t] \subseteq Nodes(l)
    BY <1>2 DEF IInv, HeldNodesExist, ReadNodesExist
  <2>2. n \in visited[t]
    BY DEF Best
  <2> QED BY <1>2, <2>1, <2>2, AtWork DEF Joined, Apart
<1>4. heap \subseteq visited[t] /\ n \in heap
  <2>1. {m \in visited[t] : Closer(l, Query(t), m, n)} = {}
    BY DEF Best
  <2>2. Cardinality({m \in visited[t] : Closer(l, Query(t), m, n)}) < max_neighbors
    BY <2>1, FS_EmptySet, MaxNeighbors
  <2> QED BY <1>3, <2>2 DEF NearestOf
<1> HIDE DEF heap
<1>5. l > 0 => indexes[l - 1][getDownwardsNode(l, n)] # job[t].vec
  BY <1>3, ForeignBelow
<1>6. Apart(t)'
  <2>1. \A c \in cands'[t] : indexes'[l][c] = job'[t].vec => c = getEntryPoint /\ l = 0
    BY <1>2, <1>3, <1>4 DEF Foreign, Struct
  <2>2. l > 0 => indexes'[l - 1][job'[t].entry] # job'[t].vec
    BY <1>2, <1>5 DEF Struct
  <2> HIDE DEF l
  <2>3. job'[t].layer = l
    BY <1>2 DEF l
  <2> QED BY <1>2, <2>1, <2>2, <2>3 DEF Apart, Foreign, Linking, getEntryPoint
<1>7. Untied(t)' = Untied(t)
  <2>1. cands'[t] # {}
    BY <1>2, <1>4
  <2> QED BY <1>2, <2>1 DEF Untied, Sinking
<1> QED BY <1>2, <1>6, <1>7, ReadingJoins DEF Joined

\* Linked to one node that is reached, the new node is reached as well.
LEMMA LinkInJoins ==
  ASSUME IInv, Shared, LayersOnce, NEW t \in Threads, AloneInv(t), Joined(t), LinkIn(t)
  PROVE  Joined(t)'
<1> DEFINE l == job[t].layer
           v == job[t].node
<1>1. PICK c \in Best(l, Query(t), cands[t]) :
        /\ cands' = [cands EXCEPT ![t] = cands[t] \ {c}]
        /\ IF RefusedEdge(c, v)
           THEN UNCHANGED <<graph, pc, peer>>
           ELSE /\ \E i \in InsertPositions(l, c, v) :
                     graph' = [graph EXCEPT ![l][c] = InsertAt(graph[l][c], i, v)]
                /\ peer' = [peer EXCEPT ![t] = c]
                /\ pc' = [pc EXCEPT ![t] = "linkBack"]
  BY DEF LinkIn, Goto
<1>2. /\ pc[t] = "link" /\ pc'[t] \in {"link", "linkBack"} /\ Struct /\ job' = job
      /\ cands'[t] = cands[t] \ {c} /\ pc[t] \in Linking
  BY <1>1, AtWork DEF LinkIn, Struct, Linking
<1>3. /\ l \in Layers /\ l \in Nat /\ v \in Nodes(l) /\ indexes[l][v] = job[t].vec
  <2>1. NodeLayer(t) = l
    BY <1>2 DEF NodeLayer
  <2> QED BY <1>2, <2>1, AtWork DEF AloneInv, OwnNode
<1>4. cands[t] \subseteq Nodes(l) /\ c \in cands[t] /\ c \in Nodes(l) /\ Foreign(t, l, c)
  <2>1. cands[t] \subseteq Nodes(l) /\ c \in cands[t]
    BY <1>2 DEF IInv, HeldNodesExist, ReadNodesExist, Best
  <2> QED BY <1>2, <2>1 DEF Joined, Apart
\* The lists after the step.
<1>5. /\ \A k \in Layers \ {l} : \A m \in Nodes(k) : graph'[k][m] = graph[k][m]
      /\ \A m \in Nodes(l) : ToSet(graph[l][m]) \subseteq ToSet(graph'[l][m])
      /\ c = v \/ v \in ToSet(graph'[l][c])
  <2>1. CASE c = v
    BY <1>1, <2>1 DEF RefusedEdge
  <2>2. CASE c # v
    <3> DEFINE s == graph[l][c]
    <3>1. PICK i \in InsertPositions(l, c, v) : graph' = [graph EXCEPT ![l][c] = InsertAt(s, i, v)]
      BY <1>1, <2>2 DEF RefusedEdge
    <3>2. s \in Seq(Nodes(l)) /\ i \in 1 .. Len(s) + 1
      BY <1>3, <1>4, Lists DEF InsertPositions
    <3> HIDE DEF s
    <3> DEFINE r == InsertAt(s, i, v)
    <3>3. r \in Seq(Nodes(l)) /\ ToSet(r) = ToSet(s) \cup {v}
      BY <1>3, <3>2, InsertFacts
    <3>4. graph' = [graph EXCEPT ![l][c] = r]
      BY <3>1
    <3> HIDE DEF r
    <3>5. /\ \A k \in Layers \ {l} : \A m \in Nodes(k) : graph'[k][m] = graph[k][m]
          /\ graph'[l][c] = r
          /\ \A m \in Nodes(l) \ {c} : graph'[l][m] = graph[l][m]
      BY <1>3, <1>4, <3>3, <3>4, OneWritten
    <3> QED BY <3>3, <3>5 DEF s
  <2> QED BY <2>1, <2>2
<1>6. ASSUME NEW C \in SUBSET Nodes(l), getEntryPoint \in C,
             \A n \in C : ToSet(graph'[l][n]) \subseteq C
      PROVE  Nodes(l) \subseteq C
  <2>1. \A n \in C : ToSet(graph[l][n]) \subseteq C
    BY <1>5, <1>6
  <2>2. Nodes(l) \ Loose(t, l) \subseteq C
    BY <1>3, <1>6, <2>1 DEF Joined, Spanned, Spans
  <2>3. c \in C
    <3>1. CASE indexes[l][c] = job[t].vec
      BY <1>4, <1>6, <3>1 DEF Foreign
    <3>2. CASE indexes[l][c] # job[t].vec
      BY <1>4, <2>2, <3>2 DEF Loose
    <3> QED BY <3>1, <3>2
  <2>4. v \in C
    BY <1>5, <1>6, <2>3
  <2>5. \A n \in Loose(t, l) : n = v
    <3>1. indexes[l] \in Seq(Nat) /\ IsInjective(indexes[l])
      BY <1>3, AtWork DEF LayersOnce
    <3>2. \A n \in Nodes(l) : n \in DOMAIN indexes[l]
      BY <3>1 DEF Nodes
    <3> QED BY <1>3, <3>1, <3>2 DEF Loose, IsInjective
  <2> QED BY <2>2, <2>4, <2>5
<1>7. Spanned(t)'
  <2> SUFFICES ASSUME NEW k \in Layers, NEW C \in SUBSET Nodes(k)', getEntryPoint \in C,
                      \A n \in C : ToSet(graph'[k][n]) \subseteq C
               PROVE  Nodes(k)' \ Loose(t, k)' \subseteq C
    BY DEF Spanned, Spans, getEntryPoint
  <2>1. Nodes(k)' = Nodes(k) /\ C \in SUBSET Nodes(k)
    BY <1>2, NodesFrame
  <2>2. CASE k = l
    BY <1>6, <2>1, <2>2
  <2>3. CASE k # l
    <3>1. Nodes(k) \ Loose(t, k) \subseteq C
      BY <1>5, <2>1, <2>3 DEF Joined, Spanned, Spans
    <3>2. k \in Untied(t) => k \in Untied(t)'
      <4>1. k \in Nat /\ l \in Nat
        BY <1>3, AtWork
      <4>2. k \in 0 .. l => k \in 0 .. l - 1
        BY <2>3, <4>1
      <4>3. k \in 0 .. l - 1 => k \in 0 .. l
        BY <4>1
      <4>4. Untied(t) \in {0 .. l, 0 .. l - 1} /\ Untied(t)' \in {0 .. l, 0 .. l - 1}
        BY <1>2 DEF Untied, Sinking, Linking
      <4> QED BY <4>2, <4>3, <4>4
    <3>3. Loose(t, k) \subseteq Loose(t, k)'
      BY <1>2, <2>1, <3>2 DEF Loose, Struct
    <3> QED BY <2>1, <3>1, <3>3
  <2> QED BY <2>2, <2>3
<1>8. Apart(t)'
  BY <1>2 DEF Joined, Apart, Foreign, Struct, Linking
<1> QED BY <1>7, <1>8 DEF Joined

LEMMA LinkBackJoins ==
  ASSUME IInv, NEW t \in Threads, AloneInv(t), Joined(t), LinkBack(t)
  PROVE  Joined(t)'
<1> DEFINE l == job[t].layer
           v == job[t].node
           s == graph[l][v]
           r == Append(s, peer[t])
<1>1. /\ pc[t] = "linkBack" /\ pc'[t] = "link" /\ Struct
      /\ UNCHANGED <<job, cands>> /\ pc[t] \in Linking
      /\ graph' = [graph EXCEPT ![l][v] = r]
  BY AtWork DEF LinkBack, Goto, Struct, Linking
<1>2. /\ l \in Layers /\ v \in Nodes(l) /\ s \in Seq(Nodes(l)) /\ peer[t] \in Nodes(l)
      /\ job[t].layer \in Nat
  <2>1. peer[t] \in Nodes(l)
    BY <1>1 DEF IInv, HeldNodesExist, ReadNodesExist
  <2> QED BY <1>1, <2>1, OwnVector DEF OwnList
<1>3. r \in Seq(Nodes(l)) /\ ToSet(s) \subseteq ToSet(r)
  <2> HIDE DEF s
  <2>1. r \in Seq(Nodes(l)) /\ Len(r) = Len(s) + 1 /\ \A i \in 1 .. Len(s) : r[i] = s[i]
    BY <1>2, AppendProperties
  <2> HIDE DEF r
  <2>2. DOMAIN s = 1 .. Len(s) /\ DOMAIN r = 1 .. Len(s) + 1 /\ Len(s) \in Nat
    BY <1>2, <2>1
  <2> QED BY <2>1, <2>2 DEF ToSet
<1> HIDE DEF r
<1>4. /\ \A k \in Layers \ {l} : \A m \in Nodes(k) : graph'[k][m] = graph[k][m]
      /\ graph'[l][v] = r
      /\ \A m \in Nodes(l) \ {v} : graph'[l][m] = graph[l][m]
  BY <1>1, <1>2, <1>3, OneWritten
<1>5. \A k \in Layers : \A m \in Nodes(k) : ToSet(graph[k][m]) \subseteq ToSet(graph'[k][m])
  <2> SUFFICES ASSUME NEW k \in Layers, NEW m \in Nodes(k)
               PROVE  ToSet(graph[k][m]) \subseteq ToSet(graph'[k][m])
    OBVIOUS
  <2>1. CASE k = l /\ m = v
    BY <1>3, <1>4, <2>1
  <2>2. CASE ~ (k = l /\ m = v)
    BY <1>4, <2>2
  <2> QED BY <2>1, <2>2
<1>6. Untied(t) \subseteq Untied(t)'
  BY <1>1, <1>2 DEF Untied, Sinking, Linking
<1>7. Spanned(t)'
  BY <1>1, <1>5, <1>6, SpannedKept DEF Joined
<1>8. Apart(t)'
  BY <1>1 DEF Joined, Apart, Foreign, Struct, Linking
<1> QED BY <1>7, <1>8 DEF Joined

\* Without a list to prune, addSingle only reads its neighbours' lists.
LEMMA CheckingJoins ==
  ASSUME IInv, NEW t \in Threads, Joined(t), ReadNeighbors(t) \/ Check(t), NeverPruned'
  PROVE  Joined(t)'
<1>1. /\ pc[t] \in {"link", "check"} /\ Struct /\ UNCHANGED <<graph, job>>
      /\ pc[t] = "link" => cands[t] = {}
  BY DEF ReadNeighbors, Check, Struct, graphVars
<1>2. pc'[t] = "check"
  <2>1. CASE ReadNeighbors(t)
    BY <2>1, AtWork DEF ReadNeighbors, Goto
  <2>2. CASE Check(t)
    <3>1. pc' = [pc EXCEPT ![t] = "check"] \/ pc' = [pc EXCEPT ![t] = "readLast"]
          \/ pc' = [pc EXCEPT ![t] = "twoHop"]
      BY <2>2 DEF Check, Goto, NextNeighbor
    <3> QED BY <3>1, AtWork DEF NeverPruned, Pruning
  <2> QED BY <2>1, <2>2
<1>3. Apart(t)'
  BY <1>1, <1>2 DEF Joined, Apart, Foreign, Struct, Linking
<1>4. Untied(t)' = Untied(t)
  BY <1>1, <1>2 DEF Untied, Sinking, Linking
<1> QED BY <1>1, <1>3, <1>4, ReadingJoins DEF Joined

LEMMA NextLayerJoins ==
  ASSUME IInv, NEW t \in Threads, Joined(t), NextLayer(t)
  PROVE  Joined(t)'
<1> DEFINE l == job[t].layer
<1>1. /\ pc[t] = "check" /\ pc[t] \in Linking /\ Struct /\ graph' = graph
      /\ l \in Layers /\ l \in Nat
  BY AtWork DEF NextLayer, Struct, graphVars, Linking
<1>2. \/ /\ l - 1 >= 0 /\ pc'[t] = "search" /\ job'[t].vec = job[t].vec
         /\ job'[t].layer = l - 1 /\ visited'[t] = {job[t].entry}
      \/ ~ (l - 1 >= 0) /\ pc'[t] = "idle"
  <2> DEFINE j == NodeBelow(job[t])
  <2>1. j.vec = job[t].vec /\ j.entry = job[t].entry /\ j.layer = l - 1
    <3>1. job[t] \in Jobs
      BY AtWork
    <3> QED BY <3>1 DEF NodeBelow, Jobs
  <2>2. \/ /\ j.layer >= 0 /\ pc' = [pc EXCEPT ![t] = "search"]
           /\ job' = [job EXCEPT ![t] = j]
           /\ visited' = [visited EXCEPT ![t] = {j.entry}]
        \/ ~ (j.layer >= 0) /\ pc' = [pc EXCEPT ![t] = "idle"]
    BY DEF NextLayer, Goto, StartSearch
  <2>3. visited \in [Threads -> SUBSET Nat]
    BY DEF IInv, TypeOK
  <2> HIDE DEF j, l
  <2> QED BY <2>1, <2>2, <2>3, AtWork
<1>3. CASE pc'[t] = "search"
  <2>1. l > 0 /\ Foreign(t, l - 1, job[t].entry)
    BY <1>1, <1>2, <1>3 DEF Joined, Apart
  <2>2. Apart(t)'
    BY <1>1, <1>2, <1>3, <2>1 DEF Apart, Foreign, Struct, Linking
  <2>3. Untied(t)' = Untied(t)
    BY <1>1, <1>2, <1>3 DEF Untied, Sinking, Linking
  <2> QED BY <1>1, <1>2, <1>3, <2>2, <2>3, ReadingJoins DEF Joined
<1>4. CASE pc'[t] = "idle"
  <2>1. Untied(t) = {}
    BY <1>1, <1>2, <1>4 DEF Untied, Sinking, Linking
  <2>2. Apart(t)'
    BY <1>4 DEF Apart, Linking
  <2> QED BY <1>1, <2>1, <2>2, ReadingJoins DEF Joined
<1> QED BY <1>2, <1>3, <1>4

\* A new node is loose in the layers it will be linked in, and the first of the
\* layers above.
LEMMA addNodeJoins ==
  ASSUME IInv, Shared, LayersOnce, NEW t \in Threads, AloneInv(t), Joined(t), addNode(t)
  PROVE  Joined(t)'
<1> DEFINE v == job[t].vec
           top == job[t].top
<1>1. PICK l \in Layers : NodeAdded(t, l)
  BY addNodeGrows
<1>2. /\ pc[t] = "addNode" /\ top \in Nat /\ l \in Nat /\ v \notin Indexed
      /\ top = getMaxLayer /\ layers \in Nat /\ top \in Layers
      /\ (top = 0 \/ top < layers) /\ (layers > 0 => top < layers)
  <2>1. pc[t] = "addNode"
    BY DEF addNode
  <2>2. top = getMaxLayer
    BY <2>1 DEF AloneInv, OwnNode
  <2>3. layers > 0 => top < layers
    BY <2>2, AtWork DEF getMaxLayer
  <2> QED BY <2>1, <2>2, <2>3, AtWork
       DEF Shared, Owed, IInv, HeldNodesExist, JobNodesExist
<1>3. /\ pc'[t] = IF top > l THEN "descend" ELSE "readTop"
      /\ pc'[t] = "descend" => visited'[t] = {getEntryPoint}
      /\ job'[t].vec = v /\ job'[t].top = top /\ job'[t].assigned = l
      /\ job'[t].entry = getEntryPoint /\ job'[t].layer = top
  BY <1>1 DEF NodeAdded
<1>4. \A k \in Layers :
        /\ Len(indexes[k]) \in Nat /\ Nodes(k) = 1 .. Len(indexes[k])
        /\ \/ /\ k <= l /\ Nodes(k)' = 1 .. Len(indexes[k]) + 1
              /\ indexes'[k] = Append(indexes[k], v)
           \/ Nodes(k)' = 1 .. Len(indexes[k])
        /\ \A n \in Nodes(k) :
             n \in Nodes(k)' /\ indexes'[k][n] = indexes[k][n] /\ graph'[k][n] = graph[k][n]
  BY <1>1 DEF NodeAdded
\* No node had the vector before.
<1>5. \A k \in Layers : \A n \in Nodes(k) : indexes'[k][n] # v
  <2> SUFFICES ASSUME NEW k \in Layers, NEW n \in Nodes(k) PROVE indexes[k][n] # v
    BY <1>4
  <2>1. indexes[k] \in Seq(Nat) /\ n \in DOMAIN indexes[k]
    BY AtWork DEF Nodes
  <2>2. indexes[k][n] \in ToSet(indexes[k])
    BY <2>1 DEF ToSet
  <2> QED BY <1>2, <2>2 DEF LayersOnce
\* The entry point of the top layer is not the new node, if there was a graph.
<1>6. indexes'[top][getEntryPoint] = v => top = 0
  <2> SUFFICES ASSUME top # 0 PROVE indexes'[top][getEntryPoint] # v
    OBVIOUS
  <2>1. Nodes(top) # {}
    BY <1>2 DEF IInv, LayersNested
  <2>2. getEntryPoint \in Nodes(top)
    <3>1. Len(indexes[top]) \in Nat /\ Nodes(top) = 1 .. Len(indexes[top])
      BY <1>2, <1>4
    <3> QED BY <2>1, <3>1 DEF getEntryPoint
  <2> QED BY <1>2, <1>5, <2>2
<1>7. Apart(t)'
  <2>1. CASE top > l
    BY <1>3, <1>6, <2>1 DEF Apart, Foreign, Linking, getEntryPoint
  <2>2. CASE ~ (top > l)
    <3>1. FirstLinkedLayer(job'[t]) = top
      BY <1>2, <1>3, <2>2 DEF FirstLinkedLayer
    <3> QED BY <1>3, <1>6, <2>2, <3>1 DEF Apart, Foreign, Linking, getEntryPoint
  <2> QED BY <2>1, <2>2
<1>8. \A k \in Layers : k \in Untied(t)' \/ top < k \/ l < k
  <2> TAKE k \in Layers
  <2>1. Untied(t)' = 0 .. FirstLinkedLayer(job'[t]) /\ k \in Nat
    BY <1>3, AtWork DEF Untied, Sinking
  <2>2. FirstLinkedLayer(job'[t]) = IF top <= l THEN top ELSE l
    BY <1>3 DEF FirstLinkedLayer
  <2> QED BY <1>2, <2>1, <2>2
<1>9. Spanned(t)'
  <2> SUFFICES ASSUME NEW k \in Layers, NEW C \in SUBSET Nodes(k)', getEntryPoint \in C,
                      \A n \in C : ToSet(graph'[k][n]) \subseteq C
               PROVE  Nodes(k)' \ Loose(t, k)' \subseteq C
    BY DEF Spanned, Spans, getEntryPoint
  <2>1. Nodes(k) \subseteq C
    <3>1. CASE Nodes(k) = {}
      BY <3>1
    <3>2. CASE Nodes(k) # {}
      <4> DEFINE D == C \cap Nodes(k)
      <4>1. getEntryPoint \in D
        <5>1. Len(indexes[k]) \in Nat /\ Nodes(k) = 1 .. Len(indexes[k])
          BY <1>4
        <5> QED BY <3>2, <5>1 DEF getEntryPoint
      <4>2. ASSUME NEW n \in D PROVE ToSet(graph[k][n]) \subseteq D
        <5>1. graph'[k][n] = graph[k][n] /\ ToSet(graph[k][n]) \subseteq Nodes(k)
          BY <1>4, Lists
        <5> QED BY <5>1
      <4>3. D \in SUBSET Nodes(k)
        OBVIOUS
      <4> HIDE DEF D
      <4>4. Nodes(k) \ Loose(t, k) \subseteq D
        BY <4>1, <4>2, <4>3 DEF Joined, Spanned, Spans
      <4>5. Loose(t, k) = {}
        BY <1>2 DEF Loose, Untied, Sinking, Linking
      <4> QED BY <4>4, <4>5 DEF D
    <3> QED BY <3>1, <3>2
  <2> SUFFICES ASSUME NEW n \in Nodes(k)', n \notin Nodes(k), n \notin Loose(t, k)'
               PROVE  n \in C
    BY <2>1
  <2>2. /\ k <= l /\ n = Len(indexes[k]) + 1 /\ indexes'[k] = Append(indexes[k], v)
        /\ k \in Nat
    BY <1>4, AtWork
  <2>3. indexes'[k][n] = v
    <3>1. indexes[k] \in Seq(Nat) /\ v \in Nat
      BY AtWork
    <3> QED BY <2>2, <3>1, AppendFacts
  <2>4. top < k
    <3>1. k \notin Untied(t)'
      BY <1>3, <2>3 DEF Loose
    <3> QED BY <1>2, <1>8, <2>2, <3>1
  <2>5. Nodes(k) = {}
    <3>1. ~ (k < layers)
      BY <1>2, <2>2, <2>4 DEF getMaxLayer
    <3> QED BY <3>1 DEF IInv, LayersNested
  <2>6. Len(indexes[k]) \in Nat /\ Nodes(k) = 1 .. Len(indexes[k])
    BY <1>4
  <2>7. n = getEntryPoint
    <3> DEFINE len == Len(indexes[k])
    <3>1. len \in Nat /\ 1 .. len = {} /\ n = len + 1
      BY <2>2, <2>5, <2>6
    <3> HIDE DEF len
    <3>2. ~ (len >= 1)
      BY <3>1
    <3> QED BY <3>1, <3>2 DEF getEntryPoint
  <2> QED BY <2>7
<1> QED BY <1>7, <1>9 DEF Joined

LEMMA StepJoins ==
  ASSUME IInv, NEW t \in Threads, Alone(t), Joined(t), NeverPruned, NeverPruned', ThreadStep(t)
  PROVE  Joined(t)'
<1>1. Shared /\ LayersOnce /\ AloneInv(t) /\ pc[t] \notin Pruning
  BY DEF Alone, NeverPruned
<1>2. CASE Claim(t)
  <2>1. UNCHANGED <<graphVars, pc, locals>>
    BY <1>2 DEF Claim
  <2> QED BY <2>1, RestJoins
<1>3. CASE ReadMaxLayer(t) \/ addNode(t) \/ Expand(t) \/ DescendEnd(t)
  BY <1>1, <1>3, ReadMaxLayerJoins, addNodeJoins, ExpandJoins, DescendEndJoins
<1>4. CASE ReadTop(t) \/ Remap(t) \/ RemapEnd(t) \/ SearchEnd(t)
  BY <1>1, <1>4, SinkJoins, RemapEndJoins, SearchEndJoins
<1>5. CASE LinkIn(t) \/ LinkBack(t) \/ ReadNeighbors(t) \/ Check(t)
  BY <1>1, <1>5, LinkInJoins, LinkBackJoins, CheckingJoins
<1>6. CASE NextLayer(t)
  BY <1>6, NextLayerJoins
<1>7. ~ (ReadLast(t) \/ PopLast(t) \/ twoHopPruning(t))
  BY <1>1 DEF ReadLast, PopLast, twoHopPruning, Pruning
<1>8. ~ (TwoHopScan(t) \/ TwoHopWrite(t) \/ Unlink(t) \/ UnlinkEnd(t))
  BY <1>1 DEF TwoHopScan, TwoHopWrite, Unlink, UnlinkEnd, Pruning
<1> QED BY <1>2, <1>3, <1>4, <1>5, <1>6, <1>7, <1>8 DEF ThreadStep, addSingle

LEMMA NextJoins ==
  ASSUME NEW t, Threads = {t}
  PROVE  IInv /\ Alone(t) /\ Joined(t) /\ NeverPruned /\ NeverPruned' /\ [Next]_vars
           => Joined(t)'
<1> SUFFICES ASSUME IInv, Alone(t), Joined(t), NeverPruned, NeverPruned', [Next]_vars
             PROVE  Joined(t)'
  OBVIOUS
<1>1. t \in Threads
  OBVIOUS
<1>2. CASE Add \/ AddEnd \/ Undefined \/ UNCHANGED vars
  <2>1. UNCHANGED <<graphVars, pc, locals>>
    BY <1>2 DEF Add, AddEnd, Undefined, vars
  <2> QED BY <1>1, <2>1, RestJoins
<1>3. CASE reset
  BY <1>1, <1>3, resetJoins
<1>4. CASE \E u \in Threads : ThreadStep(u)
  BY <1>4, StepJoins
<1> QED BY <1>2, <1>3, <1>4 DEF Next

LEMMA InitJoined ==
  ASSUME NEW t, Threads = {t}
  PROVE  Init => Joined(t)
<1> SUFFICES ASSUME Init PROVE Joined(t)
  OBVIOUS
<1>1. pc[t] = "idle" /\ indexes = [l \in Layers |-> <<>>]
  BY DEF Init
<1>2. Apart(t)
  BY <1>1 DEF Apart, Linking
<1>3. \A l \in Layers : Nodes(l) = {}
  BY <1>1 DEF Nodes
<1>4. Spanned(t)
  BY <1>3 DEF Spanned, Spans
<1> QED BY <1>2, <1>4 DEF Joined

\* At rest nothing hangs loose.
LEMMA RestSpans ==
  ASSUME IInv, NEW t \in Threads, Joined(t), Quiescent, NEW l \in Layers,
         NEW C \in SUBSET Nodes(l), getEntryPoint \in C,
         \A n \in C : ToSet(graph[l][n]) \subseteq C
  PROVE  C = Nodes(l)
<1>1. pc[t] = "idle"
  BY DEF IInv, TeamAtRest
<1>2. Loose(t, l) = {}
  BY <1>1 DEF Loose, Untied, Sinking, Linking
<1>3. Nodes(l) \ Loose(t, l) \subseteq C
  BY DEF Joined, Spanned, Spans
<1> QED BY <1>2, <1>3

\* The walk of LayersConnected ends in a set that no edge leaves.
LEMMA ReachedCloses ==
  ASSUME IInv, Shared, Once, Capacity, NEW l \in Layers, Nodes(l) # {}
  PROVE  /\ Reached(l) \in SUBSET Nodes(l) /\ getEntryPoint \in Reached(l)
         /\ \A n \in Reached(l) : ToSet(graph[l][n]) \subseteq Reached(l)
<1> DEFINE N == Nodes(l)
           next == [n \in N |-> ToSet(graph[l][n])]
           grow(g) == [k \in 0 .. MaxVecs |->
                         IF k = 0 THEN {getEntryPoint}
                         ELSE g[k-1] \cup UNION {ToSet(graph[l][n]) : n \in g[k-1]}]
           f == CHOOSE g : g = grow(g)
           len == Len(graph[l])
<1>1. len \in Nat /\ len <= MaxVecs /\ MaxVecs \in Nat /\ N = 1 .. len
  BY LayersFit, Lists, ParameterAssumption
<1>2. IsFiniteSet(N) /\ Cardinality(N) <= MaxVecs /\ getEntryPoint \in N
  <2> HIDE DEF len, N
  <2>1. getEntryPoint \in N
    BY <1>1 DEF getEntryPoint, N
  <2> QED BY <1>1, <2>1, UptoSize
<1>3. next \in [N -> SUBSET N]
  <2>1. \A n \in N : ToSet(graph[l][n]) \in SUBSET N
    BY Lists
  <2> QED BY <2>1
<1>4. Reached(l) = f[MaxVecs]
  BY DEF Reached
<1>5. \A n \in N : next[n] = ToSet(graph[l][n])
  OBVIOUS
<1> HIDE DEF next
\* The equation of the walk has a solution.
<1>6. f = grow(f)
  <2>1. PICK g \in [0 .. MaxVecs -> SUBSET N] : Grows(g, getEntryPoint, {}, next)
    <3> HIDE DEF N
    <3> QED BY <1>2, <1>3, GrowsExists
  <2>2. /\ g[0] = {getEntryPoint}
        /\ \A k \in 1 .. MaxVecs : g[k] = g[k-1] \cup ((UNION {next[n] : n \in g[k-1]}) \ {})
    BY <2>1, GrowsEach
  <2>3. ASSUME NEW k \in 1 .. MaxVecs
        PROVE  g[k] = g[k-1] \cup UNION {ToSet(graph[l][n]) : n \in g[k-1]}
    <3>1. k - 1 \in 0 .. MaxVecs
      BY <1>1
    <3>2. g[k-1] \in SUBSET N
      BY <2>1, <3>1
    <3>3. {next[n] : n \in g[k-1]} = {ToSet(graph[l][n]) : n \in g[k-1]}
      BY <1>5, <3>2
    <3>4. g[k] = g[k-1] \cup ((UNION {next[n] : n \in g[k-1]}) \ {})
      BY <2>2, Zenon
    <3>5. \A S : S \ {} = S
      OBVIOUS
    <3>6. g[k] = g[k-1] \cup UNION {next[n] : n \in g[k-1]}
      BY <3>4, <3>5, Zenon
    <3> QED BY <3>3, <3>6, Zenon
  <2>4. g = grow(g)
    <3>1. \A k \in 0 .. MaxVecs : k = 0 \/ k \in 1 .. MaxVecs
      BY <1>1
    <3> QED BY <2>1, <2>2, <2>3, <3>1
  <2> HIDE DEF grow
  <2> QED BY <2>4
<1> HIDE DEF f
<1>7. /\ f[0] = {getEntryPoint}
      /\ \A k \in 1 .. MaxVecs : f[k] = f[k-1] \cup UNION {ToSet(graph[l][n]) : n \in f[k-1]}
  <2>1. 0 \in 0 .. MaxVecs /\ \A k \in 1 .. MaxVecs : k \in 0 .. MaxVecs /\ k # 0
    BY <1>1
  <2> QED BY <1>6, <2>1
<1>8. Grows(f, getEntryPoint, {}, next)
  <2>1. \A k \in Nat : k <= MaxVecs => f[k] \subseteq N
    <3> DEFINE T == {k \in Nat : k <= MaxVecs => f[k] \subseteq N}
    <3>1. 0 \in T
      BY <1>2, <1>7
    <3>2. ASSUME NEW k \in Nat, k \in T PROVE k + 1 \in T
      <4> SUFFICES ASSUME k + 1 <= MaxVecs PROVE f[k + 1] \subseteq N
        OBVIOUS
      <4>1. f[k] \subseteq N /\ k + 1 \in 1 .. MaxVecs /\ (k + 1) - 1 = k
        BY <1>1, <3>2
      <4>2. f[k + 1] = f[k] \cup UNION {ToSet(graph[l][n]) : n \in f[k]}
        BY <1>7, <4>1
      <4>3. \A n \in f[k] : ToSet(graph[l][n]) \subseteq N
        BY <1>3, <1>5, <4>1
      <4> QED BY <4>1, <4>2, <4>3
    <3> HIDE DEF T
    <3>3. Nat \subseteq T
      BY <3>1, <3>2, NumbersFromZero
    <3> QED BY <3>3 DEF T
  <2> DEFINE e(k) == IF k = 0 THEN {getEntryPoint}
                     ELSE f[k-1] \cup ((UNION {next[n] : n \in f[k-1]}) \ {})
  <2>2. ASSUME NEW k \in 0 .. MaxVecs PROVE f[k] = e(k)
    <3>1. CASE k = 0
      BY <1>7, <3>1
    <3>2. CASE k # 0
      <4>1. k \in 1 .. MaxVecs /\ k - 1 \in Nat /\ k - 1 <= MaxVecs
        BY <1>1, <3>2
      <4>2. f[k-1] \subseteq N
        BY <2>1, <4>1
      <4>3. {next[n] : n \in f[k-1]} = {ToSet(graph[l][n]) : n \in f[k-1]}
        BY <1>5, <4>2
      <4> QED BY <1>7, <3>2, <4>1, <4>3
    <3> QED BY <3>1, <3>2
  <2> HIDE DEF e
  <2>3. f = [k \in 0 .. MaxVecs |-> f[k]]
    BY <1>6, Zenon DEF grow
  <2>4. f = [k \in 0 .. MaxVecs |-> e(k)]
    BY <2>2, <2>3
  <2> QED BY <2>4 DEF Grows, e
<1>9. Reaches(f[MaxVecs], N, getEntryPoint, {}, next)
  <2> HIDE DEF N
  <2> QED BY <1>2, <1>3, <1>8, GrowthReaches
<1> DEFINE R == f[MaxVecs]
<1>10. R \in SUBSET N /\ getEntryPoint \in R /\ \A n \in R : next[n] \ {} \subseteq R
  BY <1>9 DEF Reaches, Closed
<1> HIDE DEF R
<1>11. \A n \in R : ToSet(graph[l][n]) \subseteq R
  BY <1>5, <1>10
<1> QED BY <1>4, <1>10, <1>11 DEF R

LEMMA RestConnected ==
  ASSUME NEW t, Threads = {t}
  PROVE  IInv /\ Shared /\ Once /\ Capacity /\ Joined(t) => LayersConnected
<1> SUFFICES ASSUME IInv, Shared, Once, Capacity, Joined(t), Quiescent,
                    NEW l \in Layers, l < layers
             PROVE  Reached(l) = Nodes(l)
  BY DEF LayersConnected
<1>1. Nodes(l) # {}
  BY DEF IInv, LayersNested
<1> QED BY <1>1, ReachedCloses, RestSpans

\* If one thread builds the graph and no list gets long enough to be pruned,
\* every node of a finished layer can be reached from its entry point, where
\* every search of the layer begins: the neighbours a new node is linked to
\* were met by a search from there.
THEOREM UnprunedConnected ==
  ASSUME NEW CONSTANT t, Threads = {t}
  PROVE  Spec /\ []NeverPruned => []LayersConnected
<1>1. Init => IInv /\ Alone(t) /\ Capacity /\ Joined(t)
  BY InitIInv, InitAlone, InitCapacity, InitJoined
<1>2. IInv /\ Alone(t) /\ Capacity /\ Joined(t) /\ NeverPruned /\ NeverPruned' /\ [Next]_vars
        => (IInv /\ Alone(t) /\ Capacity /\ Joined(t))'
  BY NextIInv, NextAlone, NextCapacity, NextJoins
<1>3. IInv /\ Alone(t) /\ Capacity /\ Joined(t) => LayersConnected
  BY RestConnected DEF Alone
<1> QED BY <1>1, <1>2, <1>3, PTL DEF Spec

-----------------------------------------------------------------------------
(* Caps that no list reaches                                                *)

\* The list of a node has every other node of its layer at most once.
LEMMA ListFits ==
  ASSUME IInv, Shared, Once, Capacity, NEW t \in Threads, AloneInv(t), pc[t] = "check",
         nbrs[t] # <<>>
  PROVE  Len(Pruned(t)) \in Nat /\ Len(Pruned(t)) < MaxVecs
<1> DEFINE l == job[t].layer
           h == Head(nbrs[t])
           s == Pruned(t)
           N == Nodes(l)
<1>1. l \in Layers /\ h \in N /\ s \in Seq(N \ {h}) /\ Len(s) \in Nat
  BY PrunedNode
<1>2. IsInjective(s)
  BY <1>1, InLayer DEF Pruned
<1>3. IsFiniteSet(N) /\ Cardinality(N) \in Nat /\ Cardinality(N) <= MaxVecs /\ MaxVecs \in Nat
  <2> DEFINE len == Len(graph[l])
  <2>1. len \in 0 .. MaxVecs /\ N = 1 .. len /\ MaxVecs \in Nat
    BY <1>1, LayersFit, Lists, ParameterAssumption
  <2> HIDE DEF len, N
  <2> QED BY <2>1, UptoSize
<1> HIDE DEF s, h, N
<1>4. /\ IsFiniteSet(N \ {h}) /\ Cardinality(N \ {h}) = Cardinality(N) - 1
  BY <1>1, <1>3, FS_RemoveElement
<1>5. s \in Injection(1 .. Len(s), N \ {h})
  <2>1. DOMAIN s = 1 .. Len(s) /\ s \in [1 .. Len(s) -> N \ {h}]
    BY <1>1
  <2> QED BY <1>2, <2>1 DEF Injection, IsInjective
<1>6. Cardinality(1 .. Len(s)) = Len(s)
  BY <1>1, UptoSize
<1>7. Cardinality(1 .. Len(s)) <= Cardinality(N \ {h})
  BY <1>4, <1>5, FS_Injection
<1> QED BY <1>1, <1>3, <1>4, <1>6, <1>7 DEF s

LEMMA NextUnpruned ==
  ASSUME NEW t, Threads = {t}, MaxVecs <= two_hop_prune_cutoff
  PROVE  IInv /\ Alone(t) /\ Capacity /\ NeverPruned /\ [Next]_vars => NeverPruned'
<1> SUFFICES ASSUME IInv, Alone(t), Capacity, NeverPruned, [Next]_vars
             PROVE  pc'[t] \notin Pruning
  BY DEF NeverPruned
<1>1. t \in Threads /\ pc[t] \notin Pruning /\ Shared /\ Once /\ AloneInv(t)
  BY DEF NeverPruned, Alone
<1>2. CASE pc' = pc
  BY <1>1, <1>2
<1>3. CASE Add \/ AddEnd \/ reset \/ Undefined \/ UNCHANGED vars
  BY <1>2, <1>3 DEF Add, AddEnd, reset, Undefined, vars
<1>4. ASSUME ThreadStep(t), pc' # pc, ~ Check(t) PROVE pc'[t] \notin Pruning
  <2>1. ReadMaxLayer(t) \/ addNode(t) \/ DescendEnd(t) \/ ReadTop(t) \/ RemapEnd(t)
        \/ SearchEnd(t) \/ LinkIn(t) \/ LinkBack(t) \/ ReadNeighbors(t) \/ NextLayer(t)
    <3>1. ~ (ReadLast(t) \/ PopLast(t) \/ twoHopPruning(t))
      BY <1>1 DEF ReadLast, PopLast, twoHopPruning, Pruning
    <3>2. ~ (TwoHopScan(t) \/ TwoHopWrite(t) \/ Unlink(t) \/ UnlinkEnd(t))
      BY <1>1 DEF TwoHopScan, TwoHopWrite, Unlink, UnlinkEnd, Pruning
    <3>3. ~ (Claim(t) \/ Expand(t) \/ Remap(t))
      BY <1>4 DEF Claim, Expand, Remap
    <3> QED BY <1>4, <3>1, <3>2, <3>3 DEF ThreadStep, addSingle
  <2>2. \E label \in {"addNode", "descend", "readTop", "remap", "search", "link",
                      "linkBack", "check", "idle"} : Goto(t, label)
    <3>1. CASE ReadMaxLayer(t)
      BY <3>1, Zenon DEF ReadMaxLayer
    <3>2. CASE DescendEnd(t)
      BY <3>2, Zenon DEF DescendEnd
    <3>3. CASE ReadTop(t)
      BY <3>3, Zenon DEF ReadTop
    <3>4. CASE RemapEnd(t)
      BY <3>4, Zenon DEF RemapEnd
    <3>5. CASE SearchEnd(t) \/ LinkBack(t) \/ ReadNeighbors(t) \/ NextLayer(t)
      BY <3>5 DEF SearchEnd, LinkBack, ReadNeighbors, NextLayer
    <3>6. CASE LinkIn(t)
      BY <1>4, <3>6 DEF LinkIn
    <3>7. CASE addNode(t)
      BY <3>7 DEF addNode
    <3> QED BY <2>1, <3>1, <3>2, <3>3, <3>4, <3>5, <3>6, <3>7
  <2> QED BY <2>2, AtWork DEF Goto, Pruning
<1>5. CASE Check(t)
  <2>1. pc[t] = "check" /\ nbrs[t] # <<>>
    BY <1>5 DEF Check
  <2>2. ~ Overfull(job[t].layer, Len(Pruned(t)))
    <3>1. Len(Pruned(t)) \in Nat /\ Len(Pruned(t)) < MaxVecs
      BY <1>1, <2>1, ListFits
    <3>2. PruneLength(job[t].layer) \in Nat /\ MaxVecs <= PruneLength(job[t].layer)
          /\ MaxVecs \in Nat
      BY MaxNeighbors, ParameterAssumption DEF PruneLength
    <3> QED BY <3>1, <3>2 DEF Overfull
  <2>3. Goto(t, "check")
    BY <1>5, <2>2 DEF Check, NextNeighbor, Pruned
  <2> QED BY <2>3, AtWork DEF Goto, Pruning
<1> QED BY <1>2, <1>3, <1>4, <1>5 DEF Next

LEMMA AlwaysUnpruned ==
  ASSUME NEW CONSTANT t, Threads = {t}, MaxVecs <= two_hop_prune_cutoff
  PROVE  Spec => []NeverPruned
<1>1. Init => IInv /\ Alone(t) /\ Capacity /\ NeverPruned
  <2>1. Init => NeverPruned
    BY DEF Init, NeverPruned, Pruning
  <2> QED BY <2>1, InitIInv, InitAlone, InitCapacity
<1>2. IInv /\ Alone(t) /\ Capacity /\ NeverPruned /\ [Next]_vars
        => (IInv /\ Alone(t) /\ Capacity /\ NeverPruned)'
  BY NextIInv, NextAlone, NextCapacity, NextUnpruned
<1> QED BY <1>1, <1>2, PTL DEF Spec

\* With one thread and no more vectors than the list of a node may have, the
\* layers of a finished graph are connected from their entry points.
THEOREM LayersConnectedAlone ==
  ASSUME NEW CONSTANT t, Threads = {t}, MaxVecs <= two_hop_prune_cutoff
  PROVE  Spec => []LayersConnected
BY AlwaysUnpruned, UnprunedConnected, PTL
-----------------------------------------------------------------------------
(* One thread and no list to prune: a search wide enough is exact           *)

\* The query wants every id, and neither cap of a search is below their number.
Wide == query.sel = 1 .. ntotal /\ efSearch >= ntotal /\ M >= ntotal

\* A wide search has met all neighbours of the nodes it popped.
Gathered ==
  query.state = "graph" /\ Wide =>
    /\ met # {}
    /\ layer = 0 => \A n \in spent : ToSet(graph[0][n]) \subseteq met

\* Layer 0 of a finished graph has one node for each id.
LEMMA BottomLayer ==
  ASSUME Whole, query.state # "idle"
  PROVE  /\ ntotal \in Nat /\ 0 \in Layers /\ Nodes(0) = 1 .. ntotal
         /\ IsFiniteSet(Nodes(0)) /\ Cardinality(Nodes(0)) = ntotal
         /\ indexes[0] \in [Nodes(0) -> 1 .. ntotal]
         /\ \A a, b \in Nodes(0) : indexes[0][a] = indexes[0][b] => a = b
<1>1. IInv /\ Shared /\ Once /\ Quiescent
  BY DEF Whole, SearchInv, Posed
<1>2. ntotal \in Nat /\ 0 \in Layers /\ indexes[0] \in Seq(Nat)
  BY <1>1, TopLayerType DEF IInv, TypeOK, Layers
<1>3. Len(indexes[0]) = ntotal /\ ToSet(indexes[0]) = 1 .. ntotal
  BY <1>1, NothingOwed DEF EveryVectorIndexed
<1>4. IsInjective(indexes[0])
  BY <1>1 DEF Once
<1>5. Nodes(0) = 1 .. ntotal
  BY <1>3 DEF Nodes
<1>6. DOMAIN indexes[0] = 1 .. ntotal
  BY <1>2, <1>3
<1>7. indexes[0] \in [Nodes(0) -> 1 .. ntotal]
  <2> DEFINE s == indexes[0]
  <2>1. s \in Seq(Nat) /\ DOMAIN s = 1 .. ntotal /\ ToSet(s) = 1 .. ntotal
    BY <1>2, <1>3, <1>6
  <2> HIDE DEF s
  <2>2. s = [i \in DOMAIN s |-> s[i]]
    BY <2>1
  <2>3. \A i \in DOMAIN s : s[i] \in ToSet(s)
    BY DEF ToSet
  <2> QED BY <1>5, <2>1, <2>2, <2>3 DEF s
<1>8. \A a, b \in Nodes(0) : indexes[0][a] = indexes[0][b] => a = b
  BY <1>4, <1>5, <1>6 DEF IsInjective
<1>9. IsFiniteSet(Nodes(0)) /\ Cardinality(Nodes(0)) = ntotal
  BY <1>2, <1>5, UptoSize
<1> QED BY <1>2, <1>5, <1>7, <1>8, <1>9

\* The heap of a wide search on layer 0 never has to let go of a node.
LEMMA AllResults ==
  ASSUME Whole, query.state = "graph", layer = 0, Wide
  PROVE  Results = met
<1>1. /\ ntotal \in Nat /\ IsFiniteSet(Nodes(0)) /\ Cardinality(Nodes(0)) = ntotal
      /\ indexes[0] \in [Nodes(0) -> 1 .. ntotal]
  BY BottomLayer
<1>2. met \subseteq Nodes(0)
  BY DEF Whole, SearchInv, Searching
<1>3. ResultsSize = efSearch /\ efSearch \in Nat /\ ntotal <= efSearch
  BY <1>1, SearchAssumption DEF ResultsSize, Wide
<1>4. ASSUME NEW n \in met
      PROVE  Cardinality({m \in met : Closer(0, query.q, m, n)}) < efSearch
  <2> DEFINE nearer == {m \in met : Closer(0, query.q, m, n)}
  <2>1. n \in Nodes(0)
    BY <1>2
  <2>2. ~ Closer(0, query.q, n, n)
    <3>1. DistTo(0, query.q, n) \in Int
      <4>1. query.q \in Points /\ storage \in Seq(Points) /\ ntotal = Len(storage)
        BY DEF Whole, Posed, SearchInv, IInv, TypeOK, Quiescent
      <4>2. indexes[0][n] \in 1 .. Len(storage)
        BY <1>1, <2>1, <4>1
      <4>3. storage[indexes[0][n]] \in Points
        BY <4>1, <4>2
      <4>4. Dist[query.q][storage[indexes[0][n]]] \in Nat
        BY <4>1, <4>3, DistAssumption
      <4> QED BY <4>4 DEF DistTo, VectorOf
    <3> QED BY <3>1 DEF Closer
  <2>3. nearer \subseteq Nodes(0) \ {n}
    BY <1>2, <2>2
  <2> HIDE DEF nearer
  <2>4. Cardinality(nearer) \in Nat /\ Cardinality(nearer) < ntotal
    <3> DEFINE N == Nodes(0)
    <3>1. IsFiniteSet(N) /\ n \in N /\ Cardinality(N) = ntotal
      BY <1>1, <2>1
    <3> HIDE DEF N
    <3>2. IsFiniteSet(N \ {n}) /\ Cardinality(N \ {n}) = ntotal - 1
      BY <3>1, FS_RemoveElement
    <3>3. /\ IsFiniteSet(nearer) /\ Cardinality(nearer) \in Nat
          /\ Cardinality(nearer) <= Cardinality(N \ {n})
      BY <2>3, <3>2, FS_Subset, FS_CardinalityType DEF N
    <3> QED BY <1>1, <3>2, <3>3
  <2> QED BY <1>1, <1>3, <2>4 DEF nearer
<1> QED BY <1>3, <1>4 DEF Results, NearestOf

\* A round of it meets every neighbour of the node it pops.
LEMMA AllNeighborsMet ==
  ASSUME Whole, query.state = "graph", layer = 0, Wide, NEW n \in Nodes(0)
  PROVE  ToSet(graph[0][n]) \subseteq met \cup NewlyMet(n)
<1>1. /\ ntotal \in Nat /\ IsFiniteSet(Nodes(0)) /\ Cardinality(Nodes(0)) = ntotal
      /\ indexes[0] \in [Nodes(0) -> 1 .. ntotal] /\ 0 \in Layers
  BY BottomLayer
<1>2. IInv /\ ToSet(graph[0][n]) \subseteq Nodes(0)
  BY <1>1, Lists DEF Whole, SearchInv
<1> SUFFICES ASSUME NEW e \in ToSet(graph[0][n]), e \notin met
             PROVE  e \in NewlyMet(n)
  OBVIOUS
<1>3. PICK i \in DOMAIN graph[0][n] : graph[0][n][i] = e
  BY DEF ToSet
<1> DEFINE p == <<0, i>>
           fresh == {r \in Places(n) : IsMember(NodeAt(n, r)) /\ NodeAt(n, r) \notin met}
           Upto(r) == {NodeAt(n, o) : o \in {o \in fresh : NotAfter(o, r)}}
<1>4. NodeAt(n, p) = e
  BY <1>3 DEF NodeAt
<1>5. p \in fresh
  <2>1. p \in Places(n)
    BY <1>3 DEF Places
  <2>2. indexes[0][e] \in query.sel
    BY <1>1, <1>2 DEF Wide
  <2> QED BY <1>4, <2>1, <2>2 DEF IsMember
<1>6. Cardinality(Upto(p)) <= M
  <2>1. Upto(p) \subseteq Nodes(0)
    BY <1>1, <1>2, PlacesHaveNodes
  <2> DEFINE U == Upto(p)
             N == Nodes(0)
  <2>2. U \subseteq N /\ IsFiniteSet(N) /\ Cardinality(N) = ntotal
    BY <1>1, <2>1
  <2> HIDE DEF U, N
  <2>3. Cardinality(U) \in Nat /\ Cardinality(U) <= ntotal
    BY <2>2, FS_Subset, FS_CardinalityType
  <2>4. ntotal <= M /\ M \in Nat
    BY <1>1, ParameterAssumption DEF Wide
  <2> QED BY <1>1, <2>3, <2>4 DEF U
<1>7. NewlyMet(n) = {NodeAt(n, o) : o \in {r \in fresh : Cardinality(Upto(r)) <= M}}
  BY DEF NewlyMet
<1> HIDE DEF fresh, Upto, p
<1> QED BY <1>4, <1>5, <1>6, <1>7
\* When its frontier is empty it has met every node: edges lead from the entry
\* point to all of them, and back along each edge.
LEMMA AllMet ==
  ASSUME NEW t, Threads = {t}, Sole(t), Joined(t), Gathered, Wide, LayerDone, layer = 0
  PROVE  Results = Nodes(0)
<1>1. /\ Whole /\ IInv /\ Quiescent /\ query.state = "graph" /\ t \in Threads
      /\ Searching /\ Alone(t)
  BY DEF Sole, Whole, SearchInv, Posed, LayerDone
<1>2. Bidirectional
  BY <1>1, QuiescentAlone
<1>3. Results = met
  BY <1>1, AllResults
<1>4. /\ met # {} /\ met \in SUBSET Nodes(0)
      /\ \A n \in met : ToSet(graph[0][n]) \subseteq met
  <2>1. met \subseteq spent
    BY <1>3 DEF LayerDone, SearchFrontier
  <2> QED BY <1>1, <2>1 DEF Gathered, Searching
<1>5. 0 \in Layers /\ Nodes(0) = 1 .. ntotal /\ ntotal \in Nat
  BY <1>1, BottomLayer
<1>6. getEntryPoint \in met
  <2> SUFFICES ASSUME getEntryPoint \notin met PROVE FALSE
    OBVIOUS
  <2> DEFINE C == Nodes(0) \ met
  <2>1. getEntryPoint \in C /\ C \in SUBSET Nodes(0)
    BY <1>4, <1>5 DEF getEntryPoint
  <2>2. ASSUME NEW n \in C PROVE ToSet(graph[0][n]) \subseteq C
    <3> SUFFICES ASSUME NEW m \in ToSet(graph[0][n]), m \notin C PROVE FALSE
      OBVIOUS
    <3>1. m \in met
      BY <1>1, <1>5, Lists
    <3>2. PICK i \in DOMAIN graph[0][n] : graph[0][n][i] = m
      BY DEF ToSet
    <3>3. Contains(graph[0][m], n)
      BY <1>1, <1>2, <1>5, <3>2 DEF Bidirectional
    <3>4. n \in ToSet(graph[0][m])
      <4>1. graph[0][m] \in Seq(Nodes(0))
        BY <1>1, <1>4, <1>5, <3>1, Lists
      <4> QED BY <3>3, <4>1 DEF Contains, ToSet
    <3> QED BY <1>4, <3>1, <3>4
  <2> HIDE DEF C
  <2>3. C = Nodes(0)
    BY <1>1, <1>5, <2>1, <2>2, RestSpans
  <2> QED BY <1>4, <2>3 DEF C
<1>7. met = Nodes(0)
  BY <1>1, <1>4, <1>5, <1>6, RestSpans
<1> QED BY <1>3, <1>7

\* An answer keeps the question.
LEMMA SameQuestion ==
  ASSUME query \in Queries, query' = [query EXCEPT !.state = "answered"]
  PROVE  /\ query'.state = "answered" /\ query'.q = query.q
         /\ query'.sel = query.sel /\ query'.k = query.k
BY DEF Queries

LEMMA searchSingleExact ==
  ASSUME NEW t, Threads = {t}, Sole(t), Joined(t), Gathered, searchSingle
  PROVE  WideSearchExact'
<1>1. /\ Whole /\ LayerDone /\ layer = 0 /\ query.state = "graph" /\ query \in Queries
      /\ UNCHANGED <<storage, ntotal>>
      /\ query' = [query EXCEPT !.state = "answered"]
  BY DEF Sole, Whole, SearchInv, searchSingle, LayerDone, vars, indexVars
<1>2. query'.sel = query.sel /\ query'.q = query.q /\ query'.k = query.k
  BY <1>1, SameQuestion
<1> SUFFICES ASSUME Wide
             PROVE  \E ids \in Rankings(FarFrom(query.q, 1 .. ntotal)) :
                      labels' = Padded(ids, query.k)
  BY <1>1, <1>2 DEF WideSearchExact, FarFrom, Wide
<1>3. Results = Nodes(0)
  BY <1>1, AllMet
<1>4. /\ ntotal \in Nat /\ Nodes(0) = 1 .. ntotal /\ Cardinality(Nodes(0)) = ntotal
      /\ indexes[0] \in [Nodes(0) -> 1 .. ntotal]
      /\ \A a, b \in Nodes(0) : indexes[0][a] = indexes[0][b] => a = b
  BY <1>1, BottomLayer
<1> DEFINE far == [n \in Nodes(0) |-> DistTo(0, query.q, n)]
           dist == FarFrom(query.q, 1 .. ntotal)
<1>5. PICK list \in Rankings(far) :
        labels' = Padded([i \in DOMAIN list |-> LabelOf(list[i])], query.k)
  BY <1>3 DEF searchSingle
<1>6. /\ list \in [1 .. ntotal -> Nodes(0)] /\ IsInjective(list)
      /\ \A i, j \in 1 .. ntotal : i < j => far[list[i]] <= far[list[j]]
  BY <1>4 DEF Rankings
<1> DEFINE ids == [i \in DOMAIN list |-> LabelOf(list[i])]
<1>7. ids \in [1 .. ntotal -> 1 .. ntotal]
  BY <1>4, <1>6 DEF LabelOf
<1>8. IsInjective(ids)
  BY <1>4, <1>6 DEF IsInjective, LabelOf
<1>9. \A i \in 1 .. ntotal : dist[ids[i]] = far[list[i]]
  BY <1>4, <1>6, <1>7 DEF FarFrom, LabelOf, DistTo, VectorOf
<1>10. DOMAIN dist = 1 .. ntotal /\ Cardinality(1 .. ntotal) = ntotal
  BY <1>4 DEF FarFrom
<1> HIDE DEF ids, far, dist
<1>11. ids \in Rankings(dist)
  BY <1>6, <1>7, <1>8, <1>9, <1>10 DEF Rankings
<1> QED BY <1>5, <1>11 DEF ids, dist

LEMMA StorageSearchExact ==
  ASSUME Whole, StorageSearch
  PROVE  WideSearchExact'
<1>1. /\ query \in Queries /\ UNCHANGED <<storage, ntotal>>
      /\ query' = [query EXCEPT !.state = "answered"]
  BY DEF Whole, SearchInv, StorageSearch, vars, indexVars
<1>2. PICK list \in Rankings(FarFrom(query.q, query.sel)) : labels' = Padded(list, query.k)
  BY DEF StorageSearch
<1>3. query'.sel = query.sel /\ query'.q = query.q /\ query'.k = query.k
  BY <1>1, SameQuestion
<1> QED BY <1>1, <1>2, <1>3 DEF WideSearchExact, FarFrom

\* No other step gives an answer.
LEMMA StepExact ==
  ASSUME NEW t, Threads = {t}, Sole(t), Joined(t), Gathered, WideSearchExact,
         [NextSearch]_<<vars, searchVars>>
  PROVE  WideSearchExact'
<1>1. CASE query.state = "idle" /\ Next /\ UNCHANGED searchVars
  BY <1>1 DEF searchVars, WideSearchExact
<1>2. CASE search
  BY <1>2 DEF search, WideSearchExact
<1>3. CASE StorageSearch
  BY <1>3, StorageSearchExact DEF Sole
<1>4. CASE searchLayer \/ Descend
  BY <1>4 DEF searchLayer, Descend, LayerDone, WideSearchExact
<1>5. CASE searchSingle
  BY <1>5, searchSingleExact
<1>6. CASE Return
  BY <1>6 DEF Return, NoQuery, WideSearchExact
<1>7. CASE UNCHANGED <<vars, searchVars>>
  BY <1>7 DEF vars, indexVars, searchVars, WideSearchExact, FarFrom
<1> QED BY <1>1, <1>2, <1>3, <1>4, <1>5, <1>6, <1>7 DEF NextSearch, SearchStep

LEMMA searchLayerGathers ==
  ASSUME Whole, Gathered, searchLayer
  PROVE  Gathered'
<1>1. /\ query.state = "graph" /\ Searching
      /\ UNCHANGED <<query, layer, ntotal, graph>>
  BY DEF Whole, SearchInv, searchLayer, vars, indexVars, graphVars
<1>2. PICK n \in Best(layer, query.q, SearchFrontier) :
        met' = met \cup NewlyMet(n) /\ spent' = spent \cup {n}
  BY DEF searchLayer, Popped
<1>3. n \in Nodes(layer)
  BY <1>1, <1>2 DEF Best, SearchFrontier, Results, NearestOf, Searching
<1> SUFFICES ASSUME Wide
             PROVE  /\ met' # {}
                    /\ layer = 0 => \A m \in spent' : ToSet(graph[0][m]) \subseteq met'
  BY <1>1 DEF Gathered, Wide
<1>4. met # {} /\ (layer = 0 => \A m \in spent : ToSet(graph[0][m]) \subseteq met)
  BY <1>1 DEF Gathered
<1>5. layer = 0 => ToSet(graph[0][n]) \subseteq met \cup NewlyMet(n)
  BY <1>1, <1>3, AllNeighborsMet
<1> QED BY <1>2, <1>4, <1>5

LEMMA StepGathers ==
  ASSUME Whole, Gathered, [NextSearch]_<<vars, searchVars>>
  PROVE  Gathered'
<1>0. query \in Queries
  BY DEF Whole, SearchInv
<1>1. CASE query.state = "idle" /\ Next /\ UNCHANGED searchVars
  BY <1>1 DEF searchVars, Gathered
<1>2. CASE search
  BY <1>2 DEF search, EnterLayer, Gathered
<1>3. CASE StorageSearch \/ searchSingle
  BY <1>0, <1>3, SameQuestion DEF StorageSearch, searchSingle, Gathered
<1>4. CASE searchLayer
  BY <1>4, searchLayerGathers
<1>5. CASE Descend
  BY <1>5 DEF Descend, EnterLayer, Gathered
<1>6. CASE Return
  BY <1>6 DEF Return, NoQuery, Gathered
<1>7. CASE UNCHANGED <<vars, searchVars>>
  BY <1>7 DEF vars, indexVars, graphVars, searchVars, Gathered, Wide
<1> QED BY <1>1, <1>2, <1>3, <1>4, <1>5, <1>6, <1>7 DEF NextSearch, SearchStep

\* What is known of a wide search, its index and the thread that built it.
Exact(t) == Sole(t) /\ Joined(t) /\ Gathered /\ WideSearchExact

LEMMA InitExact ==
  ASSUME NEW t, Threads = {t}
  PROVE  InitSearch => Exact(t)
<1> SUFFICES ASSUME InitSearch PROVE Exact(t)
  OBVIOUS
<1>1. Sole(t) /\ Joined(t)
  BY InitSole, InitJoined DEF InitSearch
<1>2. query.state = "idle"
  BY DEF InitSearch, NoQuery
<1> QED BY <1>1, <1>2 DEF Exact, Gathered, WideSearchExact

LEMMA NextExact ==
  ASSUME NEW t, Threads = {t}
  PROVE  Exact(t) /\ NeverPruned /\ NeverPruned' /\ [NextSearch]_<<vars, searchVars>>
           => Exact(t)'
<1> SUFFICES ASSUME Exact(t), NeverPruned, NeverPruned',
                    [NextSearch]_<<vars, searchVars>>
             PROVE  Exact(t)'
  OBVIOUS
<1>1. /\ Sole(t) /\ Joined(t) /\ Gathered /\ WideSearchExact /\ Whole /\ IInv /\ Alone(t)
      /\ [Next]_vars
  BY BuildStep DEF Exact, Sole, Whole, SearchInv
<1>2. Sole(t)'
  BY <1>1, NextSole
<1>3. Joined(t)'
  BY <1>1, NextJoins
<1>4. Gathered' /\ WideSearchExact'
  BY <1>1, StepGathers, StepExact
<1> QED BY <1>2, <1>3, <1>4 DEF Exact

\* If one thread builds the graph and no list gets long enough to be pruned,
\* a search that wants every id and whose efSearch and M are not below ntotal
\* lists the nearest vectors of the whole storage, as the exact scan would: it
\* ends only when it has met all of layer 0, wherever the descent entered it.
THEOREM UnprunedExact ==
  ASSUME NEW CONSTANT t, Threads = {t}
  PROVE  SearchSpec /\ []NeverPruned => []WideSearchExact
<1>1. InitSearch => Exact(t)
  BY InitExact
<1>2. Exact(t) /\ NeverPruned /\ NeverPruned' /\ [NextSearch]_<<vars, searchVars>>
        => Exact(t)'
  BY NextExact
<1>3. Exact(t) => WideSearchExact
  BY DEF Exact
<1> QED BY <1>1, <1>2, <1>3, PTL DEF SearchSpec

\* A storage that never grows past the cut-off of the pruning is such a case.
THEOREM WideSearchExactAlone ==
  ASSUME NEW CONSTANT t, Threads = {t}, MaxVecs <= two_hop_prune_cutoff
  PROVE  SearchSpec => []WideSearchExact
<1>1. InitSearch => Sole(t) /\ NeverPruned
  BY InitSole DEF InitSearch, Init, NeverPruned, Pruning
<1>2. Sole(t) /\ NeverPruned /\ [NextSearch]_<<vars, searchVars>>
        => (Sole(t) /\ NeverPruned)'
  <2> SUFFICES ASSUME Sole(t), NeverPruned, [NextSearch]_<<vars, searchVars>>
               PROVE  Sole(t)' /\ NeverPruned'
    OBVIOUS
  <2>1. Sole(t)'
    BY NextSole
  <2>2. IInv /\ Alone(t) /\ Capacity /\ [Next]_vars
    BY BuildStep DEF Sole, Whole, SearchInv
  <2>3. NeverPruned'
    BY <2>2, NextUnpruned
  <2> QED BY <2>1, <2>3
<1>3. SearchSpec => []NeverPruned
  BY <1>1, <1>2, PTL DEF SearchSpec
<1> QED BY <1>3, UnprunedExact, PTL
===============================================================================
