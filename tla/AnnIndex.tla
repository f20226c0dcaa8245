------------------------------- MODULE AnnIndex -------------------------------
(***************************************************************************)
(* What an index promises to the one client that builds and queries it:    *)
(* vectors are added in batches; a query names a vector q, a filter and k, *)
(* and is answered with at most k ids.  The answer is approximate, so it   *)
(* may leave out any vector, but whatever it lists is stored, belongs to   *)
(* the filter up to Stray exceptions, and stands in order of distance.     *)
(***************************************************************************)
EXTENDS Integers, FiniteSets, SequencesExt

CONSTANTS Points, Dist, Ks, NoLabel, Stray

VARIABLES
  stored,    \* the vectors, in id order
  asked,     \* the query and how far it is
  answer     \* its labels

vars == <<stored, asked, answer>>

NoQuery == [state |-> "idle", q |-> 0, sel |-> {}, k |-> 0]

Init == stored = <<>> /\ asked = NoQuery /\ answer = <<>>

\* add() makes a whole batch visible, reset() forgets all.
Add ==
  /\ asked.state = "idle"
  /\ stored # stored' /\ IsPrefix(stored, stored')
  /\ ToSet(stored') \subseteq Points
  /\ UNCHANGED <<asked, answer>>

Reset ==
  /\ asked.state = "idle" /\ stored' = <<>>
  /\ UNCHANGED <<asked, answer>>

Ask ==
  /\ asked.state = "idle"
  /\ \E q \in Points, sel \in SUBSET DOMAIN stored, k \in Ks :
       asked' = [state |-> "asked", q |-> q, sel |-> sel, k |-> k]
  /\ UNCHANGED <<stored, answer>>

Acceptable(list) ==
  LET found == ToSet(list) \ {NoLabel}
      Far(i) == Dist[asked.q][stored[list[i]]]
  IN /\ Len(list) = asked.k
     /\ found \subseteq DOMAIN stored
     /\ \A i, j \in DOMAIN list :
          i < j /\ list[j] # NoLabel =>
            list[i] \notin {NoLabel, list[j]} /\ Far(i) <= Far(j)
     /\ Cardinality(found \ asked.sel) <= Stray

Answer ==
  /\ asked.state = "asked"
  /\ Acceptable(answer')
  /\ asked' = [asked EXCEPT !.state = "answered"]
  /\ UNCHANGED stored

Take ==
  /\ asked.state = "answered"
  /\ asked' = NoQuery /\ answer' = <<>>
  /\ UNCHANGED stored

Next == Add \/ Reset \/ Ask \/ Answer \/ Take

Spec == Init /\ [][Next]_vars
===============================================================================
