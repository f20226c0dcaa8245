---------------------------- MODULE MCAcornBuild ----------------------------
(* AcornBuild over points of a line, with the distances between them.      *)
EXTENDS AcornBuild

Abs(i) == IF i < 0 THEN -i ELSE i

LineDist == [p \in Points |-> [q \in Points |-> Abs(p - q)]]

Symmetry == Permutations(Threads)
=============================================================================
