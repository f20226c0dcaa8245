----------------------------- MODULE MCResultLog -----------------------------
(* ResultLog with interchangeable scripts and parameters.                   *)
EXTENDS ResultLog, TLC

Symmetry == Permutations(Clients) \cup Permutations(Params)
===============================================================================
