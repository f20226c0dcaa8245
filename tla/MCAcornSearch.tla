---------------------------- MODULE MCAcornSearch ----------------------------
(* AcornSearch over points of a line, as in MCAcornBuild.                   *)
EXTENDS GraphStats, MCAcornBuild
=============================================================================
