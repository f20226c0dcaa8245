------------------------------ MODULE MCIVFSquared ------------------------------
(* IVFSquared over points of a line.                                        *)
EXTENDS IVFSquared

LineDist == [p \in Points |-> [q \in Points |-> IF p > q THEN p - q ELSE q - p]]
MCBatches == {<<3, 0, 3>>, <<1>>}
===============================================================================
