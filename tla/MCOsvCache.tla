----------------------------- MODULE MCOsvCache -----------------------------
(* Values for TLC: a small response and a large one of twice its size.     *)
EXTENDS OsvCache

CONSTANTS small, large

MCBytes   == [b \in Body |-> IF b = small THEN 1 ELSE 2]
MCResults == MCBytes
=============================================================================
