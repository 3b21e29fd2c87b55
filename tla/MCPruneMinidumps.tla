---------------------------- MODULE MCPruneMinidumps ----------------------------
(* Values for model checking PruneMinidumps.                                    *)
EXTENDS PruneMinidumps

CONSTANTS d1, d2, d3, e1

MCFiles == {d1, d2, d3, e1}
MCExports == {e1}

\* With MaxBytes = 3: d1 and d2 fit exactly, d3 alone is too large.
MCSize == [f \in Files |-> CASE f = d1 -> 1 [] f = d2 -> 2 [] f = d3 -> 4 [] OTHER -> 4]
================================================================================
