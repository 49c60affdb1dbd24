--------------------------- MODULE MCProcessTable ---------------------------
EXTENDS ProcessTable, TLC

Symmetry == Permutations(Pids)
=============================================================================
