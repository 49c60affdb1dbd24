------------------------------- MODULE MCVfs -------------------------------
EXTENDS Vfs, TLC

CONSTANTS c1, c2

Symmetry == Permutations(Clients)
=============================================================================
