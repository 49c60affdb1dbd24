--------------------------- MODULE MCLazyRestore ---------------------------
EXTENDS LazyRestore, TLC

CONSTANTS c1, c2, r1, r2, a, b
=============================================================================
