---------------------------- MODULE MCNetServer ----------------------------
EXTENDS NetServer

CONSTANTS p1, p2
=============================================================================
