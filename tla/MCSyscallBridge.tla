-------------------------- MODULE MCSyscallBridge --------------------------
EXTENDS SyscallBridge, TLC

Symmetry == Permutations(Clients)
=============================================================================
