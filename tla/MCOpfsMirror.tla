---------------------------- MODULE MCOpfsMirror ----------------------------
EXTENDS OpfsMirror

CONSTANTS d1, d2, a, b
OneDir == {d1}
TwoDirs == {d1, d2}

Workload(kinds, again) == [kinds |-> kinds, again |-> again]

\* No path is used again after its removal; or files are, in a directory that
\* stays.
Safe == {Workload({"mkdir", "write", "symlink", "unlink", "rm"}, FALSE),
         Workload({"mkdir", "write", "unlink"}, TRUE)}

\* Whatever leaves the manifest's chain intact.
NoLinks == {Workload(Operations \ {"symlink"}, TRUE)}

Links   == {Workload({"mkdir", "symlink", "unlink"}, FALSE)}
=============================================================================
