---------------------------- MODULE EagerRestore ----------------------------
(***************************************************************************)
(* What lazy restore promises to guests: the same file system they would   *)
(* have had if everything had been restored at boot.  A request is carried *)
(* out at once on the whole tree.                                          *)
(***************************************************************************)
EXTENDS ProjectTree

VARIABLES tree,  \* the projects
          said   \* what the last read was answered

Serve(q) ==
  /\ tree' \in Results(q, tree)
  /\ said' = Answer(q, tree)

EagerNext == \E q \in Requests : Serve(q)
EagerSpec == tree \in [Roots -> [Names -> {"none", "old"}]] /\ said = {}
             /\ [][EagerNext]_<<tree, said>>
=============================================================================
