---------------------------- MODULE ProjectTree ----------------------------
(***************************************************************************)
(* What guests do to the persisted projects (fs/Vfs.ts, one level deep): a *)
(* project is a directory of named files, or gone.  Pure operators, shared *)
(* by the specification of eager restore and by lazy restore.              *)
(***************************************************************************)
CONSTANTS Roots,  \* the projects: directories at depth lazyDepth
          Names   \* names inside a project

Contents == {"none", "old", "new"}
Empty == [n \in Names |-> "none"]
Gone  == [n \in Names |-> "gone"]
Trees == [Roots -> [Names -> Contents] \cup {Gone}]

\* What may be asked for: a file of a project, a project, or all of them.
Requests ==
  [kind : {"read", "write", "unlink"}, roots : {{r} : r \in Roots}, name : Names]
    \cup [kind : {"move"}, name : Names,
          roots : {R \in SUBSET Roots : \E r, s \in R : r # s /\ R = {r, s}}]
    \cup [kind : {"mkdir"}, roots : {{r} : r \in Roots}, name : {"none"}]
    \cup [kind : {"rmTree"}, roots : {{r} : r \in Roots} \cup {Roots}, name : {"none"}]

\* A file moved from one project to another, over what is there.
Moved(t, name, from, to) ==
  IF Gone \in {t[from], t[to]} \/ t[from][name] = "none" THEN t
  ELSE [t EXCEPT ![from][name] = "none", ![to][name] = t[from][name]]

\* The tree a request leaves, one outcome per choice of a move's direction.
Results(q, t) ==
  CASE q.kind = "read" -> {t}
    [] q.kind \in {"write", "unlink"} ->
         {[r \in Roots |-> IF r \notin q.roots \/ t[r] = Gone THEN t[r]
                           ELSE [t[r] EXCEPT ![q.name] =
                                   IF q.kind = "write" THEN "new" ELSE "none"]]}
    [] q.kind = "move" ->
         {Moved(t, q.name, p[1], p[2]) : p \in {d \in q.roots \X q.roots : d[1] # d[2]}}
    [] q.kind = "mkdir" ->
         {[r \in Roots |-> IF r \in q.roots /\ t[r] = Gone THEN Empty ELSE t[r]]}
    [] q.kind = "rmTree" -> {[r \in Roots |-> IF r \in q.roots THEN Gone ELSE t[r]]}

\* What a request is answered with, as far as it depends on the tree.
Answer(q, t) == IF q.kind = "read" THEN {t[r][q.name] : r \in q.roots} ELSE {}
=============================================================================
