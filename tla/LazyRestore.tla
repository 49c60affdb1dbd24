---------------------------- MODULE LazyRestore ----------------------------
(***************************************************************************)
(* Lazy restore of persisted projects (fs/opfsPersistence.ts:              *)
(* restoreFromOpfsLazy, restoreFromOpfs) and the service of requests that  *)
(* may have to wait for it (workers/fs/handler.ts: service).               *)
(*                                                                         *)
(* A project is an empty placeholder directory until a request names a     *)
(* path in it; the request waits while the project's files are read from   *)
(* OPFS, one await per file, and other requests are served meanwhile.  A    *)
(* file that cannot be read is skipped; a restore whose directory cannot be *)
(* listed or whose links cannot be saved rejects, and the requests that    *)
(* wait for it are never served: nothing handles the rejection.            *)
(* While anything is being restored Vfs.onChange is switched off.          *)
(***************************************************************************)
EXTENDS Naturals, FiniteSets, ProjectTree

CONSTANTS Clients,  \* processes, with one request at a time
          Kinds,    \* the requests they use
          MaxOps,   \* bound on the requests
          MaxFaults \* bound on what OPFS fails to give back

ASSUME LazyAssumption == MaxOps \in Nat /\ MaxFaults \in Nat /\ IsFiniteSet(Roots)

VARIABLES
  stored,   \* what OPFS holds of each project
  fault,    \* what of r's restore throws: the listing, or the save of the links
  vfs,      \* the projects the Vfs has
  pending,  \* lazy roots not yet restored
  task,     \* task[r]: where the restore of r is
  todo,     \* todo[r]: files collected and not yet written
  depth,    \* suppressDepth
  hook,     \* vfs.onChange: the real one, or none
  request,  \* request[c]: what c asked for and waits for
  ops,      \* requests so far
  said,     \* what the last read was answered
  echoed    \* projects with a restored file reported as a change

restoreVars == <<pending, task, todo, depth, hook>>
opfs == <<stored, fault>>
vars == <<opfs, vfs, restoreVars, request, ops, said, echoed>>

NoRequest == [q |-> [kind |-> "none"], waits |-> {}]

Held == {"none", "old", "unreadable"}
Faults == {"none", "entries", "links"}

Init ==
  /\ stored \in [Roots -> [Names -> Held]]
  /\ fault \in [Roots -> Faults]
  /\ Cardinality({r \in Roots : fault[r] # "none"})
       + Cardinality({f \in Roots \X Names : stored[f[1]][f[2]] = "unreadable"}) <= MaxFaults
  /\ vfs = [r \in Roots |-> Empty]
  /\ pending = Roots
  /\ task = [r \in Roots |-> "off"]
  /\ todo = [r \in Roots |-> {}]
  /\ depth = 0 /\ hook = "real"
  /\ request = [c \in Clients |-> NoRequest]
  /\ ops = 0 /\ said = {} /\ echoed = {}

Asked(c) == request[c] # NoRequest
Busy(r)  == task[r] \notin {"off", "rejected"}
Restored(c) == \A r \in request[c].waits : task[r] = "off"

\* Continuations of settled promises run before the next message.
Due == \/ \E r \in Roots : task[r] \in {"settle", "throw"}
       \/ \E c \in Clients : Asked(c) /\ Restored(c)

-----------------------------------------------------------------------------
\* FsServer.service: the request on the tree as it is now.
Carry(c, q) ==
  /\ vfs' \in Results(q, vfs)
  /\ said' = Answer(q, vfs)
  /\ request' = [request EXCEPT ![c] = NoRequest]

\* ensureOne, for each pending root the request's paths name.
Materialize(R) ==
  LET begun == {r \in R : ~Busy(r)} IN
  /\ task' = [r \in Roots |-> IF r \in begun THEN "collect" ELSE task[r]]
  /\ depth' = depth + Cardinality(begun)
  /\ hook' = IF begun # {} THEN "none" ELSE hook
  /\ UNCHANGED <<pending, todo>>

\* (mutant) A root whose restore has begun counts as restored.
DoorbellNotWaiting(c, q) ==
  /\ ~Due /\ ~Asked(c)
  /\ q.kind \in Kinds /\ ops < MaxOps
  /\ ops' = ops + 1
  /\ LET R == {r \in q.roots \cap pending : ~Busy(r)} IN
       \/ /\ R = {}
          /\ Carry(c, q)
          /\ UNCHANGED restoreVars
       \/ /\ R # {} /\ q.kind # "rmTree"
          /\ Materialize(R)
          /\ request' = [request EXCEPT ![c] = [q |-> q, waits |-> R]]
          /\ UNCHANGED <<vfs, said>>
  /\ UNCHANGED <<opfs, echoed>>

\* A doorbell: the pending roots that the request's paths are in, or contain.
Doorbell(c, q) ==
  /\ ~Due /\ ~Asked(c)
  /\ q.kind \in Kinds /\ ops < MaxOps
  /\ ops' = ops + 1
  /\ LET R == q.roots \cap pending IN
       \/ /\ R = {}
          /\ Carry(c, q)
          /\ UNCHANGED restoreVars
       \* discardPending: a recursive removal does not wait
       \/ /\ R # {} /\ q.kind = "rmTree"
          /\ pending' = pending \ R
          /\ Carry(c, q)
          /\ UNCHANGED <<task, todo, depth, hook>>
       \/ /\ R # {} /\ q.kind # "rmTree"
          /\ Materialize(R)
          /\ request' = [request EXCEPT ![c] = [q |-> q, waits |-> R]]
          /\ UNCHANGED <<vfs, said>>
  /\ UNCHANGED <<opfs, echoed>>

\* The files of r are all there, and its links are replayed; if one of them is
\* an orphan the manifest is saved without it.
FilesDone(r) == \E next \in {"settle", "links"} : task' = [task EXCEPT ![r] = next]

\* collectOpfsTree's answer; a listing that throws rejects the restore before
\* the first file is read.
Collect(r) ==
  /\ ~Due /\ task[r] = "collect"
  /\ IF fault[r] = "entries"
       THEN task' = [task EXCEPT ![r] = "throw"] /\ UNCHANGED todo
       ELSE /\ todo' = [todo EXCEPT ![r] = {n \in Names : stored[r][n] # "none"}]
            /\ IF todo'[r] = {} THEN FilesDone(r) ELSE task' = [task EXCEPT ![r] = "files"]
  /\ UNCHANGED <<opfs, vfs, pending, depth, hook, request, ops, said, echoed>>

\* (mutant) A file that cannot be restored rejects the whole restore.
RestoreFileThrows(r, n) ==
  /\ ~Due /\ task[r] = "files" /\ n \in todo[r]
  /\ todo' = [todo EXCEPT ![r] = @ \ {n}]
  /\ IF vfs[r] # Gone /\ stored[r][n] = "old"
       THEN /\ vfs' = [vfs EXCEPT ![r][n] = "old"]
            /\ echoed' = IF hook = "real" THEN echoed \cup {r} ELSE echoed
            /\ IF todo'[r] = {} THEN FilesDone(r) ELSE UNCHANGED task
       ELSE task' = [task EXCEPT ![r] = "throw"] /\ UNCHANGED <<vfs, echoed>>
  /\ UNCHANGED <<opfs, pending, depth, hook, request, ops, said>>

\* One file's content has come and is written into the Vfs; one that cannot be
\* read, or has lost its directory, is skipped.
RestoreFile(r, n) ==
  /\ ~Due /\ task[r] = "files" /\ n \in todo[r]
  /\ todo' = [todo EXCEPT ![r] = @ \ {n}]
  /\ IF vfs[r] # Gone /\ stored[r][n] = "old"
       THEN /\ vfs' = [vfs EXCEPT ![r][n] = "old"]
            /\ echoed' = IF hook = "real" THEN echoed \cup {r} ELSE echoed
       ELSE UNCHANGED <<vfs, echoed>>
  /\ IF todo'[r] = {} THEN FilesDone(r) ELSE UNCHANGED task
  /\ UNCHANGED <<opfs, pending, depth, hook, request, ops, said>>

\* saveSymlinkManifest, without the orphans.
SaveLinks(r) ==
  /\ ~Due /\ task[r] = "links"
  /\ task' = [task EXCEPT ![r] = IF fault[r] = "links" THEN "throw" ELSE "settle"]
  /\ UNCHANGED <<opfs, vfs, pending, todo, depth, hook, request, ops, said, echoed>>

\* Whether it has been restored or has thrown.
Ended(r) == task' = [task EXCEPT ![r] = IF @ = "throw" THEN "rejected" ELSE "off"]

\* (mutant) The handler is put back whoever else is still restoring.
SettleAlone(r) ==
  /\ task[r] \in {"settle", "throw"}
  /\ depth' = depth - 1
  /\ hook' = "real"
  /\ pending' = pending \ {r}
  /\ Ended(r)
  /\ UNCHANGED <<opfs, vfs, todo, request, ops, said, echoed>>

\* (mutant) The counter is left as it was.
SettleUncounted(r) ==
  /\ task[r] \in {"settle", "throw"}
  /\ hook' = IF depth = 0 THEN "real" ELSE hook
  /\ pending' = pending \ {r}
  /\ Ended(r)
  /\ UNCHANGED <<opfs, vfs, depth, todo, request, ops, said, echoed>>

\* withSuppressedOnChange's and ensureOne's finally, restored or not.
Settle(r) ==
  /\ task[r] \in {"settle", "throw"}
  /\ depth' = depth - 1
  /\ hook' = IF depth' = 0 THEN "real" ELSE hook
  /\ pending' = pending \ {r}
  /\ Ended(r)
  /\ UNCHANGED <<opfs, vfs, todo, request, ops, said, echoed>>

\* ensureRestored has resolved: Promise.all over the roots.  If one of them has
\* rejected nothing is left to answer the request.
Serve(c) ==
  /\ Asked(c) /\ Restored(c)
  /\ Carry(c, request[c].q)
  /\ UNCHANGED <<opfs, restoreVars, ops, echoed>>

Guest == \E c \in Clients, q \in Requests : Doorbell(c, q)
Restore == \/ \E r \in Roots : \/ Collect(r) \/ SaveLinks(r) \/ Settle(r)
                             \/ \E n \in Names : RestoreFile(r, n)
           \/ \E c \in Clients : Serve(c)

Next == Guest \/ Restore
Spec == Init /\ [][Next]_vars

\* The browser answers its requests and microtasks run.
FairSpec == Spec /\ WF_vars(Restore)

-----------------------------------------------------------------------------
(* Properties.                                                              *)

Stages == {"off", "collect", "files", "links", "settle", "throw", "rejected"}

TypeOK ==
  /\ stored \in [Roots -> [Names -> Held]]
  /\ fault \in [Roots -> Faults]
  /\ vfs \in Trees
  /\ pending \subseteq Roots
  /\ task \in [Roots -> Stages]
  /\ todo \in [Roots -> SUBSET Names]
  /\ depth = Cardinality({r \in Roots : Busy(r)})
  /\ hook \in {"real", "none"}
  /\ request \in [Clients -> {NoRequest} \cup [q : Requests, waits : SUBSET Roots]]
  /\ ops \in 0..MaxOps
  /\ said \subseteq Contents \cup {"gone"}
  /\ echoed \subseteq Roots

\* A restored file is never reported as a change, however restores overlap:
\* it would be written back to OPFS and wake watchers (l.432-441).
RestoreIsSilent == echoed = {}

\* What these rest on.  The handler is off exactly while a restore is counted:
HandlerOff == hook = IF depth = 0 THEN "real" ELSE "none"

\* a request waits for every root of it that is still to be restored;
Waiting ==
  \A c \in Clients : Asked(c) =>
    /\ request[c].q.kind \in Kinds
    /\ \A r \in request[c].q.roots \cap pending : r \in request[c].waits /\ Busy(r)

\* and until then the Vfs has of a root the files written so far and nothing
\* else, and of one that was discarded meanwhile nothing at all.
Readable(r) ==
  [n \in Names |->
     IF fault[r] = "entries" \/ stored[r][n] = "unreadable" THEN "none" ELSE stored[r][n]]
SoFar(r, n) ==
  IF ~Busy(r) \/ task[r] = "collect" \/ n \in todo[r] THEN "none" ELSE Readable(r)[n]
PartlyRestored ==
  \A r \in Roots :
    /\ r \in pending => vfs[r] = [n \in Names |-> SoFar(r, n)]
    /\ r \notin pending /\ Busy(r) => vfs[r] = Gone /\ "rmTree" \in Kinds
    /\ IF task[r] = "files" THEN fault[r] # "entries" ELSE todo[r] = {}

\* Nobody can tell that restore is lazy: the projects not yet restored count as
\* what can be read of them in OPFS.  A request that is never served, because a
\* restore it waits for has rejected, has no effect either.
Eager == INSTANCE EagerRestore WITH
           tree <- [r \in Roots |-> IF r \in pending THEN Readable(r) ELSE vfs[r]],
           said <- said
ImplementsEager == Eager!EagerSpec

\* A request that waits for restores is served in the end, whatever file cannot
\* be read and whatever is removed meanwhile, unless OPFS fails to list one of
\* these projects or to take the links of one (then it is never served: the
\* rejection goes unhandled, handler.ts:96).
DeferredIsServed ==
  \A c \in Clients :
    (Asked(c) /\ \A r \in request[c].waits : fault[r] = "none") ~> ~Asked(c)
=============================================================================
