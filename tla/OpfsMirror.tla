----------------------------- MODULE OpfsMirror -----------------------------
(***************************************************************************)
(* The write-behind mirror from the virtual file system to the browser's   *)
(* origin-private file system (fs/opfsPersistence.ts: createOpfsMirror and *)
(* what it calls), the change events of fs/Vfs.ts that feed it and the     *)
(* flush that wc.fs.sync() waits for.                                      *)
(*                                                                         *)
(* The File System Worker is one thread.  A guest's operation, a browser's *)
(* answer and the request for a flush are its macrotasks; what an awaited  *)
(* promise sets off runs as microtasks, all of them before the next        *)
(* macrotask (`Due`).  The browser carries requests out in the order they  *)
(* are made, so one takes effect in the action that makes it, and is       *)
(* answered later.  The page may be reloaded at any time; what a request    *)
(* had not yet done is then never done.                                     *)
(*                                                                         *)
(* Data: directories of the root and names in them; a file's content is    *)
(* the number of the operation that wrote it; a symlink points at Target.  *)
(***************************************************************************)
EXTENDS Naturals, Sequences, FiniteSets

CONSTANTS Dirs,        \* directories directly under the persisted root
          Names,       \* names inside a directory
          Self,        \* the name that stands for the directory itself
          Target,      \* where every symlink points: a path, or Outside
          Outside,     \* a place that is always there and not persisted
          Workloads,   \* what guests may do: kinds of operations, and whether
                       \* a removed path may be created again
          Fails,       \* which OPFS requests may fail
          MaxOps,      \* bound on the operations
          MaxReloads,  \* bound on the reloads of the page
          Concurrency  \* WRITE_CONCURRENCY

Paths == Dirs \X (Names \cup {Self})
Operations == {"mkdir", "write", "symlink", "unlink", "rm", "rename", "move"}

ASSUME MirrorAssumption ==
  /\ Self \notin Names
  /\ Outside \notin Paths /\ Target \in Paths \cup {Outside}
  /\ Workloads \subseteq [kinds : SUBSET Operations, again : BOOLEAN]
  /\ Fails \subseteq {"dir", "write", "remove", "locked"}
  /\ MaxOps \in Nat /\ MaxReloads \in Nat /\ Concurrency \in Nat \ {0}

VARIABLES
  vfs,       \* the tree the guests see
  ops,       \* operations so far; the last one's number is its content
  gone,      \* paths that were removed at some time
  workload,  \* the workload of this behaviour
  reloads,   \* how often the page was reloaded
  chain,     \* pathChains: notifications not yet dealt with, per path
  waiting,   \* writeQueue: paths that wait for a slot
  run,       \* run[p]: the task at the head of p's chain
  cache,     \* the promise of a directory's handle
  opfs,      \* what the browser holds
  manifest,  \* the symlink manifest: links on record
  mqueue,    \* manifestChain: operations not yet done
  mbusy,     \* the first of them is under way
  poisoned,  \* manifestChain is a rejected promise
  flush,     \* the flush that was asked for
  since,     \* paths changed after it
  unlucky    \* paths for which an OPFS request of their own failed

guestVars    == <<vfs, ops, gone, since, workload, reloads>>
taskVars     == <<chain, waiting, run>>
manifestVars == <<manifest, mqueue, mbusy, poisoned>>
vars == <<guestVars, taskVars, cache, opfs, manifestVars, flush, unlucky>>

None    == [kind |-> "none", ver |-> 0]
File(v) == [kind |-> "file", ver |-> v]
Dir     == [kind |-> "dir", ver |-> 0]
Link    == [kind |-> "link", ver |-> 0]

DirOf(p)    == <<p[1], Self>>
IsDir(p)    == p[2] = Self
Children(p) == {q \in Paths : IsDir(p) /\ q[1] = p[1] /\ ~IsDir(q)}
Under(p)    == {p} \cup Children(p)

\* A task: where it is in the code, the path it is at (its own or, walking a
\* renamed directory, a child), the content it read and the children to come.
At(pc, path, ver, todo) == [pc |-> pc, path |-> path, ver |-> ver, todo |-> todo]
Off == At("off", <<>>, 0, {})

Running == {p \in Paths : run[p].pc # "off"}
Idle(p) == chain[p] # <<>> /\ p \notin Running /\ \A i \in DOMAIN waiting : waiting[i] # p

\* Microtasks are pending.
Due == \/ \E p \in Paths : Idle(p) \/ run[p].pc \in {"begin", "go", "next"}
       \/ mqueue # <<>> /\ ~mbusy

Init ==
  /\ vfs = [p \in Paths |-> None] /\ ops = 0 /\ gone = {}
  /\ workload \in Workloads /\ reloads = 0
  /\ chain = [p \in Paths |-> <<>>] /\ waiting = <<>> /\ run = [p \in Paths |-> Off]
  /\ cache = [d \in Dirs |-> "none"] /\ opfs = [p \in Paths |-> None]
  /\ manifest = {} /\ mqueue = <<>> /\ mbusy = FALSE /\ poisoned = FALSE
  /\ flush = [state |-> "none", left |-> [p \in Paths |-> 0], mleft |-> 0]
  /\ since = {} /\ unlucky = {}

-----------------------------------------------------------------------------
(* The guests' operations, with the events Vfs.onChange reports for them.   *)

Present(p) == vfs[p].kind # "none"

\* vfs.exists follows a link to its target.
Exists(p) ==
  /\ Present(p)
  /\ vfs[p].kind = "link" => Target = Outside \/ Present(Target)

Operation(kind, tree, notified, walk) ==
  /\ kind \in workload.kinds /\ ops < MaxOps /\ ~Due
  /\ workload.again \/ \A p \in gone : tree[p] = None
  /\ vfs' = tree
  /\ ops' = ops + 1
  /\ gone' = gone \cup {p \in Paths : tree[p] = None /\ Present(p)}
  /\ since' = IF flush.state = "none" THEN {}
               ELSE since \cup {p \in Paths : tree[p] # vfs[p]}
  /\ chain' = [p \in Paths |->
                 IF p \in notified THEN Append(chain[p], walk) ELSE chain[p]]
  /\ UNCHANGED <<workload, reloads, waiting, run, cache, opfs, manifestVars, flush, unlucky>>

Mkdir(p) ==
  /\ IsDir(p) /\ ~Present(p)
  /\ Operation("mkdir", [vfs EXCEPT ![p] = Dir], {p}, FALSE)

Write(p) ==
  /\ ~IsDir(p) /\ Present(DirOf(p)) /\ vfs[p].kind # "link"
  /\ Operation("write", [vfs EXCEPT ![p] = File(ops + 1)], {p}, FALSE)

Symlink(p) ==
  /\ ~IsDir(p) /\ Present(DirOf(p)) /\ ~Present(p) /\ p # Target
  /\ Operation("symlink", [vfs EXCEPT ![p] = Link], {p}, FALSE)

Unlink(p) ==
  /\ ~IsDir(p) /\ Present(p)
  /\ Operation("unlink", [vfs EXCEPT ![p] = None], {p}, FALSE)

\* One event for the whole tree.
Rm(p) ==
  /\ IsDir(p) /\ Present(p)
  /\ Operation("rm", [q \in Paths |-> IF q \in Under(p) THEN None ELSE vfs[q]],
               {p}, FALSE)

\* A directory takes what is in it along, under two events.
Rename(p, q) ==
  /\ IsDir(p) /\ IsDir(q) /\ p # q /\ Present(p)
  /\ \A r \in Children(q) : ~Present(r)
  /\ Operation("rename",
               [r \in Paths |-> IF r[1] = p[1] THEN None
                                ELSE IF r[1] = q[1] THEN vfs[<<p[1], r[2]>>]
                                ELSE vfs[r]],
               {p, q}, TRUE)

Move(p, q) ==
  /\ ~IsDir(p) /\ ~IsDir(q) /\ p # q /\ Present(p) /\ Present(DirOf(q))
  /\ vfs[p].kind = "link" => q # Target
  /\ Operation("move", [vfs EXCEPT ![p] = None, ![q] = vfs[p]], {p, q}, TRUE)

Guest == \E p \in Paths :
           \/ Mkdir(p) \/ Write(p) \/ Symlink(p) \/ Unlink(p) \/ Rm(p)
           \/ \E q \in Paths : Rename(p, q) \/ Move(p, q)

-----------------------------------------------------------------------------
(* One path's task: microtasks.                                             *)

\* acquireWriteSlot, for the head of a path's chain.
Acquire(p) ==
  /\ Idle(p)
  /\ IF Cardinality(Running) < Concurrency
       THEN run' = [run EXCEPT ![p] = At("begin", p, 0, {})] /\ UNCHANGED waiting
       ELSE waiting' = Append(waiting, p) /\ UNCHANGED run
  /\ UNCHANGED <<guestVars, chain, cache, opfs, manifestVars, flush, unlucky>>

Record(p, x, todo) ==
  /\ run' = [run EXCEPT ![p] = At("manifest", x, 0, todo)]
  /\ mqueue' = Append(mqueue, [op |-> "record", path |-> x, by |-> p])
  /\ UNCHANGED <<cache, opfs>>

\* ensureDirCached: the promise in the cache, a rejected one included, or a
\* request that creates the directory.  The content x has now is what will be
\* written.
Ensure(p, x, todo) ==
  LET d == x[1]
      Then(pc) == run' = [run EXCEPT ![p] = At(pc, x, vfs[x].ver, todo)]
  IN /\ \/ cache[d] = "ready" /\ Then("go") /\ UNCHANGED <<cache, opfs>>
        \/ cache[d] \in {"asked", "doomed"} /\ Then(cache[d]) /\ UNCHANGED <<cache, opfs>>
        \/ cache[d] = "failed" /\ Then("thrown") /\ UNCHANGED <<cache, opfs>>
        \/ /\ cache[d] = "none"
           /\ cache' = [cache EXCEPT ![d] = "asked"]
           /\ opfs' = [opfs EXCEPT ![DirOf(x)] = Dir]
           /\ Then("asked")
        \/ /\ cache[d] = "none" /\ "dir" \in Fails
           /\ cache' = [cache EXCEPT ![d] = "doomed"]
           /\ Then("doomed")
           /\ UNCHANGED opfs
     /\ UNCHANGED mqueue

\* resyncSubtree, up to its first await; a path that is gone ends the task.
Resync(p, x, todo) ==
  CASE vfs[x].kind = "none" -> /\ run' = [run EXCEPT ![p] = At("next", x, 0, {})]
                               /\ UNCHANGED <<cache, opfs, mqueue>>
    [] vfs[x].kind = "link" -> Record(p, x, todo)
    [] OTHER -> Ensure(p, x, todo)

Locked(p) == \E q \in Running : run[q].pc = "writable" /\ run[q].path \in Under(p)

\* removeEntry, recursive; refused while a writer is open under p.  It, or the
\* search for the directory, may fail.
RemoveEntry(p) ==
  \/ /\ run' = [run EXCEPT ![p] = At(IF Locked(p) THEN "retry" ELSE "removed", p, 0, {})]
     /\ opfs' = IF Locked(p) THEN opfs
                ELSE [q \in Paths |-> IF q \in Under(p) THEN None ELSE opfs[q]]
     /\ UNCHANGED unlucky
  \/ /\ "remove" \in Fails
     /\ run' = [run EXCEPT ![p].pc = "thrown"]
     /\ unlucky' = unlucky \cup Under(p)
     /\ UNCHANGED opfs

\* With a slot in hand: gone, or there to be mirrored?
Begin(p) ==
  /\ run[p].pc = "begin"
  /\ IF Exists(p) THEN Resync(p, p, {}) /\ UNCHANGED unlucky
     ELSE /\ IF IsDir(p) THEN RemoveEntry(p)
             ELSE /\ run' = [run EXCEPT ![p] = At("find", p, 0, {})]
                  /\ UNCHANGED <<opfs, unlucky>>
          /\ UNCHANGED <<cache, mqueue>>
  /\ UNCHANGED <<guestVars, chain, waiting, manifest, mbusy, poisoned, flush>>

\* The directory's handle is there: list it if a rename announced it, or ask
\* for the file, which is created empty.
Go(p) ==
  /\ run[p].pc = "go"
  /\ LET x == run[p].path
         listing == IF Head(chain[p]) /\ Present(x)
                    THEN {[path |-> q, link |-> vfs[q].kind = "link"] :
                            q \in {q \in Children(x) : Present(q)}}
                    ELSE {}
         missing == opfs[DirOf(x)] # Dir
     IN \/ /\ IsDir(x)
           /\ run' = [run EXCEPT ![p] = At("next", x, 0, listing)]
           /\ UNCHANGED <<opfs, unlucky>>
        \/ /\ ~IsDir(x) /\ ~missing
           /\ opfs' = IF opfs[x] = None THEN [opfs EXCEPT ![x] = File(0)] ELSE opfs
           /\ run' = [run EXCEPT ![p].pc = "file"]
           /\ UNCHANGED unlucky
        \/ /\ ~IsDir(x) /\ (missing \/ "write" \in Fails)
           /\ unlucky' = unlucky \cup {x}
           /\ run' = [run EXCEPT ![p].pc = "thrown"]
           /\ UNCHANGED opfs
  /\ UNCHANGED <<guestVars, chain, waiting, cache, manifestVars, flush>>

\* A flush waits for the tails of its time.
Progress(f) ==
  IF f.state = "waiting" /\ f.mleft = 0 /\ \A p \in Paths : f.left[p] = 0
    THEN [f EXCEPT !.state = "done"] ELSE f

\* (mutant) The slot is released but nobody is woken for it.
EndKeepingQueue(p) ==
  /\ run' = [run EXCEPT ![p] = Off]
  /\ chain' = [chain EXCEPT ![p] = Tail(@)]
  /\ flush' = Progress([flush EXCEPT !.left[p] = IF @ > 0 THEN @ - 1 ELSE 0])
  /\ UNCHANGED waiting

\* The task is over: its slot goes to the first that waits for one.
End(p) ==
  LET off == [run EXCEPT ![p] = Off] IN
  /\ IF waiting = <<>>
       THEN run' = off /\ UNCHANGED waiting
       ELSE /\ run' = [off EXCEPT ![Head(waiting)] = At("begin", Head(waiting), 0, {})]
            /\ waiting' = Tail(waiting)
  /\ chain' = [chain EXCEPT ![p] = Tail(@)]
  /\ flush' = Progress([flush EXCEPT !.left[p] = IF @ > 0 THEN @ - 1 ELSE 0])

\* The next child of a renamed directory, or the end.
Proceed(p) ==
  /\ run[p].pc = "next"
  /\ IF run[p].todo = {}
       THEN End(p) /\ UNCHANGED <<cache, opfs, mqueue>>
       ELSE /\ \E c \in run[p].todo :
                 IF c.link THEN Record(p, c.path, run[p].todo \ {c})
                 ELSE Resync(p, c.path, run[p].todo \ {c})
            /\ UNCHANGED <<chain, waiting, flush>>
  /\ UNCHANGED <<guestVars, manifest, mbusy, poisoned, unlucky>>

-----------------------------------------------------------------------------
(* The browser's answers.                                                   *)

Waiters(d, pc) == {p \in Running : run[p].pc = pc /\ run[p].path[1] = d}
Resume(ps, pc)  == run' = [p \in Paths |-> IF p \in ps THEN [run[p] EXCEPT !.pc = pc]
                                          ELSE run[p]]

HandleCame(d) ==
  /\ ~Due /\ Waiters(d, "asked") # {}
  /\ Resume(Waiters(d, "asked"), "go")
  /\ cache' = IF cache[d] = "asked" THEN [cache EXCEPT ![d] = "ready"] ELSE cache
  /\ UNCHANGED <<guestVars, chain, waiting, opfs, manifestVars, flush, unlucky>>

HandleFailed(d) ==
  /\ ~Due /\ Waiters(d, "doomed") # {}
  /\ Resume(Waiters(d, "doomed"), "thrown")
  /\ cache' = IF cache[d] = "doomed" THEN [cache EXCEPT ![d] = "failed"] ELSE cache
  /\ unlucky' = unlucky \cup {run[p].path : p \in Waiters(d, "doomed")}
  /\ UNCHANGED <<guestVars, chain, waiting, opfs, manifestVars, flush>>

\* createWritable locks the file; it may be gone since.
Opened(p) ==
  /\ ~Due /\ run[p].pc = "file"
  /\ LET x == run[p].path IN
       \/ /\ opfs[x].kind = "file"
          /\ run' = [run EXCEPT ![p].pc = "writable"]
          /\ UNCHANGED unlucky
       \/ /\ opfs[x].kind # "file" \/ "write" \in Fails
          /\ run' = [run EXCEPT ![p].pc = "thrown"]
          /\ unlucky' = unlucky \cup {x}
  /\ UNCHANGED <<guestVars, chain, waiting, cache, opfs, manifestVars, flush>>

\* (mutant) Closed before anything is written.
ClosedUnread(p) ==
  /\ ~Due /\ run[p].pc = "writable"
  /\ run' = [run EXCEPT ![p].pc = "next"]
  /\ UNCHANGED <<guestVars, chain, waiting, cache, opfs, manifestVars, flush, unlucky>>

\* close: the content appears, whole.
Closed(p) ==
  /\ ~Due /\ run[p].pc = "writable"
  /\ opfs' = [opfs EXCEPT ![run[p].path] = File(run[p].ver)]
  /\ run' = [run EXCEPT ![p].pc = "next"]
  /\ UNCHANGED <<guestVars, chain, waiting, cache, manifestVars, flush, unlucky>>

\* A request that failed; what was left of a walk is dropped.
Rejected(p) ==
  /\ ~Due /\ run[p].pc = "thrown"
  /\ run' = [run EXCEPT ![p] = At("next", run[p].path, 0, {})]
  /\ UNCHANGED <<guestVars, chain, waiting, cache, opfs, manifestVars, flush, unlucky>>

\* findDir's answer: without the directory there is nothing to remove.
Found(p) ==
  /\ ~Due /\ run[p].pc \in {"find", "retry"}
  /\ RemoveEntry(p)
  /\ UNCHANGED <<guestVars, chain, waiting, cache, manifestVars, flush>>

\* A lock that outlasts the retries.
GiveUp(p) ==
  /\ ~Due /\ run[p].pc = "retry" /\ Locked(p) /\ "locked" \in Fails
  /\ run' = [run EXCEPT ![p].pc = "thrown"]
  /\ unlucky' = unlucky \cup Under(p)
  /\ UNCHANGED <<guestVars, chain, waiting, cache, opfs, manifestVars, flush>>

\* (mutant) The manifest's operation is queued and not waited for.
RemovedNotAwaiting(p) ==
  /\ ~Due /\ run[p].pc = "removed"
  /\ cache' = IF IsDir(p) THEN [cache EXCEPT ![p[1]] = "none"] ELSE cache
  /\ run' = [run EXCEPT ![p].pc = "next"]
  /\ mqueue' = Append(mqueue, [op |-> "removeUnder", path |-> p, by |-> p])
  /\ UNCHANGED <<guestVars, chain, waiting, opfs, manifest, mbusy, poisoned, flush, unlucky>>

\* removeEntry's answer: invalidate, and the links under p.
Removed(p) ==
  /\ ~Due /\ run[p].pc = "removed"
  /\ cache' = IF IsDir(p) THEN [cache EXCEPT ![p[1]] = "none"] ELSE cache
  /\ run' = [run EXCEPT ![p].pc = "manifest"]
  /\ mqueue' = Append(mqueue, [op |-> "removeUnder", path |-> p, by |-> p])
  /\ UNCHANGED <<guestVars, chain, waiting, opfs, manifest, mbusy, poisoned, flush, unlucky>>

-----------------------------------------------------------------------------
(* The manifest and the flush.                                              *)

\* An operation of the manifest's chain settles; a rejection stays for ever.
Settle(bad) ==
  LET by   == Head(mqueue).by
      task == run[by] IN
  /\ mqueue' = Tail(mqueue) /\ mbusy' = FALSE
  /\ poisoned' = bad
  /\ run' = [run EXCEPT ![by] =
                At("next", task.path, task.ver, IF bad THEN {} ELSE task.todo)]
  /\ flush' = IF bad /\ flush.mleft > 0 /\ flush.state = "waiting"
                THEN [flush EXCEPT !.state = "rejected"]
                ELSE Progress([flush EXCEPT !.mleft = IF @ > 0 THEN @ - 1 ELSE 0])

\* `finally` starts the next one whatever came before.  A link is read here,
\* and may be gone.
ManifestStart ==
  /\ mqueue # <<>> /\ ~mbusy
  /\ IF Head(mqueue).op = "record" /\ vfs[Head(mqueue).path].kind # "link"
       THEN Settle(TRUE)
       ELSE mbusy' = TRUE /\ UNCHANGED <<mqueue, poisoned, run, flush>>
  /\ UNCHANGED <<guestVars, chain, waiting, cache, opfs, manifest, unlucky>>

\* The manifest's operation writes the file, and not only reads it.
Saving ==
  /\ mbusy
  /\ LET m == Head(mqueue) IN
       IF m.op = "record" THEN m.path \notin manifest ELSE manifest \cap Under(m.path) # {}

\* The paths that the manifest's operation is about.
About(m) == IF m.op = "record" THEN {m.path} ELSE Under(m.path)

\* saveSymlinkManifest may fail: the file stays as it was.
ManifestDone ==
  /\ ~Due /\ mbusy
  /\ LET m == Head(mqueue) IN
       \/ /\ manifest' = IF m.op = "record" THEN manifest \cup {m.path}
                          ELSE manifest \ Under(m.path)
          /\ Settle(poisoned)
          /\ UNCHANGED unlucky
       \/ /\ Saving /\ "write" \in Fails
          /\ unlucky' = unlucky \cup About(m)
          /\ Settle(TRUE)
          /\ UNCHANGED manifest
  /\ UNCHANGED <<guestVars, chain, waiting, cache, opfs>>

\* (mutant) It waits for what is running, not for the tails.
AskFlushHeads ==
  /\ ~Due /\ flush.state = "none"
  /\ flush' = Progress([state |-> "waiting",
                        left  |-> [p \in Paths |-> IF p \in Running THEN 1 ELSE 0],
                        mleft |-> Len(mqueue)])
  /\ UNCHANGED <<guestVars, taskVars, cache, opfs, manifestVars, unlucky>>

\* flush: the tails of its time, the manifest's included.
AskFlush ==
  /\ ~Due /\ flush.state = "none"
  /\ flush' = IF poisoned THEN [flush EXCEPT !.state = "rejected"]
              ELSE Progress([state |-> "waiting",
                             left  |-> [p \in Paths |-> Len(chain[p])],
                             mleft |-> Len(mqueue)])
  /\ UNCHANGED <<guestVars, taskVars, cache, opfs, manifestVars, unlucky>>

-----------------------------------------------------------------------------
(* The page goes away, and its next boot restores what OPFS holds.          *)

\* A link is on record and its directory is there; where a file or directory
\* is already, the link is not made.
Restored(links) ==
  [p \in Paths |-> IF opfs[p] = None /\ p \in links /\ opfs[DirOf(p)] = Dir
                   THEN Link ELSE opfs[p]]

\* What a manifest may read as at the next boot: one that is being written may
\* be unreadable, which counts as empty.
Readable == {manifest} \cup (IF Saving THEN {{}} ELSE {})

\* A new worker with a new mirror: whatever was under way is forgotten.
NewMirror ==
  /\ reloads < MaxReloads /\ reloads' = reloads + 1
  /\ chain' = [p \in Paths |-> <<>>] /\ waiting' = <<>> /\ run' = [p \in Paths |-> Off]
  /\ cache' = [d \in Dirs |-> "none"] /\ mqueue' = <<>>
  /\ mbusy' = FALSE /\ poisoned' = FALSE
  /\ flush' = [state |-> "none", left |-> [p \in Paths |-> 0], mleft |-> 0]
  /\ gone' = {} /\ since' = {} /\ unlucky' = {}
  /\ UNCHANGED <<ops, workload, opfs>>

\* (mutant) Orphaned links stay on record.
ReloadKeepingOrphans ==
  /\ NewMirror
  /\ \E links \in Readable : vfs' = Restored(links) /\ manifest' = links

\* restoreFromOpfs, reported to nobody; links without their directory are struck
\* off the manifest.
Reload ==
  /\ NewMirror
  /\ \E links \in Readable :
       /\ vfs' = Restored(links)
       /\ manifest' = {p \in links : opfs[DirOf(p)] = Dir}

-----------------------------------------------------------------------------
Micro(p)  == Acquire(p) \/ Begin(p) \/ Go(p) \/ Proceed(p)
Answer(p) == \/ Opened(p) \/ Closed(p) \/ Rejected(p) \/ Found(p) \/ GiveUp(p) \/ Removed(p)
Mirror == \/ \E p \in Paths : Micro(p) \/ Answer(p)
          \/ \E d \in Dirs : HandleCame(d) \/ HandleFailed(d)
          \/ ManifestStart \/ ManifestDone

Next == Guest \/ AskFlush \/ Mirror \/ Reload
Spec == Init /\ [][Next]_vars

\* The browser answers what it is asked and microtasks run; what guests do and
\* whether a flush is asked for is up to them.
FairSpec == Spec /\ WF_vars(Mirror)

-----------------------------------------------------------------------------
(* Properties.                                                              *)

PCs == {"off", "begin", "next", "asked", "doomed", "go", "file", "writable",
        "thrown", "find", "retry", "removed", "manifest"}

\* Types, and what awaits what: an operation of the manifest's chain belongs to
\* the one task that waits for it, no more than WRITE_CONCURRENCY tasks hold a
\* slot, and none goes unused while a path waits (acquireWriteSlot, release).
TypeOK ==
  /\ vfs \in [Paths -> {None, Dir, Link} \cup {File(v) : v \in 0..MaxOps}]
  /\ ops \in 0..MaxOps /\ workload \in Workloads /\ reloads \in 0..MaxReloads
  /\ gone \subseteq Paths /\ since \subseteq Paths /\ unlucky \subseteq Paths
  /\ chain \in [Paths -> Seq(BOOLEAN)]
  /\ waiting \in Seq(Paths)
  /\ Cardinality(Running) <= Concurrency
  /\ waiting # <<>> => Cardinality(Running) = Concurrency
  /\ \A p \in Paths :
       /\ run[p].pc \in PCs
       /\ p \in Running => run[p].path \in Paths /\ chain[p] # <<>>
       /\ run[p].pc = "manifest" <=> \E i \in DOMAIN mqueue : mqueue[i].by = p
  /\ cache \in [Dirs -> {"none", "asked", "doomed", "ready", "failed"}]
  /\ opfs \in [Paths -> {None, Dir} \cup {File(v) : v \in 0..MaxOps}]
  /\ manifest \subseteq Paths /\ mbusy \in BOOLEAN /\ poisoned \in BOOLEAN
  /\ mbusy => mqueue # <<>>
  /\ flush.state \in {"none", "waiting", "done", "rejected"}

\* What the browser holds for p is what the guests see.
Mirrored(p) ==
  /\ opfs[p] = IF vfs[p].kind \in {"file", "dir"} THEN vfs[p] ELSE None
  /\ p \in manifest <=> vfs[p].kind = "link"

\* Whatever differs between the tree and its mirror is still to be dealt with,
\* by a task of the path or of its directory, or OPFS refused it.
NothingForgotten ==
  \A p \in Paths : \/ Mirrored(p) \/ p \in unlucky
                   \/ chain[p] # <<>> \/ chain[DirOf(p)] # <<>>

\* Once a flush has come back, what had been done before it was asked for
\* survives a reload at any moment (persistenceFlusher.ts:15-17); a link does
\* unless the manifest is being written just then (opfsPersistence.ts:146-155).
FlushMeansDurable ==
  flush.state = "done" =>
    \A p \in Paths \ (since \cup unlucky) : \A links \in Readable :
        Restored(links)[p] = vfs[p] \/ (Saving /\ vfs[p] = Link)

\* Every flush comes back (persistenceFlusher.ts:4-6).
FlushIsAnswered == flush.state = "waiting" ~> flush.state = "done"
=============================================================================
