-------------------------- MODULE OpfsMirrorProofs --------------------------
(***************************************************************************)
(* Proofs about the OPFS mirror, for any directories, names, workloads,    *)
(* failures and numbers of operations, reloads and slots.                  *)
(***************************************************************************)
EXTENDS OpfsMirror, FiniteSetTheorems, TLAPS

-----------------------------------------------------------------------------
(* Types, slots, and who awaits the manifest.                               *)

Contents == {None, Dir, Link} \cup {File(v) : v \in 0..MaxOps}
Stored   == {None, Dir} \cup {File(v) : v \in 0..MaxOps}
Listed == [path : Paths, link : BOOLEAN]
Tasks   == [pc : PCs, path : Paths \cup {<<>>}, ver : 0..MaxOps, todo : SUBSET Listed]
Entries == [op : {"record", "removeUnder"}, path : Paths, by : Paths]
Flushes == [state : {"none", "waiting", "done", "rejected"}, left : [Paths -> Nat], mleft : Nat]

GuestTypes ==
  /\ vfs \in [Paths -> Contents] /\ ops \in 0..MaxOps
  /\ workload \in Workloads /\ reloads \in 0..MaxReloads
  /\ gone \subseteq Paths /\ since \subseteq Paths /\ unlucky \subseteq Paths

MirrorTypes ==
  /\ chain \in [Paths -> Seq(BOOLEAN)] /\ waiting \in Seq(Paths)
  /\ run \in [Paths -> Tasks]
  /\ cache \in [Dirs -> {"none", "asked", "doomed", "ready", "failed"}]
  /\ opfs \in [Paths -> Stored]
  /\ manifest \subseteq Paths /\ mqueue \in Seq(Entries)
  /\ mbusy \in BOOLEAN /\ poisoned \in BOOLEAN
  /\ flush \in Flushes

\* What has a slot has a notification to deal with; what waits for one has too,
\* and waits once.  (Running may be drawn from infinitely many paths.)
Slots ==
  /\ IsFiniteSet(Running) /\ Cardinality(Running) <= Concurrency
  /\ waiting # <<>> => Cardinality(Running) = Concurrency
  /\ \A p \in Running : run[p].path \in Paths /\ chain[p] # <<>>
  /\ \A i \in 1..Len(waiting) : waiting[i] \notin Running /\ chain[waiting[i]] # <<>>
  /\ \A i, j \in 1..Len(waiting) : waiting[i] = waiting[j] => i = j

\* Each operation of the manifest's chain is awaited by its one task.
Awaits ==
  /\ \A p \in Paths : run[p].pc = "manifest" <=> \E i \in 1..Len(mqueue) : mqueue[i].by = p
  /\ \A i, j \in 1..Len(mqueue) : mqueue[i].by = mqueue[j].by => i = j
  /\ mbusy => mqueue # <<>>

Typed == GuestTypes /\ MirrorTypes /\ Slots /\ Awaits

\* The types that the runs check follow.
LEMMA TypedIsTypeOK == Typed => TypeOK
<1> SUFFICES ASSUME Typed PROVE TypeOK
  OBVIOUS
<1> USE DEF Typed
<1>1. /\ vfs \in [Paths -> {None, Dir, Link} \cup {File(v) : v \in 0..MaxOps}]
      /\ ops \in 0..MaxOps /\ workload \in Workloads /\ reloads \in 0..MaxReloads
      /\ gone \subseteq Paths /\ since \subseteq Paths /\ unlucky \subseteq Paths
  BY DEF GuestTypes, Contents
<1>2. /\ chain \in [Paths -> Seq(BOOLEAN)] /\ waiting \in Seq(Paths)
      /\ cache \in [Dirs -> {"none", "asked", "doomed", "ready", "failed"}]
      /\ opfs \in [Paths -> {None, Dir} \cup {File(v) : v \in 0..MaxOps}]
      /\ manifest \subseteq Paths /\ mbusy \in BOOLEAN /\ poisoned \in BOOLEAN
  BY DEF MirrorTypes, Stored
<1>3. flush.state \in {"none", "waiting", "done", "rejected"}
  BY DEF MirrorTypes, Flushes
<1>4. /\ Cardinality(Running) <= Concurrency
      /\ waiting # <<>> => Cardinality(Running) = Concurrency
      /\ mbusy => mqueue # <<>>
  BY DEF Slots, Awaits
<1>5. \A p \in Paths : run[p].pc \in PCs
  BY DEF MirrorTypes, Tasks
<1>6. \A p \in Paths : p \in Running => run[p].path \in Paths /\ chain[p] # <<>>
  BY DEF Slots
<1>7. DOMAIN mqueue = 1..Len(mqueue)
  BY DEF MirrorTypes
<1>8. \A p \in Paths : run[p].pc = "manifest" <=> \E i \in DOMAIN mqueue : mqueue[i].by = p
  BY <1>7 DEF Awaits
<1> QED
  BY <1>1, <1>2, <1>3, <1>4, <1>5, <1>6, <1>8 DEF TypeOK

\* The fields of what is in a directory, of a task, of the manifest's queue.
LEMMA ContentFields ==
  ASSUME NEW c \in Contents
  PROVE  /\ c.kind \in {"none", "dir", "link", "file"} /\ c.ver \in 0..MaxOps
         /\ c.kind = "file" => c = File(c.ver)
         /\ c.kind = "dir" => c = Dir
         /\ c.kind = "none" => c = None
         /\ c.kind = "link" => c = Link
BY MirrorAssumption DEF Contents, None, Dir, Link, File

\* A path and its directory.
LEMMA PathFields ==
  ASSUME NEW p \in Paths
  PROVE  /\ p[1] \in Dirs /\ DirOf(p) \in Paths /\ DirOf(DirOf(p)) = DirOf(p)
         /\ DirOf(p)[1] = p[1] /\ IsDir(DirOf(p)) /\ p = <<p[1], p[2]>>
         /\ IsDir(p) <=> DirOf(p) = p
BY DEF Paths, DirOf, IsDir

\* Nothing is where it starts.
LEMMA InitTyped == Init => Typed
<1> SUFFICES ASSUME Init PROVE Typed
  OBVIOUS
<1> USE MirrorAssumption DEF Init
<1>1. GuestTypes
  BY DEF GuestTypes, Contents
<1>2. Off \in Tasks
  BY DEF Off, At, Tasks, PCs
<1>3. MirrorTypes
  <2>1. /\ chain \in [Paths -> Seq(BOOLEAN)] /\ waiting \in Seq(Paths)
        /\ run \in [Paths -> Tasks]
    BY <1>2
  <2>2. /\ cache \in [Dirs -> {"none", "asked", "doomed", "ready", "failed"}]
        /\ manifest \subseteq Paths /\ mqueue \in Seq(Entries)
    OBVIOUS
  <2>3. opfs \in [Paths -> Stored]
    BY DEF Stored
  <2>4. mbusy \in BOOLEAN /\ poisoned \in BOOLEAN
    OBVIOUS
  <2>5. flush \in Flushes
    BY DEF Flushes
  <2> QED
    BY <2>1, <2>2, <2>3, <2>4, <2>5 DEF MirrorTypes
<1>4. Running = {}
  BY DEF Running, Off, At
<1>5. Slots
  BY <1>4, FS_EmptySet DEF Slots
<1>6. Awaits
  BY DEF Awaits, Off, At
<1> QED
  BY <1>1, <1>3, <1>5, <1>6 DEF Typed

-----------------------------------------------------------------------------
(* Guests.                                                                  *)

\* A guest's operation leaves a tree and makes chains longer.
LEMMA OperationTyped ==
  ASSUME Typed, NEW kind, NEW tree \in [Paths -> Contents], NEW notified,
         NEW walk \in BOOLEAN, Operation(kind, tree, notified, walk)
  PROVE  Typed'
<1> USE DEF Typed
<1>1. /\ vfs' = tree /\ ops' = ops + 1 /\ ops < MaxOps
      /\ gone' = gone \cup {p \in Paths : tree[p] = None /\ Present(p)}
      /\ since' = IF flush.state = "none" THEN {}
                   ELSE since \cup {p \in Paths : tree[p] # vfs[p]}
      /\ chain' = [p \in Paths |->
                     IF p \in notified THEN Append(chain[p], walk) ELSE chain[p]]
      /\ UNCHANGED <<workload, reloads, waiting, run, cache, opfs, manifestVars, flush, unlucky>>
  BY DEF Operation
<1>2. GuestTypes'
  BY <1>1, MirrorAssumption DEF GuestTypes
<1>3. MirrorTypes'
  <2>1. \A p \in Paths : chain[p] \in Seq(BOOLEAN)
    BY DEF MirrorTypes
  <2>3. \A p \in Paths : Append(chain[p], walk) \in Seq(BOOLEAN)
    BY <2>1
  <2>2. chain' \in [Paths -> Seq(BOOLEAN)]
    BY <1>1, <2>1, <2>3
  <2> QED
    BY <1>1, <2>2 DEF MirrorTypes, manifestVars
<1>4. Running' = Running
  BY <1>1 DEF Running
<1>5. \A p \in Paths : chain[p] # <<>> => chain'[p] # <<>>
  <2> SUFFICES ASSUME NEW p \in Paths, chain[p] # <<>> PROVE chain'[p] # <<>>
    OBVIOUS
  <2>1. chain[p] \in Seq(BOOLEAN)
    BY DEF MirrorTypes
  <2>2. Append(chain[p], walk) # <<>>
    BY <2>1
  <2> QED
    BY <1>1, <2>2
<1>6. \A i \in 1..Len(waiting) : waiting[i] \in Paths
  BY DEF MirrorTypes
<1>7. Slots'
  BY <1>1, <1>4, <1>5, <1>6 DEF Slots, Running
<1>8. Awaits'
  BY <1>1 DEF Awaits, manifestVars
<1> QED
  BY <1>2, <1>3, <1>7, <1>8

\* Every operation of the guests is one.
LEMMA GuestTyped == Typed /\ Guest => Typed'
<1> SUFFICES ASSUME Typed, Guest PROVE Typed'
  OBVIOUS
<1>0. /\ vfs \in [Paths -> Contents] /\ ops \in 0..MaxOps
      /\ None \in Contents /\ Dir \in Contents /\ Link \in Contents
  BY DEF Typed, GuestTypes, Contents
<1>1. PICK p \in Paths : \/ Mkdir(p) \/ Write(p) \/ Symlink(p) \/ Unlink(p) \/ Rm(p)
                         \/ \E q \in Paths : Rename(p, q) \/ Move(p, q)
  BY DEF Guest
<1>2. CASE Mkdir(p)
  <2>1. PICK tree : tree = [vfs EXCEPT ![p] = Dir]
    OBVIOUS
  <2>2. tree \in [Paths -> Contents]
    BY <1>0, <2>1
  <2>3. Operation("mkdir", tree, {p}, FALSE)
    BY <1>2, <2>1 DEF Mkdir
  <2> QED
    BY <2>2, <2>3, OperationTyped
<1>3. CASE Write(p)
  <2>1. PICK tree : tree = [vfs EXCEPT ![p] = File(ops + 1)]
    OBVIOUS
  <2>2. Operation("write", tree, {p}, FALSE)
    BY <1>3, <2>1 DEF Write
  <2>3. ops + 1 \in 0..MaxOps
    BY <1>0, <2>2, MirrorAssumption DEF Operation
  <2>4. File(ops + 1) \in Contents
    BY <2>3 DEF Contents
  <2>5. tree \in [Paths -> Contents]
    BY <1>0, <2>1, <2>4
  <2> QED
    BY <2>2, <2>5, OperationTyped
<1>4. CASE Symlink(p)
  <2>1. PICK tree : tree = [vfs EXCEPT ![p] = Link]
    OBVIOUS
  <2>2. tree \in [Paths -> Contents]
    BY <1>0, <2>1
  <2>3. Operation("symlink", tree, {p}, FALSE)
    BY <1>4, <2>1 DEF Symlink
  <2> QED
    BY <2>2, <2>3, OperationTyped
<1>5. CASE Unlink(p)
  <2>1. PICK tree : tree = [vfs EXCEPT ![p] = None]
    OBVIOUS
  <2>2. tree \in [Paths -> Contents]
    BY <1>0, <2>1
  <2>3. Operation("unlink", tree, {p}, FALSE)
    BY <1>5, <2>1 DEF Unlink
  <2> QED
    BY <2>2, <2>3, OperationTyped
<1>6. CASE Rm(p)
  <2>1. PICK tree : tree = [q \in Paths |-> IF q \in Under(p) THEN None ELSE vfs[q]]
    OBVIOUS
  <2>2. tree \in [Paths -> Contents]
    BY <1>0, <2>1
  <2>3. Operation("rm", tree, {p}, FALSE)
    BY <1>6, <2>1 DEF Rm
  <2> QED
    BY <2>2, <2>3, OperationTyped
<1>7. ASSUME NEW q \in Paths, Rename(p, q) PROVE Typed'
  <2>1. PICK tree : tree = [r \in Paths |-> IF r[1] = p[1] THEN None
                                            ELSE IF r[1] = q[1] THEN vfs[<<p[1], r[2]>>]
                                            ELSE vfs[r]]
    OBVIOUS
  <2>2. \A r \in Paths : <<p[1], r[2]>> \in Paths
    BY DEF Paths
  <2>3. tree \in [Paths -> Contents]
    BY <1>0, <2>1, <2>2
  <2>4. Operation("rename", tree, {p, q}, TRUE)
    BY <1>7, <2>1 DEF Rename
  <2> QED
    BY <2>3, <2>4, OperationTyped
<1>8. ASSUME NEW q \in Paths, Move(p, q) PROVE Typed'
  <2>1. PICK tree : tree = [vfs EXCEPT ![p] = None, ![q] = vfs[p]]
    OBVIOUS
  <2>2. tree \in [Paths -> Contents]
    BY <1>0, <2>1
  <2>3. Operation("move", tree, {p, q}, TRUE)
    BY <1>8, <2>1 DEF Move
  <2> QED
    BY <2>2, <2>3, OperationTyped
<1> QED
  BY <1>1, <1>2, <1>3, <1>4, <1>5, <1>6, <1>7, <1>8

-----------------------------------------------------------------------------
(* Tasks: the slots and the manifest's queue.                               *)

\* Who holds a slot is who has a task under way.
LEMMA StillRunning ==
  ASSUME NEW p \in Paths, run \in [Paths -> Tasks], NEW t, p \in Running,
         t.pc # "off", run' = [run EXCEPT ![p] = t]
  PROVE  Running' = Running
<1>1. \A q \in Paths : run'[q] = IF q = p THEN t ELSE run[q]
  OBVIOUS
<1>2. run[p].pc # "off"
  BY DEF Running
<1> QED
  BY <1>1, <1>2 DEF Running

\* A step of a task that stays under way.
LEMMA SlotsKept ==
  ASSUME Slots, Running' = Running, UNCHANGED <<chain, waiting>>,
         \A p \in Running : run'[p].path \in Paths
  PROVE  Slots'
BY DEF Slots

\* The manifest's queue and who waits for it are not touched.
LEMMA AwaitsKept ==
  ASSUME Awaits, UNCHANGED <<mqueue, mbusy>>,
         \A p \in Paths : run'[p].pc = "manifest" <=> run[p].pc = "manifest"
  PROVE  Awaits'
BY DEF Awaits

\* A task that queues an operation of the manifest waits for it.
LEMMA AwaitsPost ==
  ASSUME Awaits, mqueue \in Seq(Entries), NEW p \in Paths, NEW m \in Entries, m.by = p,
         run[p].pc # "manifest", run'[p].pc = "manifest",
         \A q \in Paths : q # p => run'[q] = run[q],
         mqueue' = Append(mqueue, m), UNCHANGED mbusy
  PROVE  Awaits'
<1>1. /\ Len(mqueue') = Len(mqueue) + 1 /\ Len(mqueue) \in Nat
      /\ \A i \in 1..Len(mqueue) : mqueue'[i] = mqueue[i]
      /\ mqueue'[Len(mqueue) + 1] = m
      /\ mqueue' # <<>>
  OBVIOUS
<1>2. ~ \E i \in 1..Len(mqueue) : mqueue[i].by = p
  BY DEF Awaits
<1>3. ASSUME NEW q \in Paths
      PROVE  run'[q].pc = "manifest" <=> \E i \in 1..Len(mqueue') : mqueue'[i].by = q
  <2>1. CASE q = p
    BY <1>1, <2>1
  <2>2. CASE q # p
    <3>1. (\E i \in 1..Len(mqueue') : mqueue'[i].by = q) <=> \E i \in 1..Len(mqueue) : mqueue[i].by = q
      BY <1>1, <2>2
    <3> QED
      BY <2>2, <3>1 DEF Awaits
  <2> QED
    BY <2>1, <2>2
<1>4. ASSUME NEW i \in 1..Len(mqueue'), NEW j \in 1..Len(mqueue'), mqueue'[i].by = mqueue'[j].by
      PROVE  i = j
  BY <1>1, <1>2, <1>4 DEF Awaits
<1> QED
  BY <1>1, <1>3, <1>4 DEF Awaits

\* The first operation of the manifest's chain settles.
LEMMA AwaitsSettle ==
  ASSUME Awaits, mqueue \in Seq(Entries), mqueue # <<>>,
         mqueue' = Tail(mqueue), mbusy' = FALSE,
         run'[Head(mqueue).by].pc # "manifest",
         \A q \in Paths : q # Head(mqueue).by => run'[q] = run[q]
  PROVE  Awaits'
<1>1. /\ Len(mqueue') = Len(mqueue) - 1 /\ Len(mqueue) \in Nat \ {0}
      /\ \A i \in 1..Len(mqueue) - 1 : mqueue'[i] = mqueue[i + 1]
      /\ Head(mqueue) = mqueue[1]
  OBVIOUS
<1>2. \A i \in 1..Len(mqueue) : mqueue[i].by = mqueue[1].by => i = 1
  BY <1>1 DEF Awaits
<1>3. ASSUME NEW q \in Paths
      PROVE  run'[q].pc = "manifest" <=> \E i \in 1..Len(mqueue') : mqueue'[i].by = q
  <2>1. CASE q = mqueue[1].by
    <3>1. ~ \E i \in 1..Len(mqueue') : mqueue'[i].by = q
      BY <1>1, <1>2, <2>1
    <3> QED
      BY <1>1, <2>1, <3>1
  <2>2. CASE q # mqueue[1].by
    <3>1. ASSUME NEW i \in 1..Len(mqueue), mqueue[i].by = q
          PROVE  \E j \in 1..Len(mqueue') : mqueue'[j].by = q
      <4>1. i # 1 /\ i - 1 \in 1..Len(mqueue')
        BY <1>1, <2>2, <3>1
      <4>2. mqueue'[i - 1] = mqueue[i]
        BY <1>1, <4>1
      <4> QED
        BY <3>1, <4>1, <4>2
    <3>2. ASSUME NEW i \in 1..Len(mqueue'), mqueue'[i].by = q
          PROVE  \E j \in 1..Len(mqueue) : mqueue[j].by = q
      BY <1>1, <3>2
    <3>3. run'[q] = run[q]
      BY <1>1, <2>2
    <3> QED
      BY <3>1, <3>2, <3>3 DEF Awaits
  <2> QED
    BY <2>1, <2>2
<1>4. ASSUME NEW i \in 1..Len(mqueue'), NEW j \in 1..Len(mqueue'), mqueue'[i].by = mqueue'[j].by
      PROVE  i = j
  <2>1. mqueue[i + 1].by = mqueue[j + 1].by /\ i + 1 \in 1..Len(mqueue) /\ j + 1 \in 1..Len(mqueue)
    BY <1>1, <1>4
  <2>2. i + 1 = j + 1
    BY <2>1 DEF Awaits
  <2> QED
    BY <1>1, <2>2
<1> QED
  BY <1>3, <1>4 DEF Awaits

\* One task moves on and keeps its slot.
LEMMA TaskStep ==
  ASSUME Typed, NEW p \in Running, NEW t \in Tasks, t.path \in Paths, t.pc # "off",
         run' = [run EXCEPT ![p] = t], UNCHANGED <<chain, waiting>>
  PROVE  /\ Slots' /\ run' \in [Paths -> Tasks] /\ p \in Paths
         /\ run'[p] = t /\ \A q \in Paths : q # p => run'[q] = run[q]
<1>1. run \in [Paths -> Tasks] /\ p \in Paths /\ run[p].pc # "off"
  BY DEF Typed, MirrorTypes, Running
<1>2. /\ run' \in [Paths -> Tasks] /\ run'[p] = t
      /\ \A q \in Paths : q # p => run'[q] = run[q]
  BY <1>1
<1>3. Running' = Running
  BY <1>1, StillRunning
<1>4. \A q \in Running : run'[q].path \in Paths
  BY <1>1, <1>2 DEF Typed, Slots, Running
<1>5. Slots'
  BY <1>3, <1>4, SlotsKept DEF Typed
<1> QED
  BY <1>1, <1>2, <1>5

\* One task moves on, to where it awaits something else than the manifest.
LEMMA TaskMoves ==
  ASSUME Typed, NEW p \in Running, NEW t \in Tasks, t.path \in Paths,
         t.pc \notin {"off", "manifest"}, run[p].pc # "manifest",
         run' = [run EXCEPT ![p] = t],
         cache' \in [Dirs -> {"none", "asked", "doomed", "ready", "failed"}],
         opfs' \in [Paths -> Stored], unlucky' \subseteq Paths,
         UNCHANGED <<guestVars, chain, waiting, manifestVars, flush>>
  PROVE  Typed'
<1>1. /\ Slots' /\ run' \in [Paths -> Tasks] /\ p \in Paths
      /\ run'[p] = t /\ \A q \in Paths : q # p => run'[q] = run[q]
  BY TaskStep
<1>2. \A q \in Paths : run'[q].pc = "manifest" <=> run[q].pc = "manifest"
  BY <1>1
<1>3. Awaits'
  BY <1>2, AwaitsKept DEF Typed, manifestVars
<1>4. GuestTypes'
  BY DEF Typed, GuestTypes, guestVars
<1>5. MirrorTypes'
  BY <1>1 DEF Typed, MirrorTypes, manifestVars
<1> QED
  BY <1>1, <1>3, <1>4, <1>5 DEF Typed

\* One task queues an operation of the manifest.
LEMMA TaskPosts ==
  ASSUME Typed, NEW p \in Running, NEW t \in Tasks, t.path \in Paths,
         t.pc = "manifest", run[p].pc # "manifest",
         NEW m \in Entries, m.by = p, mqueue' = Append(mqueue, m),
         run' = [run EXCEPT ![p] = t],
         cache' \in [Dirs -> {"none", "asked", "doomed", "ready", "failed"}],
         UNCHANGED <<guestVars, chain, waiting, manifest, mbusy, poisoned, flush, opfs, unlucky>>
  PROVE  Typed'
<1>0. t.pc # "off"
  OBVIOUS
<1>1. /\ Slots' /\ run' \in [Paths -> Tasks] /\ p \in Paths
      /\ run'[p] = t /\ \A q \in Paths : q # p => run'[q] = run[q]
  BY <1>0, TaskStep
<1>2. mqueue \in Seq(Entries)
  BY DEF Typed, MirrorTypes
<1>3. Awaits'
  BY <1>1, <1>2, AwaitsPost DEF Typed
<1>4. mqueue' \in Seq(Entries)
  BY <1>2
<1>5. GuestTypes'
  BY DEF Typed, GuestTypes, guestVars
<1>6. MirrorTypes'
  BY <1>1, <1>4 DEF Typed, MirrorTypes
<1> QED
  BY <1>1, <1>3, <1>5, <1>6 DEF Typed

\* A task as At makes it.
LEMMA AtIsTask ==
  ASSUME NEW pc \in PCs, NEW x \in Paths, NEW v \in 0..MaxOps, NEW todo \in SUBSET Listed
  PROVE  /\ At(pc, x, v, todo) \in Tasks
         /\ At(pc, x, v, todo).pc = pc /\ At(pc, x, v, todo).path = x
         /\ At(pc, x, v, todo).ver = v /\ At(pc, x, v, todo).todo = todo
BY DEF At, Tasks

\* A task that is under way is where a task can be.
LEMMA RunningTask ==
  ASSUME Typed, NEW p \in Running
  PROVE  /\ p \in Paths /\ run[p] \in Tasks /\ run[p].path \in Paths
         /\ run[p].pc \in PCs \ {"off"} /\ run[p].ver \in 0..MaxOps
         /\ run[p].todo \in SUBSET Listed /\ chain[p] # <<>>
<1>1. p \in Paths /\ run[p].pc # "off" /\ run[p] \in Tasks
  BY DEF Running, Typed, MirrorTypes
<1>2. run[p].path \in Paths /\ chain[p] # <<>>
  BY DEF Typed, Slots
<1> QED
  BY <1>1, <1>2 DEF Tasks

\* A task whose place alone changes.
LEMMA PcIsTask ==
  ASSUME NEW t \in Tasks, NEW pc \in PCs
  PROVE  /\ [t EXCEPT !.pc = pc] \in Tasks
         /\ [t EXCEPT !.pc = pc].pc = pc /\ [t EXCEPT !.pc = pc].path = t.path
         /\ [t EXCEPT !.pc = pc].ver = t.ver /\ [t EXCEPT !.pc = pc].todo = t.todo
BY DEF Tasks

\* recordSymlink is queued.
LEMMA RecordTyped ==
  ASSUME Typed, NEW p \in Running, run[p].pc # "manifest",
         NEW x \in Paths, NEW todo \in SUBSET Listed, Record(p, x, todo),
         UNCHANGED <<guestVars, chain, waiting, manifest, mbusy, poisoned, flush, unlucky>>
  PROVE  Typed'
<1>1. PICK t : t = At("manifest", x, 0, todo)
  OBVIOUS
<1>2. t \in Tasks /\ t.pc = "manifest" /\ t.path = x
  BY <1>1, AtIsTask, MirrorAssumption DEF PCs
<1>3. p \in Paths
  BY DEF Running
<1>4. PICK m : m = [op |-> "record", path |-> x, by |-> p]
  OBVIOUS
<1>5. m \in Entries /\ m.by = p
  BY <1>3, <1>4 DEF Entries
<1>6. cache' \in [Dirs -> {"none", "asked", "doomed", "ready", "failed"}]
  BY DEF Record, Typed, MirrorTypes
<1> QED
  BY <1>1, <1>2, <1>4, <1>5, <1>6, TaskPosts DEF Record

\* The directory is asked for, or was before.
LEMMA EnsureTyped ==
  ASSUME Typed, NEW p \in Running, run[p].pc # "manifest",
         NEW x \in Paths, NEW todo \in SUBSET Listed, Ensure(p, x, todo),
         UNCHANGED <<guestVars, chain, waiting, manifest, mbusy, poisoned, flush, unlucky>>
  PROVE  Typed'
<1>1. PICK pc \in {"go", "asked", "doomed", "thrown"} :
        run' = [run EXCEPT ![p] = At(pc, x, vfs[x].ver, todo)]
  BY DEF Ensure
<1>2. x[1] \in Dirs /\ DirOf(x) \in Paths
  BY PathFields
<1>3. /\ cache' \in [Dirs -> {"none", "asked", "doomed", "ready", "failed"}]
      /\ opfs' \in [Paths -> Stored]
  <2>1. /\ cache \in [Dirs -> {"none", "asked", "doomed", "ready", "failed"}]
        /\ opfs \in [Paths -> Stored] /\ Dir \in Stored
    BY DEF Typed, MirrorTypes, Stored
  <2>2. /\ cache' \in {cache, [cache EXCEPT ![x[1]] = "asked"], [cache EXCEPT ![x[1]] = "doomed"]}
        /\ opfs' \in {opfs, [opfs EXCEPT ![DirOf(x)] = Dir]}
    BY DEF Ensure
  <2> QED
    BY <1>2, <2>1, <2>2
<1>4. vfs[x].ver \in 0..MaxOps
  BY ContentFields DEF Typed, GuestTypes
<1>5. PICK t : t = At(pc, x, vfs[x].ver, todo)
  OBVIOUS
<1>6. t \in Tasks /\ t.pc = pc /\ t.path = x
  BY <1>4, <1>5, AtIsTask DEF PCs
<1>7. UNCHANGED mqueue
  BY DEF Ensure
<1> QED
  BY <1>1, <1>3, <1>5, <1>6, <1>7, TaskMoves DEF Typed, GuestTypes, manifestVars

\* resyncSubtree, up to its first await.
LEMMA ResyncTyped ==
  ASSUME Typed, NEW p \in Running, run[p].pc # "manifest",
         NEW x \in Paths, NEW todo \in SUBSET Listed, Resync(p, x, todo),
         UNCHANGED <<guestVars, chain, waiting, manifest, mbusy, poisoned, flush, unlucky>>
  PROVE  Typed'
<1>1. CASE vfs[x].kind = "none"
  <2>1. /\ run' = [run EXCEPT ![p] = At("next", x, 0, {})]
        /\ UNCHANGED <<cache, opfs, mqueue>>
    BY <1>1 DEF Resync
  <2>2. PICK t : t = At("next", x, 0, {})
    OBVIOUS
  <2>3. t \in Tasks /\ t.pc = "next" /\ t.path = x
    BY <2>2, AtIsTask, MirrorAssumption DEF PCs
  <2> QED
    BY <2>1, <2>2, <2>3, TaskMoves DEF Typed, GuestTypes, MirrorTypes, manifestVars
<1>2. CASE vfs[x].kind = "link"
  BY <1>2, RecordTyped DEF Resync
<1>3. CASE vfs[x].kind # "none" /\ vfs[x].kind # "link"
  BY <1>3, EnsureTyped DEF Resync
<1> QED
  BY <1>1, <1>2, <1>3

\* removeEntry takes a tree, is refused or fails.
LEMMA RemoveEntryTyped ==
  ASSUME Typed, NEW p \in Running, run[p].pc # "manifest", RemoveEntry(p),
         UNCHANGED <<guestVars, chain, waiting, cache, manifestVars, flush>>
  PROVE  Typed'
<1>1. PICK t : /\ run' = [run EXCEPT ![p] = t]
               /\ \/ \E pc \in {"retry", "removed"} : t = At(pc, p, 0, {})
                  \/ t = [run[p] EXCEPT !.pc = "thrown"]
  BY DEF RemoveEntry
<1>2. p \in Paths
  BY DEF Running
<1>3. t \in Tasks /\ t.path \in Paths /\ t.pc \notin {"off", "manifest"}
  <2>1. CASE \E pc \in {"retry", "removed"} : t = At(pc, p, 0, {})
    <3>1. PICK pc \in {"retry", "removed"} : t = At(pc, p, 0, {})
      BY <2>1
    <3>2. t \in Tasks /\ t.pc = pc /\ t.path = p
      BY <1>2, <3>1, AtIsTask, MirrorAssumption DEF PCs
    <3> QED
      BY <1>2, <3>2
  <2>2. CASE t = [run[p] EXCEPT !.pc = "thrown"]
    <3>1. t \in Tasks /\ t.pc = "thrown" /\ t.path = run[p].path /\ t.path \in Paths
      BY <2>2, RunningTask, PcIsTask DEF PCs
    <3> QED
      BY <3>1
  <2> QED
    BY <1>1, <2>1, <2>2
<1>4. /\ opfs \in [Paths -> Stored] /\ None \in Stored /\ unlucky \subseteq Paths
      /\ Under(p) \subseteq Paths
  BY <1>2 DEF Typed, GuestTypes, MirrorTypes, Stored, Under, Children
<1>5. opfs' \in [Paths -> Stored] /\ unlucky' \subseteq Paths
  BY <1>4 DEF RemoveEntry
<1>6. cache' \in [Dirs -> {"none", "asked", "doomed", "ready", "failed"}]
  BY DEF Typed, MirrorTypes
<1> QED
  BY <1>1, <1>3, <1>5, <1>6, TaskMoves

-----------------------------------------------------------------------------
(* Tasks: each action.                                                      *)

\* A path that is idle gets a slot, or waits for one.
LEMMA AcquireTyped == ASSUME Typed, NEW p \in Paths, Acquire(p) PROVE Typed'
<1>1. /\ chain[p] # <<>> /\ p \notin Running /\ \A i \in 1..Len(waiting) : waiting[i] # p
      /\ run[p].pc = "off"
      /\ waiting \in Seq(Paths) /\ run \in [Paths -> Tasks]
  BY DEF Acquire, Idle, Typed, MirrorTypes, Running
<1>2. UNCHANGED <<guestVars, chain, cache, opfs, manifestVars, flush, unlucky>>
  BY DEF Acquire
<1>3. GuestTypes'
  BY <1>2 DEF Typed, GuestTypes, guestVars
<1>4. CASE Cardinality(Running) < Concurrency
  <2>1. PICK t : t = At("begin", p, 0, {})
    OBVIOUS
  <2>2. t \in Tasks /\ t.pc = "begin" /\ t.path = p
    BY <2>1, AtIsTask, MirrorAssumption DEF PCs
  <2>3. run' = [run EXCEPT ![p] = t] /\ UNCHANGED waiting
    BY <1>4, <2>1 DEF Acquire
  <2>4. run' \in [Paths -> Tasks] /\ run'[p] = t /\ \A q \in Paths : q # p => run'[q] = run[q]
    BY <1>1, <2>2, <2>3
  <2>5. Running' = Running \cup {p}
    BY <2>2, <2>4 DEF Running
  <2>6. /\ IsFiniteSet(Running') /\ Cardinality(Running') = Cardinality(Running) + 1
        /\ Cardinality(Running) \in Nat
    BY <1>1, <2>5, FS_AddElement, FS_CardinalityType DEF Typed, Slots
  <2>7. waiting = <<>>
    BY <1>4, <2>6 DEF Typed, Slots
  <2>8. Slots'
    <3>1. Cardinality(Running') <= Concurrency
      BY <1>4, <2>6, MirrorAssumption
    <3>2. \A q \in Running' : run'[q].path \in Paths /\ chain'[q] # <<>>
      BY <1>1, <1>2, <2>2, <2>4, <2>5 DEF Typed, Slots, Running
    <3>3. waiting' = <<>>
      BY <2>3, <2>7
    <3> QED
      BY <2>6, <3>1, <3>2, <3>3 DEF Slots
  <2>9. Awaits'
    BY <1>1, <1>2, <2>2, <2>4, AwaitsKept DEF Typed, manifestVars
  <2>10. MirrorTypes'
    BY <1>2, <2>3, <2>4 DEF Typed, MirrorTypes, manifestVars
  <2> QED
    BY <1>3, <2>8, <2>9, <2>10 DEF Typed
<1>5. CASE ~(Cardinality(Running) < Concurrency)
  <2>1. waiting' = Append(waiting, p) /\ UNCHANGED run
    BY <1>5 DEF Acquire
  <2>2. /\ waiting' \in Seq(Paths) /\ Len(waiting') = Len(waiting) + 1 /\ Len(waiting) \in Nat
        /\ \A i \in 1..Len(waiting) : waiting'[i] = waiting[i]
        /\ waiting'[Len(waiting) + 1] = p
    BY <1>1, <2>1
  <2>3. Running' = Running
    BY <2>1 DEF Running
  <2>4. Cardinality(Running) = Concurrency
    BY <1>5, MirrorAssumption, FS_CardinalityType DEF Typed, Slots
  <2>5. Slots'
    <3>1. \A i \in 1..Len(waiting') : waiting'[i] \notin Running' /\ chain'[waiting'[i]] # <<>>
      BY <1>1, <1>2, <2>2, <2>3 DEF Typed, Slots
    <3>2. \A i, j \in 1..Len(waiting') : waiting'[i] = waiting'[j] => i = j
      BY <1>1, <2>2 DEF Typed, Slots
    <3>3. \A q \in Running' : run'[q].path \in Paths /\ chain'[q] # <<>>
      BY <1>2, <2>1, <2>3 DEF Typed, Slots
    <3> QED
      BY <2>3, <2>4, <3>1, <3>2, <3>3 DEF Typed, Slots
  <2>6. Awaits'
    BY <1>2, <2>1, AwaitsKept DEF Typed, manifestVars
  <2>7. MirrorTypes'
    BY <1>2, <2>1, <2>2 DEF Typed, MirrorTypes, manifestVars
  <2> QED
    BY <1>3, <2>5, <2>6, <2>7 DEF Typed
<1> QED
  BY <1>4, <1>5

\* Whoever is somewhere has a slot.
LEMMA SomewhereRuns ==
  ASSUME NEW p \in Paths, run[p].pc # "off"
  PROVE  p \in Running
BY DEF Running

\* The task of a path begins.
LEMMA BeginTyped == ASSUME Typed, NEW p \in Paths, Begin(p) PROVE Typed'
<1>1. /\ p \in Running /\ run[p].pc = "begin"
      /\ UNCHANGED <<guestVars, chain, waiting, manifest, mbusy, poisoned, flush>>
  BY SomewhereRuns DEF Begin
<1>2. CASE Exists(p)
  <2>1. Resync(p, p, {}) /\ UNCHANGED unlucky
    BY <1>2 DEF Begin
  <2> QED
    BY <1>1, <2>1, ResyncTyped
<1>3. CASE ~Exists(p) /\ IsDir(p)
  BY <1>1, <1>3, RemoveEntryTyped DEF Begin, manifestVars
<1>4. CASE ~Exists(p) /\ ~IsDir(p)
  <2>1. PICK t : t = At("find", p, 0, {})
    OBVIOUS
  <2>2. t \in Tasks /\ t.pc = "find" /\ t.path = p
    BY <2>1, AtIsTask, MirrorAssumption DEF PCs
  <2>3. run' = [run EXCEPT ![p] = t] /\ UNCHANGED <<opfs, cache, mqueue, unlucky>>
    BY <1>4, <2>1 DEF Begin
  <2>4. /\ cache' \in [Dirs -> {"none", "asked", "doomed", "ready", "failed"}]
        /\ unlucky' \subseteq Paths /\ opfs' \in [Paths -> Stored]
    BY <1>1, <2>3 DEF Typed, GuestTypes, MirrorTypes
  <2> QED
    BY <1>1, <2>2, <2>3, <2>4, TaskMoves DEF manifestVars
<1> QED
  BY <1>2, <1>3, <1>4

\* A task whose place alone changes, among those that do not wait for the manifest.
LEMMA PcMoves ==
  ASSUME Typed, NEW p \in Paths, run[p].pc \notin {"off", "manifest"},
         NEW pc \in PCs \ {"off", "manifest"}, run' = [run EXCEPT ![p].pc = pc],
         cache' \in [Dirs -> {"none", "asked", "doomed", "ready", "failed"}],
         opfs' \in [Paths -> Stored], unlucky' \subseteq Paths,
         UNCHANGED <<guestVars, chain, waiting, manifestVars, flush>>
  PROVE  Typed'
<1>1. p \in Running
  BY SomewhereRuns
<1>2. PICK t : t = [run[p] EXCEPT !.pc = pc]
  OBVIOUS
<1>3. t \in Tasks /\ t.pc = pc /\ t.path = run[p].path
  BY <1>1, <1>2, RunningTask, PcIsTask
<1>4. run' = [run EXCEPT ![p] = t]
  BY <1>2
<1>5. t.path \in Paths
  BY <1>1, <1>3, RunningTask
<1> QED
  BY <1>1, <1>3, <1>4, <1>5, TaskMoves

\* A task goes on with the handle of its directory.
LEMMA GoTyped == ASSUME Typed, NEW p \in Paths, Go(p) PROVE Typed'
<1>1. /\ p \in Running /\ run[p].pc = "go"
      /\ UNCHANGED <<guestVars, chain, waiting, cache, manifestVars, flush>>
  BY SomewhereRuns DEF Go
<1>2. PICK x \in Paths : x = run[p].path
  BY <1>1, RunningTask
<1>3. /\ cache' \in [Dirs -> {"none", "asked", "doomed", "ready", "failed"}]
      /\ unlucky \subseteq Paths /\ opfs \in [Paths -> Stored] /\ run \in [Paths -> Tasks]
  BY <1>1 DEF Typed, GuestTypes, MirrorTypes
<1>4. CASE IsDir(x)
  <2>1. PICK listing \in SUBSET Listed : run' = [run EXCEPT ![p] = At("next", x, 0, listing)]
    <3>1. PICK listing :
            /\ listing = IF Head(chain[p]) /\ Present(x)
                         THEN {[path |-> q, link |-> vfs[q].kind = "link"] :
                                 q \in {q \in Children(x) : Present(q)}}
                         ELSE {}
            /\ run' = [run EXCEPT ![p] = At("next", x, 0, listing)]
      BY <1>2, <1>4 DEF Go
    <3>2. ASSUME NEW e \in listing PROVE e \in Listed
      <4>1. PICK q \in Children(x) : e = [path |-> q, link |-> vfs[q].kind = "link"]
        BY <3>1
      <4>2. q \in Paths
        BY DEF Children
      <4> QED
        BY <4>1, <4>2 DEF Listed
    <3> QED
      BY <3>1, <3>2
  <2>2. PICK t : t = At("next", x, 0, listing)
    OBVIOUS
  <2>3. t \in Tasks /\ t.pc = "next" /\ t.path = x
    BY <2>1, <2>2, AtIsTask, MirrorAssumption DEF PCs
  <2>4. UNCHANGED <<opfs, unlucky>>
    BY <1>2, <1>4 DEF Go
  <2> QED
    BY <1>1, <1>3, <2>1, <2>2, <2>3, <2>4, TaskMoves
<1>5. CASE ~IsDir(x)
  <2>1. PICK pc \in {"file", "thrown"} : run' = [run EXCEPT ![p].pc = pc]
    BY <1>2, <1>5 DEF Go
  <2>2. unlucky' \subseteq Paths
    BY <1>2, <1>3, <1>5 DEF Go
  <2>3. opfs' \in [Paths -> Stored]
    <3>1. File(0) \in Stored
      BY MirrorAssumption DEF Stored
    <3>2. opfs' = opfs \/ opfs' = [opfs EXCEPT ![x] = File(0)]
      BY <1>2, <1>5 DEF Go
    <3> QED
      BY <1>3, <3>1, <3>2
  <2>4. pc \in PCs \ {"off", "manifest"}
    BY DEF PCs
  <2> QED
    BY <1>1, <1>3, <2>1, <2>2, <2>3, <2>4, PcMoves
<1> QED
  BY <1>4, <1>5

\* The flush that waits moves on; it stays a flush.
LEMMA FlushMoves ==
  ASSUME NEW f \in Flushes
  PROVE  Progress(f) \in Flushes
BY DEF Progress, Flushes

\* The slot of a task that is over goes to whoever waits first.
LEMMA EndTyped ==
  ASSUME Typed, NEW p \in Paths, run[p].pc = "next", End(p),
         UNCHANGED <<guestVars, cache, opfs, manifestVars, unlucky>>
  PROVE  Typed'
<1>1. /\ p \in Running /\ run \in [Paths -> Tasks] /\ waiting \in Seq(Paths)
      /\ chain \in [Paths -> Seq(BOOLEAN)] /\ chain[p] # <<>> /\ flush \in Flushes
  BY SomewhereRuns, RunningTask DEF Typed, MirrorTypes
<1>2. Off \in Tasks /\ Off.pc = "off"
  BY MirrorAssumption DEF Off, At, Tasks, PCs
<1>3. chain' = [chain EXCEPT ![p] = Tail(chain[p])]
  BY DEF End
<1>4. chain' \in [Paths -> Seq(BOOLEAN)] /\ \A q \in Paths : q # p => chain'[q] = chain[q]
  BY <1>1, <1>3
<1>5. flush' \in Flushes
  <2>1. PICK f : f = [flush EXCEPT !.left[p] = IF @ > 0 THEN @ - 1 ELSE 0]
    OBVIOUS
  <2>2. f \in Flushes
    <3>1. /\ flush.left \in [Paths -> Nat] /\ flush.left[p] \in Nat
      BY <1>1 DEF Flushes
    <3>2. (IF flush.left[p] > 0 THEN flush.left[p] - 1 ELSE 0) \in Nat
      BY <3>1
    <3>3. [flush.left EXCEPT ![p] = IF flush.left[p] > 0 THEN flush.left[p] - 1 ELSE 0] \in [Paths -> Nat]
      BY <3>1, <3>2
    <3> QED
      BY <1>1, <2>1, <3>3 DEF Flushes
  <2>3. flush' = Progress(f)
    BY <2>1 DEF End
  <2> QED
    BY <2>2, <2>3, FlushMoves
<1>6. GuestTypes'
  BY DEF Typed, GuestTypes, guestVars
<1>7. CASE waiting = <<>>
  <2>1. run' = [run EXCEPT ![p] = Off] /\ UNCHANGED waiting
    BY <1>7 DEF End
  <2>2. run' \in [Paths -> Tasks] /\ run'[p] = Off /\ \A q \in Paths : q # p => run'[q] = run[q]
    BY <1>1, <1>2, <2>1
  <2>3. Running' = Running \ {p}
    BY <1>2, <2>2 DEF Running
  <2>4. /\ IsFiniteSet(Running') /\ Cardinality(Running') = Cardinality(Running) - 1
        /\ Cardinality(Running) \in Nat
    BY <1>1, <2>3, FS_RemoveElement, FS_CardinalityType DEF Typed, Slots
  <2>5. Slots'
    <3>1. Cardinality(Running') <= Concurrency
      BY <2>4, MirrorAssumption DEF Typed, Slots
    <3>2. \A q \in Running' : run'[q].path \in Paths /\ chain'[q] # <<>>
      BY <1>4, <2>2, <2>3 DEF Typed, Slots, Running
    <3>3. waiting' = <<>>
      BY <1>7, <2>1
    <3> QED
      BY <2>4, <3>1, <3>2, <3>3 DEF Slots
  <2>6. Awaits'
    BY <1>2, <2>2, AwaitsKept DEF Typed, manifestVars
  <2>7. MirrorTypes'
    BY <1>4, <1>5, <2>1, <2>2 DEF Typed, MirrorTypes, manifestVars
  <2> QED
    BY <1>6, <2>5, <2>6, <2>7 DEF Typed
<1>8. CASE waiting # <<>>
  <2>1. PICK h \in Paths : h = Head(waiting)
    BY <1>1, <1>8
  <2>2. /\ Tail(waiting) \in Seq(Paths) /\ Len(Tail(waiting)) = Len(waiting) - 1
        /\ \A i \in 1..Len(waiting) - 1 : Tail(waiting)[i] = waiting[i + 1]
        /\ h = waiting[1] /\ Len(waiting) \in Nat \ {0}
    BY <1>1, <1>8, <2>1
  <2>3. h \notin Running /\ chain[h] # <<>> /\ h # p
    BY <1>1, <2>2 DEF Typed, Slots
  <2>4. PICK t : t = At("begin", h, 0, {})
    OBVIOUS
  <2>5. t \in Tasks /\ t.pc = "begin" /\ t.path = h
    BY <2>4, AtIsTask, MirrorAssumption DEF PCs
  <2>6. run' = [[run EXCEPT ![p] = Off] EXCEPT ![h] = t] /\ waiting' = Tail(waiting)
    BY <1>8, <2>1, <2>4 DEF End
  <2>7. /\ run' \in [Paths -> Tasks] /\ run'[p] = Off /\ run'[h] = t
        /\ \A q \in Paths : q # p /\ q # h => run'[q] = run[q]
    BY <1>1, <1>2, <2>3, <2>5, <2>6
  <2>8. Running' = (Running \ {p}) \cup {h}
    BY <1>2, <2>3, <2>5, <2>7 DEF Running
  <2>9. /\ IsFiniteSet(Running \ {p}) /\ Cardinality(Running \ {p}) = Cardinality(Running) - 1
        /\ Cardinality(Running) \in Nat /\ Cardinality(Running) = Concurrency
    BY <1>1, <1>8, FS_RemoveElement, FS_CardinalityType DEF Typed, Slots
  <2>10. /\ IsFiniteSet(Running') /\ Cardinality(Running') = Cardinality(Running \ {p}) + 1
    BY <2>3, <2>8, <2>9, FS_AddElement
  <2>11. Slots'
    <3>1. Cardinality(Running') = Concurrency
      BY <2>9, <2>10
    <3>2. \A q \in Running' : run'[q].path \in Paths /\ chain'[q] # <<>>
      BY <1>4, <2>3, <2>5, <2>7, <2>8 DEF Typed, Slots, Running
    <3>3. ASSUME NEW i \in 1..Len(waiting')
          PROVE  waiting'[i] \notin Running' /\ chain'[waiting'[i]] # <<>>
      <4>1. i + 1 \in 1..Len(waiting) /\ waiting'[i] = waiting[i + 1] /\ waiting[i + 1] \in Paths
        BY <1>1, <2>2, <2>6
      <4>2. waiting[i + 1] # h
        BY <2>2, <4>1 DEF Typed, Slots
      <4>3. waiting[i + 1] \notin Running /\ chain[waiting[i + 1]] # <<>> /\ waiting[i + 1] # p
        BY <1>1, <4>1 DEF Typed, Slots
      <4> QED
        BY <1>4, <2>8, <4>1, <4>2, <4>3
    <3>4. ASSUME NEW i \in 1..Len(waiting'), NEW j \in 1..Len(waiting'), waiting'[i] = waiting'[j]
          PROVE  i = j
      <4>1. /\ i + 1 \in 1..Len(waiting) /\ j + 1 \in 1..Len(waiting)
            /\ waiting[i + 1] = waiting[j + 1]
        BY <2>2, <2>6, <3>4
      <4>2. i + 1 = j + 1
        BY <4>1 DEF Typed, Slots
      <4> QED
        BY <4>2
    <3> QED
      BY <2>10, <3>1, <3>2, <3>3, <3>4, MirrorAssumption DEF Slots
  <2>12. Awaits'
    <3>1. run[h].pc = "off"
      BY <2>3 DEF Running
    <3> QED
      BY <1>2, <2>5, <2>7, <3>1, AwaitsKept DEF Typed, manifestVars
  <2>13. MirrorTypes'
    BY <1>4, <1>5, <2>2, <2>6, <2>7 DEF Typed, MirrorTypes, manifestVars
  <2> QED
    BY <1>6, <2>11, <2>12, <2>13 DEF Typed
<1> QED
  BY <1>7, <1>8

\* A task takes the next child of its walk, or ends.
LEMMA ProceedTyped == ASSUME Typed, NEW p \in Paths, Proceed(p) PROVE Typed'
<1>1. /\ p \in Running /\ run[p].pc = "next" /\ run[p].todo \in SUBSET Listed
      /\ UNCHANGED <<guestVars, manifest, mbusy, poisoned, unlucky>>
  BY SomewhereRuns, RunningTask DEF Proceed
<1>2. CASE run[p].todo = {}
  BY <1>1, <1>2, EndTyped DEF Proceed, manifestVars
<1>3. CASE run[p].todo # {}
  <2>1. PICK c \in run[p].todo : IF c.link THEN Record(p, c.path, run[p].todo \ {c})
                                 ELSE Resync(p, c.path, run[p].todo \ {c})
    BY <1>3 DEF Proceed
  <2>2. PICK rest \in SUBSET Listed : rest = run[p].todo \ {c}
    BY <1>1
  <2>3. c.path \in Paths
    BY <1>1 DEF Listed
  <2>4. UNCHANGED <<chain, waiting, flush>>
    BY <1>3 DEF Proceed
  <2>5. Record(p, c.path, rest) \/ Resync(p, c.path, rest)
    BY <2>1, <2>2
  <2> QED
    BY <1>1, <2>3, <2>4, <2>5, RecordTyped, ResyncTyped
<1> QED
  BY <1>2, <1>3

\* Several tasks that waited for one directory go on.
LEMMA ResumeTyped ==
  ASSUME Typed, NEW ps \in SUBSET Paths, \A p \in ps : run[p].pc \in {"asked", "doomed"},
         NEW pc \in {"go", "thrown"}, Resume(ps, pc),
         cache' \in [Dirs -> {"none", "asked", "doomed", "ready", "failed"}],
         unlucky' \subseteq Paths,
         UNCHANGED <<guestVars, chain, waiting, opfs, manifestVars, flush>>
  PROVE  Typed'
<1>1. run \in [Paths -> Tasks] /\ pc \in PCs
  BY DEF Typed, MirrorTypes, PCs
<1>2. /\ \A p \in ps : run'[p] = [run[p] EXCEPT !.pc = pc]
      /\ \A p \in Paths : p \notin ps => run'[p] = run[p]
      /\ DOMAIN run' = Paths /\ run' = [p \in Paths |-> run'[p]]
  BY DEF Resume
<1>3. ASSUME NEW p \in ps PROVE run'[p] \in Tasks /\ run'[p].pc = pc /\ run'[p].path = run[p].path
  <2>1. PICK t \in Tasks : t = run[p]
    BY <1>1
  <2>2. run'[p] = [t EXCEPT !.pc = pc]
    BY <1>2, <2>1
  <2> QED
    BY <1>1, <2>1, <2>2, PcIsTask
<1>4. run' \in [Paths -> Tasks]
  BY <1>1, <1>2, <1>3
<1>5. \A p \in Paths : /\ run'[p].pc = "off" <=> run[p].pc = "off"
                       /\ run'[p].pc = "manifest" <=> run[p].pc = "manifest"
                       /\ run'[p].path = run[p].path
  BY <1>2, <1>3
<1>6. Running' = Running
  BY <1>5 DEF Running
<1>7. \A p \in Running : run'[p].path \in Paths
  BY <1>5, RunningTask
<1>8. Slots'
  BY <1>6, <1>7, SlotsKept DEF Typed
<1>9. Awaits'
  BY <1>5, AwaitsKept DEF Typed, manifestVars
<1>10. GuestTypes'
  BY DEF Typed, GuestTypes, guestVars
<1>11. MirrorTypes'
  BY <1>4 DEF Typed, MirrorTypes, manifestVars
<1> QED
  BY <1>8, <1>9, <1>10, <1>11 DEF Typed

\* A directory's handle comes, or is refused.
LEMMA HandlesTyped ==
  ASSUME Typed, NEW d \in Dirs, HandleCame(d) \/ HandleFailed(d)
  PROVE  Typed'
<1>1. \A pc : Waiters(d, pc) \subseteq Paths /\ \A p \in Waiters(d, pc) : run[p].pc = pc
  BY DEF Waiters, Running
<1>2. cache \in [Dirs -> {"none", "asked", "doomed", "ready", "failed"}] /\ unlucky \subseteq Paths
  BY DEF Typed, MirrorTypes, GuestTypes
<1>3. CASE HandleCame(d)
  <2>1. PICK ps : ps = Waiters(d, "asked")
    OBVIOUS
  <2>2. cache' \in [Dirs -> {"none", "asked", "doomed", "ready", "failed"}]
    BY <1>2, <1>3 DEF HandleCame
  <2>3. Resume(ps, "go") /\ UNCHANGED <<guestVars, chain, waiting, opfs, manifestVars, flush, unlucky>>
    BY <1>3, <2>1 DEF HandleCame
  <2> QED
    BY <1>1, <1>2, <2>1, <2>2, <2>3, ResumeTyped
<1>4. CASE HandleFailed(d)
  <2>1. PICK ps : ps = Waiters(d, "doomed")
    OBVIOUS
  <2>2. cache' \in [Dirs -> {"none", "asked", "doomed", "ready", "failed"}]
    BY <1>2, <1>4 DEF HandleFailed
  <2>3. Resume(ps, "thrown") /\ UNCHANGED <<guestVars, chain, waiting, opfs, manifestVars, flush>>
    BY <1>4, <2>1 DEF HandleFailed
  <2>4. unlucky' \subseteq Paths
    <3>1. \A p \in ps : run[p].path \in Paths
      BY <2>1, RunningTask DEF Waiters
    <3> QED
      BY <1>2, <1>4, <2>1, <3>1 DEF HandleFailed
  <2> QED
    BY <1>1, <1>2, <2>1, <2>2, <2>3, <2>4, ResumeTyped
<1> QED
  BY <1>3, <1>4

\* The answers after which a task's place alone changes.
LEMMA AnswersTyped ==
  ASSUME Typed, NEW p \in Paths,
         Opened(p) \/ Closed(p) \/ Rejected(p) \/ Found(p) \/ GiveUp(p)
  PROVE  Typed'
<1>1. /\ p \in Running /\ run[p].pc \notin {"off", "manifest"}
      /\ UNCHANGED <<guestVars, chain, waiting, cache, manifestVars, flush>>
  BY SomewhereRuns DEF Opened, Closed, Rejected, Found, GiveUp
<1>2. /\ cache' \in [Dirs -> {"none", "asked", "doomed", "ready", "failed"}]
      /\ unlucky \subseteq Paths /\ opfs \in [Paths -> Stored]
  BY <1>1 DEF Typed, GuestTypes, MirrorTypes
<1>3. PICK x \in Paths : x = run[p].path
  BY <1>1, RunningTask
<1>4. CASE Opened(p)
  <2>1. PICK pc \in {"writable", "thrown"} : run' = [run EXCEPT ![p].pc = pc]
    BY <1>4 DEF Opened
  <2>2. UNCHANGED opfs /\ unlucky' \subseteq Paths
    BY <1>2, <1>3, <1>4 DEF Opened
  <2>3. pc \in PCs \ {"off", "manifest"}
    BY DEF PCs
  <2> QED
    BY <1>1, <1>2, <2>1, <2>2, <2>3, PcMoves
<1>5. CASE Closed(p)
  <2>1. run' = [run EXCEPT ![p].pc = "next"] /\ UNCHANGED unlucky
        /\ opfs' = [opfs EXCEPT ![x] = File(run[p].ver)]
    BY <1>3, <1>5 DEF Closed
  <2>2. File(run[p].ver) \in Stored
    BY <1>1, RunningTask DEF Stored
  <2>3. opfs' \in [Paths -> Stored] /\ unlucky' \subseteq Paths
    BY <1>2, <2>1, <2>2
  <2>4. "next" \in PCs \ {"off", "manifest"}
    BY DEF PCs
  <2> QED
    BY <1>1, <1>2, <2>1, <2>3, <2>4, PcMoves
<1>6. CASE Rejected(p)
  <2>1. PICK t : t = At("next", x, 0, {})
    OBVIOUS
  <2>2. t \in Tasks /\ t.pc = "next" /\ t.path = x
    BY <2>1, AtIsTask, MirrorAssumption DEF PCs
  <2>3. run' = [run EXCEPT ![p] = t] /\ UNCHANGED <<opfs, unlucky>>
    BY <1>3, <1>6, <2>1 DEF Rejected
  <2> QED
    BY <1>1, <1>2, <2>2, <2>3, TaskMoves
<1>7. CASE Found(p)
  BY <1>1, <1>7, RemoveEntryTyped DEF Found
<1>8. CASE GiveUp(p)
  <2>1. run' = [run EXCEPT ![p].pc = "thrown"] /\ UNCHANGED opfs
        /\ unlucky' = unlucky \cup Under(p)
    BY <1>8 DEF GiveUp
  <2>2. unlucky' \subseteq Paths
    BY <1>2, <2>1 DEF Under, Children
  <2>3. "thrown" \in PCs \ {"off", "manifest"}
    BY DEF PCs
  <2> QED
    BY <1>1, <1>2, <2>1, <2>2, <2>3, PcMoves
<1> QED
  BY <1>4, <1>5, <1>6, <1>7, <1>8

\* removeEntry has answered.
LEMMA RemovedTyped == ASSUME Typed, NEW p \in Paths, Removed(p) PROVE Typed'
<1>1. /\ p \in Running /\ run[p].pc = "removed" /\ p[1] \in Dirs
      /\ UNCHANGED <<guestVars, chain, waiting, opfs, manifest, mbusy, poisoned, flush, unlucky>>
  BY SomewhereRuns, PathFields DEF Removed
<1>2. PICK t : t = [run[p] EXCEPT !.pc = "manifest"]
  OBVIOUS
<1>3. t \in Tasks /\ t.pc = "manifest" /\ t.path = run[p].path /\ t.path \in Paths
  BY <1>1, <1>2, RunningTask, PcIsTask DEF PCs
<1>4. run' = [run EXCEPT ![p] = t]
  BY <1>2 DEF Removed
<1>5. PICK m : m = [op |-> "removeUnder", path |-> p, by |-> p]
  OBVIOUS
<1>6. m \in Entries /\ m.by = p /\ mqueue' = Append(mqueue, m)
  BY <1>5 DEF Entries, Removed
<1>7. cache' \in [Dirs -> {"none", "asked", "doomed", "ready", "failed"}]
  <2>1. cache \in [Dirs -> {"none", "asked", "doomed", "ready", "failed"}]
    BY DEF Typed, MirrorTypes
  <2>2. cache' = cache \/ cache' = [cache EXCEPT ![p[1]] = "none"]
    BY DEF Removed
  <2> QED
    BY <1>1, <2>1, <2>2
<1> QED
  BY <1>1, <1>3, <1>4, <1>6, <1>7, TaskPosts

-----------------------------------------------------------------------------
(* The manifest, the flush, the reload.                                     *)

\* The first operation of the manifest's chain settles, for the task that waits.
LEMMA SettleTyped ==
  ASSUME Typed, mqueue # <<>>, NEW bad \in BOOLEAN, Settle(bad), manifest' \subseteq Paths,
         unlucky' \subseteq Paths, UNCHANGED <<guestVars, chain, waiting, cache, opfs>>
  PROVE  Typed'
<1>1. /\ mqueue \in Seq(Entries) /\ run \in [Paths -> Tasks] /\ flush \in Flushes
  BY DEF Typed, MirrorTypes
<1>2. PICK m \in Entries : m = Head(mqueue)
  BY <1>1
<1>3. PICK p \in Paths : p = m.by
  BY DEF Entries
<1>4. run[p].pc = "manifest" /\ p \in Running
  <2>1. 1 \in 1..Len(mqueue) /\ mqueue[1].by = p
    BY <1>1, <1>2, <1>3
  <2>2. run[p].pc = "manifest"
    BY <2>1 DEF Typed, Awaits
  <2> QED
    BY <2>2, SomewhereRuns
<1>5. PICK t : t = At("next", run[p].path, run[p].ver, IF bad THEN {} ELSE run[p].todo)
  OBVIOUS
<1>6. /\ t \in Tasks /\ t.pc = "next" /\ t.path \in Paths
      /\ run' = [run EXCEPT ![p] = t]
  <2>1. (IF bad THEN {} ELSE run[p].todo) \in SUBSET Listed
    BY <1>4, RunningTask
  <2>2. t \in Tasks /\ t.pc = "next" /\ t.path = run[p].path
    BY <1>4, <1>5, <2>1, RunningTask, AtIsTask DEF PCs
  <2>3. run' = [run EXCEPT ![p] = t]
    BY <1>2, <1>3, <1>5 DEF Settle
  <2> QED
    BY <1>4, <2>2, <2>3, RunningTask
<1>7. /\ Slots' /\ run' \in [Paths -> Tasks]
      /\ run'[p] = t /\ \A q \in Paths : q # p => run'[q] = run[q]
  BY <1>4, <1>6, TaskStep
<1>8. mqueue' = Tail(mqueue) /\ mbusy' = FALSE
  BY DEF Settle
<1>9. Awaits'
  BY <1>1, <1>2, <1>3, <1>6, <1>7, <1>8, AwaitsSettle DEF Typed
<1>10. flush' \in Flushes
  <2>1. flush.mleft \in Nat
    BY <1>1 DEF Flushes
  <2>2. PICK f : f = [flush EXCEPT !.mleft = IF flush.mleft > 0 THEN flush.mleft - 1 ELSE 0]
    OBVIOUS
  <2>3. (IF flush.mleft > 0 THEN flush.mleft - 1 ELSE 0) \in Nat
    BY <2>1
  <2>4. f \in Flushes
    BY <1>1, <2>2, <2>3 DEF Flushes
  <2>5. [flush EXCEPT !.state = "rejected"] \in Flushes
    BY <1>1 DEF Flushes
  <2>6. flush' = Progress(f) \/ flush' = [flush EXCEPT !.state = "rejected"]
    BY <2>2 DEF Settle
  <2> QED
    BY <2>4, <2>5, <2>6, FlushMoves
<1>11. GuestTypes'
  BY DEF Typed, GuestTypes, guestVars
<1>12. mqueue' \in Seq(Entries)
  BY <1>1, <1>8
<1>13. mbusy' \in BOOLEAN
  BY <1>8
<1>14. poisoned' \in BOOLEAN
  BY DEF Settle
<1>15. MirrorTypes'
  BY <1>7, <1>10, <1>12, <1>13, <1>14 DEF Typed, MirrorTypes
<1> QED
  BY <1>7, <1>9, <1>11, <1>15 DEF Typed

\* The next operation of the manifest starts.
LEMMA ManifestStartTyped == Typed /\ ManifestStart => Typed'
<1> SUFFICES ASSUME Typed, ManifestStart PROVE Typed'
  OBVIOUS
<1>1. mqueue # <<>> /\ UNCHANGED <<guestVars, chain, waiting, cache, opfs, manifest, unlucky>>
  BY DEF ManifestStart
<1>2. manifest' \subseteq Paths /\ unlucky' \subseteq Paths
  BY <1>1 DEF Typed, GuestTypes, MirrorTypes
<1>3. CASE Settle(TRUE)
  BY <1>1, <1>2, <1>3, SettleTyped
<1>4. CASE mbusy' = TRUE /\ UNCHANGED <<mqueue, poisoned, run, flush>>
  <2>1. GuestTypes'
    BY <1>1 DEF Typed, GuestTypes, guestVars
  <2>2. mbusy' \in BOOLEAN
    BY <1>4
  <2>3. MirrorTypes'
    BY <1>1, <1>4, <2>2 DEF Typed, MirrorTypes
  <2>4. Running' = Running
    BY <1>4 DEF Running
  <2>5. Slots'
    BY <1>1, <1>4, <2>4 DEF Typed, Slots
  <2>6. Awaits'
    BY <1>1, <1>4 DEF Typed, Awaits
  <2> QED
    BY <2>1, <2>3, <2>5, <2>6 DEF Typed
<1> QED
  BY <1>3, <1>4 DEF ManifestStart

\* An operation of the manifest is done.
LEMMA ManifestDoneTyped == Typed /\ ManifestDone => Typed'
<1> SUFFICES ASSUME Typed, ManifestDone PROVE Typed'
  OBVIOUS
<1>1. mqueue # <<>> /\ UNCHANGED <<guestVars, chain, waiting, cache, opfs>>
  BY DEF ManifestDone, Typed, Awaits
<1>2. PICK m \in Entries : m = Head(mqueue)
  BY <1>1 DEF Typed, MirrorTypes
<1>3. m.path \in Paths /\ manifest \subseteq Paths /\ unlucky \subseteq Paths
  BY DEF Typed, GuestTypes, MirrorTypes, Entries
<1>4. About(m) \subseteq Paths
  BY <1>3 DEF About, Under, Children
<1>5. manifest' \subseteq Paths /\ unlucky' \subseteq Paths
  BY <1>2, <1>3, <1>4 DEF ManifestDone
<1>6. PICK bad \in BOOLEAN : Settle(bad)
  BY DEF ManifestDone, Typed, MirrorTypes
<1> QED
  BY <1>1, <1>5, <1>6, SettleTyped

\* A flush is asked for.
LEMMA AskFlushTyped == Typed /\ AskFlush => Typed'
<1> SUFFICES ASSUME Typed, AskFlush PROVE Typed'
  OBVIOUS
<1>1. UNCHANGED <<guestVars, taskVars, cache, opfs, manifestVars, unlucky>>
  BY DEF AskFlush
<1>2. flush' \in Flushes
  <2>1. flush \in Flushes /\ mqueue \in Seq(Entries) /\ chain \in [Paths -> Seq(BOOLEAN)]
    BY DEF Typed, MirrorTypes
  <2>2. PICK f : f = [state |-> "waiting", left |-> [p \in Paths |-> Len(chain[p])],
                      mleft |-> Len(mqueue)]
    OBVIOUS
  <2>3. \A p \in Paths : Len(chain[p]) \in Nat
    BY <2>1
  <2>4. f \in Flushes
    BY <2>1, <2>2, <2>3 DEF Flushes
  <2>5. [flush EXCEPT !.state = "rejected"] \in Flushes
    BY <2>1 DEF Flushes
  <2>6. flush' = Progress(f) \/ flush' = [flush EXCEPT !.state = "rejected"]
    BY <2>2 DEF AskFlush
  <2> QED
    BY <2>4, <2>5, <2>6, FlushMoves
<1>3. GuestTypes'
  BY <1>1 DEF Typed, GuestTypes, guestVars
<1>4. MirrorTypes'
  BY <1>1, <1>2 DEF Typed, MirrorTypes, taskVars, manifestVars
<1>5. Running' = Running
  BY <1>1 DEF Running, taskVars
<1>6. Slots'
  BY <1>1, <1>5 DEF Typed, Slots, taskVars
<1>7. Awaits'
  BY <1>1 DEF Typed, Awaits, taskVars, manifestVars
<1> QED
  BY <1>3, <1>4, <1>6, <1>7 DEF Typed

\* A new mirror starts with what OPFS holds.
LEMMA ReloadTyped == Typed /\ Reload => Typed'
<1> SUFFICES ASSUME Typed, Reload PROVE Typed'
  OBVIOUS
<1>1. /\ reloads < MaxReloads /\ reloads' = reloads + 1
      /\ chain' = [p \in Paths |-> <<>>] /\ waiting' = <<>> /\ run' = [p \in Paths |-> Off]
      /\ cache' = [d \in Dirs |-> "none"] /\ mqueue' = <<>>
      /\ mbusy' = FALSE /\ poisoned' = FALSE
      /\ flush' = [state |-> "none", left |-> [p \in Paths |-> 0], mleft |-> 0]
      /\ gone' = {} /\ since' = {} /\ unlucky' = {}
      /\ UNCHANGED <<ops, workload, opfs>>
  BY DEF Reload, NewMirror
<1>2. PICK links \in Readable : /\ vfs' = Restored(links)
                                /\ manifest' = {p \in links : opfs[DirOf(p)] = Dir}
  BY DEF Reload
<1>3. links \subseteq Paths /\ opfs \in [Paths -> Stored]
  BY <1>2 DEF Typed, MirrorTypes, Readable
<1>4. vfs' \in [Paths -> Contents]
  <2>1. \A p \in Paths : opfs[p] \in Contents /\ Link \in Contents
    BY <1>3 DEF Stored, Contents
  <2> QED
    BY <1>2, <2>1 DEF Restored
<1>5. GuestTypes'
  BY <1>1, <1>4, MirrorAssumption DEF Typed, GuestTypes
<1>6. MirrorTypes'
  <2>1. Off \in Tasks
    BY MirrorAssumption DEF Off, At, Tasks, PCs
  <2>2. run' \in [Paths -> Tasks] /\ chain' \in [Paths -> Seq(BOOLEAN)] /\ waiting' \in Seq(Paths)
    BY <1>1, <2>1
  <2>3. flush' \in Flushes
    BY <1>1 DEF Flushes
  <2>4. /\ mqueue' \in Seq(Entries) /\ opfs' \in [Paths -> Stored] /\ manifest' \subseteq Paths
        /\ cache' \in [Dirs -> {"none", "asked", "doomed", "ready", "failed"}]
    BY <1>1, <1>2, <1>3
  <2>5. mbusy' \in BOOLEAN /\ poisoned' \in BOOLEAN
    BY <1>1
  <2> QED
    BY <2>2, <2>3, <2>4, <2>5 DEF MirrorTypes
<1>7. Running' = {}
  BY <1>1 DEF Running, Off, At
<1>8. Slots'
  BY <1>1, <1>7, FS_EmptySet, MirrorAssumption DEF Slots
<1>9. Awaits'
  BY <1>1 DEF Awaits, Off, At
<1> QED
  BY <1>5, <1>6, <1>8, <1>9 DEF Typed

\* No step breaks the types.
LEMMA TypedStep == Typed /\ [Next]_vars => Typed'
<1> SUFFICES ASSUME Typed, [Next]_vars PROVE Typed'
  OBVIOUS
<1>1. CASE UNCHANGED vars
  <2>1. Running' = Running
    BY <1>1 DEF vars, taskVars, Running
  <2> QED
    BY <1>1, <2>1 DEF vars, guestVars, taskVars, manifestVars, Typed, GuestTypes, MirrorTypes, Slots, Awaits
<1>2. CASE Guest
  BY <1>2, GuestTyped
<1>3. CASE AskFlush
  BY <1>3, AskFlushTyped
<1>4. CASE Reload
  BY <1>4, ReloadTyped
<1>5. ASSUME NEW p \in Paths, Micro(p) PROVE Typed'
  BY <1>5, AcquireTyped, BeginTyped, GoTyped, ProceedTyped DEF Micro
<1>6. ASSUME NEW p \in Paths, Answer(p) PROVE Typed'
  BY <1>6, AnswersTyped, RemovedTyped DEF Answer
<1>7. ASSUME NEW d \in Dirs, HandleCame(d) \/ HandleFailed(d) PROVE Typed'
  BY <1>7, HandlesTyped
<1>8. CASE ManifestStart
  BY <1>8, ManifestStartTyped
<1>9. CASE ManifestDone
  BY <1>9, ManifestDoneTyped
<1> QED
  BY <1>1, <1>2, <1>3, <1>4, <1>5, <1>6, <1>7, <1>8, <1>9 DEF Next, Mirror

\* The inductive invariant of the types.
LEMMA AlwaysTyped == Spec => []Typed
<1> QED
  BY InitTyped, TypedStep, PTL DEF Spec

\* Types; no more tasks than WRITE_CONCURRENCY hold a slot, none goes unused
\* while a path waits, and each operation of the manifest's chain is awaited by
\* one task (acquireWriteSlot, release, queueManifestOp), whatever guests do and
\* whatever fails.
THEOREM MirrorTypeCorrect == Spec => []TypeOK
<1> QED
  BY AlwaysTyped, TypedIsTypeOK, PTL

-----------------------------------------------------------------------------
(* What is forgotten.  Where no directory is renamed, no path is used again  *)
(* after a recursive removal or a link, links lead to what is always there   *)
(* and directories can be made, nothing is.                                  *)

SafeUse ==
  /\ \A w \in Workloads : /\ w.kinds \cap {"rename", "move"} = {}
                          /\ w.again => w.kinds \cap {"rm", "symlink"} = {}
  /\ Target = Outside /\ "dir" \notin Fails

\* Tasks are at their own path: nobody walks a directory.
Alone ==
  /\ \A p \in Paths :
       /\ p \in Running => run[p].path = p /\ run[p].todo = {}
       /\ \A i \in 1..Len(chain[p]) : ~chain[p][i]
       /\ run[p].pc # "doomed"
       /\ IsDir(p) => run[p].pc \notin {"find", "file", "writable"}
  /\ \A i \in 1..Len(mqueue) : mqueue[i].path = mqueue[i].by
  /\ \A d \in Dirs : cache[d] \notin {"doomed", "failed"}

\* No content is newer than the last operation.
Versions == \A p \in Paths : vfs[p].ver <= ops /\ run[p].ver <= ops /\ opfs[p].ver <= ops

\* Where a task is mirroring something.
Working == {"asked", "go", "file", "writable"}

\* Both are trees; who writes has a file to write to.
Trees ==
  \A p \in Paths :
    /\ vfs[p].kind \in (IF IsDir(p) THEN {"none", "dir"} ELSE {"none", "file", "link"})
    /\ opfs[p].kind \in (IF IsDir(p) THEN {"none", "dir"} ELSE {"none", "file"})
    /\ Present(p) => Present(DirOf(p))
    /\ opfs[p] # None => opfs[DirOf(p)] = Dir
    /\ run[p].pc = "writable" => opfs[p].kind = "file"
    /\ IsDir(p) /\ Present(p) =>
         (cache[p[1]] \in {"asked", "ready"} \/ run[p].pc \in Working => opfs[p] = Dir)

\* The manifest's operations that are not yet done.
Records(p) == \E i \in 1..Len(mqueue) : mqueue[i].op = "record" /\ mqueue[i].by = p
Unlinks(p) == \E i \in 1..Len(mqueue) : mqueue[i].op = "removeUnder" /\ mqueue[i].by = p
Removing(p) == run[p].pc \in {"find", "retry", "removed"} \/ Unlinks(p)

\* Directories, and all paths unless they may be used again, are there once; a
\* path that was not there yet has left no trace.
Once ==
  /\ workload.again => /\ manifest = {} /\ \A p \in Paths : vfs[p] # Link /\ ~Records(p)
                       /\ \A p \in gone : ~IsDir(p)
  /\ \A p \in Paths : ~workload.again \/ IsDir(p) =>
       /\ p \in gone => vfs[p] = None
       /\ vfs[p] = None /\ p \notin gone =>
            /\ chain[p] = <<>> /\ opfs[p] = None /\ p \notin manifest
            /\ IsDir(p) => cache[p[1]] = "none"

\* What is or was a link was never a file, nor is it about to be one.
LinksApart ==
  \A p \in Paths : vfs[p] = Link \/ p \in manifest \/ Records(p) =>
    /\ opfs[p] = None /\ run[p].pc \notin Working /\ vfs[p].kind \in {"none", "link"}
    /\ ~IsDir(p)

\* The task of p deals with what p is now.
Fresh(p) == Present(p) /\ vfs[p] # Link /\ run[p].ver = vfs[p].ver
OnTrack(p) ==
  \/ run[p].pc \in {"off", "begin"}
  \/ run[p].pc \in Working /\ Fresh(p)
  \/ run[p].pc \in {"find", "retry"} /\ vfs[p] = None
  \/ run[p].pc = "removed" /\ vfs[p] = None /\ opfs[p] = None
  \/ run[p].pc = "manifest" /\ vfs[p] = Link /\ Records(p)
  \/ run[p].pc = "manifest" /\ vfs[p] = None /\ opfs[p] = None /\ Unlinks(p)

\* There is still something to be done for p, by a task of its own.
OwnPending(p) == chain[p] # <<>> /\ (Len(chain[p]) > 1 \/ OnTrack(p))

\* p went with its directory, and not before the flush that was asked for if
\* the directory went after it.
ByDir(p)  == DirOf(p) \in gone /\ (p \in since \/ DirOf(p) \notin since)
Owed(p)   == ~Mirrored(p) /\ p \notin unlucky
Coming(p) == OwnPending(p) \/ (ByDir(p) /\ OwnPending(DirOf(p)))
Pending   == \A p \in Paths : Owed(p) => Coming(p)

\* A task that deals with what p no longer is has a successor, or p went with
\* its directory.
Succeeded ==
  \A p \in Paths :
    /\ run[p].pc \in Working => Len(chain[p]) > 1 \/ ByDir(p) \/ Fresh(p)
    /\ Records(p) => Len(chain[p]) > 1 \/ ByDir(p) \/ vfs[p] = Link
    /\ Removing(p) => /\ Len(chain[p]) > 1 \/ vfs[p] = None
                      /\ ~workload.again \/ IsDir(p) => vfs[p] = None

\* A link whose directory is gone is put on record before the directory's
\* removal takes it off.
RecordsFirst ==
  /\ \A p \in Paths : Records(p) /\ DirOf(p) \in gone =>
        p \in unlucky \/ OwnPending(DirOf(p))
  /\ \A i, j \in 1..Len(mqueue) :
        /\ mqueue[i].op = "record" /\ mqueue[j].op = "removeUnder"
        /\ mqueue[j].by = DirOf(mqueue[i].by)
        => i < j

\* A directory that cannot be removed keeps what is in it.
UnluckyDirs == \A p \in unlucky : IsDir(p) => p \in gone /\ Children(p) \subseteq unlucky

\* What the flush waits for is what has been queued, but for what changed since.
Flushed ==
  /\ flush.state = "none" => since = {}
  /\ \A p \in Paths :
       /\ Present(p) /\ p \notin since => DirOf(p) \notin since
       /\ flush.state \in {"waiting", "done"} /\ p \notin since =>
            Len(chain[p]) = flush.left[p]
  /\ flush.state = "done" => \A p \in Paths : flush.left[p] = 0

Remembered ==
  /\ Alone /\ Versions /\ Trees /\ Once /\ LinksApart
  /\ Succeeded /\ Pending /\ RecordsFirst /\ UnluckyDirs /\ Flushed

\* What the types say of one path.
LEMMA PathFacts ==
  ASSUME Typed, NEW p \in Paths
  PROVE  /\ vfs[p] \in Contents /\ opfs[p] \in Contents /\ opfs[p] \in Stored
         /\ run[p] \in Tasks /\ run[p].ver \in Nat /\ vfs[p].ver \in Nat /\ opfs[p].ver \in Nat
         /\ run[p].pc \in PCs
         /\ chain[p] \in Seq(BOOLEAN) /\ Len(chain[p]) \in Nat
         /\ chain[p] = <<>> => run[p].pc = "off" /\ ~Records(p) /\ ~Unlinks(p)
         /\ flush.left[p] \in Nat /\ ops \in Nat
<1>1. /\ vfs[p] \in Contents /\ opfs[p] \in Stored /\ run[p] \in Tasks
      /\ chain[p] \in Seq(BOOLEAN) /\ ops \in 0..MaxOps
  BY DEF Typed, GuestTypes, MirrorTypes
<1>2. opfs[p] \in Contents
  BY <1>1 DEF Stored, Contents
<1>3. vfs[p].ver \in 0..MaxOps /\ opfs[p].ver \in 0..MaxOps
  BY <1>1, <1>2, ContentFields
<1>4. run[p].ver \in 0..MaxOps /\ run[p].pc \in PCs
  BY <1>1 DEF Tasks
<1>5. chain[p] = <<>> => run[p].pc = "off"
  BY DEF Typed, Slots, Running
<1>6. run[p].pc # "manifest" => ~Records(p) /\ ~Unlinks(p)
  BY DEF Typed, Awaits, Records, Unlinks
<1>7. flush.left[p] \in Nat
  BY DEF Typed, MirrorTypes, Flushes
<1> QED
  BY <1>1, <1>2, <1>3, <1>4, <1>5, <1>6, <1>7

\* A path and its directory.
LEMMA DirFacts ==
  ASSUME NEW p \in Paths
  PROVE  /\ DirOf(p) \in Paths /\ DirOf(DirOf(p)) = DirOf(p) /\ IsDir(DirOf(p))
         /\ DirOf(p)[1] = p[1] /\ p[1] \in Dirs
         /\ IsDir(p) <=> DirOf(p) = p
         /\ \A q \in Paths : q \in Under(p) <=> q = p \/ (DirOf(q) = p /\ ~IsDir(q))
         /\ \A q \in Paths : q \in Children(p) <=> DirOf(q) = p /\ ~IsDir(q)
         /\ ~IsDir(p) => Children(p) = {} /\ Under(p) = {p}
         /\ \A q \in Paths : IsDir(p) /\ q[1] = p[1] => DirOf(q) = p
BY DEF Paths, DirOf, IsDir, Under, Children

\* Nothing is forgotten before anything was done.
LEMMA InitRemembered == Init => Remembered
<1> SUFFICES ASSUME Init PROVE Remembered
  OBVIOUS
<1>1. /\ \A p \in Paths : /\ vfs[p] = None /\ chain[p] = <<>> /\ run[p] = Off
                          /\ opfs[p] = None /\ flush.left[p] = 0
      /\ \A d \in Dirs : cache[d] = "none"
      /\ ops = 0 /\ gone = {} /\ manifest = {} /\ mqueue = <<>> /\ flush.state = "none"
      /\ since = {} /\ unlucky = {}
  BY DEF Init
<1>2. /\ None.kind = "none" /\ None.ver = 0 /\ Off.pc = "off" /\ Off.ver = 0
      /\ None # Link /\ Running = {}
  BY <1>1 DEF None, Off, At, Link, Running
<1>3. Alone /\ Versions
  BY <1>1, <1>2 DEF Alone, Versions
<1>4. Trees
  BY <1>1, <1>2 DEF Trees, Present, Working
<1>5. \A p \in Paths : ~Records(p) /\ ~Unlinks(p)
  BY <1>1 DEF Records, Unlinks
<1>6. Once /\ LinksApart
  BY <1>1, <1>2, <1>5, PathFields DEF Once, LinksApart, Working
<1>7. Pending
  BY <1>1, <1>2 DEF Pending, Owed, Mirrored
<1>8. Succeeded
  BY <1>1, <1>2, <1>5 DEF Succeeded, Working, Removing
<1>9. RecordsFirst /\ UnluckyDirs
  BY <1>1, <1>5 DEF RecordsFirst, UnluckyDirs
<1>10. Flushed
  BY <1>1, <1>2 DEF Flushed, Present
<1> QED
  BY <1>3, <1>4, <1>6, <1>7, <1>8, <1>9, <1>10 DEF Remembered

-----------------------------------------------------------------------------
(* Guests' operations: one path changes, or a directory goes.               *)

Untouched == UNCHANGED <<workload, waiting, run, cache, opfs, manifest, mqueue, flush, unlucky>>

Changes(p, c) ==
  /\ c # vfs[p] /\ \A q \in Paths : vfs'[q] = IF q = p THEN c ELSE vfs[q]
  /\ \A q \in Paths : chain'[q] = IF q = p THEN Append(chain[p], FALSE) ELSE chain[q]
  /\ gone' = gone \cup (IF c = None THEN {p} ELSE {})
  /\ since' = IF flush.state = "none" THEN {} ELSE since \cup {p}
  /\ ops' = ops + 1 /\ c.ver <= ops + 1
  /\ c # None /\ ~workload.again => p \notin gone
  /\ IsDir(p) => c = Dir /\ vfs[p] = None
  /\ ~IsDir(p) => /\ c.kind \in {"none", "file", "link"} /\ Present(DirOf(p))
  /\ c = Link => vfs[p] = None /\ ~workload.again
  /\ c.kind = "file" => vfs[p] # Link
  /\ Untouched

Removes(p) ==
  /\ IsDir(p) /\ vfs[p] = Dir /\ ~workload.again
  /\ \A q \in Paths : vfs'[q] = IF q \in Under(p) THEN None ELSE vfs[q]
  /\ \A q \in Paths : chain'[q] = IF q = p THEN Append(chain[p], FALSE) ELSE chain[q]
  /\ gone' = gone \cup {q \in Under(p) : Present(q)}
  /\ since' = IF flush.state = "none" THEN {} ELSE since \cup {q \in Under(p) : Present(q)}
  /\ ops' = ops + 1
  /\ Untouched

\* What an operation that changes one path does.
LEMMA OperationChanges ==
  ASSUME Typed, NEW p \in Paths, NEW c \in Contents, NEW kind, NEW tree,
         tree = [vfs EXCEPT ![p] = c], c # vfs[p],
         Operation(kind, tree, {p}, FALSE)
  PROVE  /\ \A q \in Paths : vfs'[q] = IF q = p THEN c ELSE vfs[q]
         /\ \A q \in Paths : chain'[q] = IF q = p THEN Append(chain[p], FALSE) ELSE chain[q]
         /\ gone' = gone \cup (IF c = None THEN {p} ELSE {})
         /\ since' = IF flush.state = "none" THEN {} ELSE since \cup {p}
         /\ ops' = ops + 1 /\ Untouched /\ kind \in workload.kinds
         /\ c # None /\ ~workload.again => p \notin gone
<1>1. /\ vfs \in [Paths -> Contents] /\ gone \subseteq Paths
      /\ \A q \in Paths : tree[q] = IF q = p THEN c ELSE vfs[q]
  BY DEF Typed, GuestTypes
<1>2. /\ kind \in workload.kinds /\ vfs' = tree /\ ops' = ops + 1
      /\ workload.again \/ \A q \in gone : tree[q] = None
      /\ gone' = gone \cup {q \in Paths : tree[q] = None /\ Present(q)}
      /\ since' = IF flush.state = "none" THEN {} ELSE since \cup {q \in Paths : tree[q] # vfs[q]}
      /\ chain' = [q \in Paths |-> IF q \in {p} THEN Append(chain[q], FALSE) ELSE chain[q]]
      /\ UNCHANGED <<workload, reloads, waiting, run, cache, opfs, manifestVars, flush, unlucky>>
  BY DEF Operation
<1>3. \A q \in Paths : Present(q) <=> vfs[q] # None
  BY <1>1, ContentFields DEF Present, None
<1>4. {q \in Paths : tree[q] = None /\ Present(q)} = IF c = None THEN {p} ELSE {}
  BY <1>1, <1>3
<1>5. {q \in Paths : tree[q] # vfs[q]} = {p}
  BY <1>1
<1>6. Untouched
  BY <1>2 DEF Untouched, manifestVars
<1> QED
  BY <1>1, <1>2, <1>4, <1>5, <1>6

\* Every operation that such workloads allow is one or the other.
LEMMA GuestDoes ==
  ASSUME SafeUse, Typed, Trees, Versions, Guest
  PROVE  \/ \E p \in Paths, c \in Contents : Changes(p, c)
         \/ \E p \in Paths : Removes(p)
<1>0. /\ vfs \in [Paths -> Contents] /\ ops \in 0..MaxOps /\ workload \in Workloads
      /\ None \in Contents /\ Dir \in Contents /\ Link \in Contents
      /\ workload.kinds \cap {"rename", "move"} = {}
      /\ workload.again => workload.kinds \cap {"rm", "symlink"} = {}
  BY DEF Typed, GuestTypes, Contents, SafeUse
<1>k. /\ None.kind = "none" /\ Dir.kind = "dir" /\ Link.kind = "link"
      /\ None.ver = 0 /\ Dir.ver = 0 /\ Link.ver = 0
      /\ \A v : File(v).kind = "file" /\ File(v).ver = v
  BY DEF None, Dir, Link, File
<1>p. \A q \in Paths : (Present(q) <=> vfs[q] # None) /\ (vfs[q].kind = "link" <=> vfs[q] = Link)
                       /\ (vfs[q].kind = "dir" <=> vfs[q] = Dir)
  BY <1>0, <1>k, ContentFields DEF Present
<1>1. PICK p \in Paths : \/ Mkdir(p) \/ Write(p) \/ Symlink(p) \/ Unlink(p) \/ Rm(p)
                         \/ \E q \in Paths : Rename(p, q) \/ Move(p, q)
  BY DEF Guest
<1>2. CASE Mkdir(p)
  <2>1. PICK tree : tree = [vfs EXCEPT ![p] = Dir]
    OBVIOUS
  <2>2. Operation("mkdir", tree, {p}, FALSE) /\ IsDir(p) /\ vfs[p] = None
    BY <1>2, <1>p, <2>1 DEF Mkdir
  <2>3. Dir # vfs[p] /\ Dir # None /\ Dir # Link
    BY <1>0, <1>k, <2>2
  <2>4. /\ \A q \in Paths : vfs'[q] = IF q = p THEN Dir ELSE vfs[q]
        /\ \A q \in Paths : chain'[q] = IF q = p THEN Append(chain[p], FALSE) ELSE chain[q]
        /\ gone' = gone \cup (IF Dir = None THEN {p} ELSE {})
        /\ since' = IF flush.state = "none" THEN {} ELSE since \cup {p}
        /\ ops' = ops + 1 /\ Untouched /\ "mkdir" \in workload.kinds
        /\ Dir # None /\ ~workload.again => p \notin gone
    BY <1>0, <2>1, <2>2, <2>3, OperationChanges
  <2>5. Changes(p, Dir)
    <3>1. Dir.ver <= ops + 1
      BY <1>0, <1>k, MirrorAssumption, PathFacts
    <3>2. /\ IsDir(p) => Dir = Dir /\ vfs[p] = None
          /\ ~IsDir(p) => Dir.kind \in {"none", "file", "link"} /\ Present(DirOf(p))
          /\ Dir = Link => vfs[p] = None /\ ~workload.again
          /\ Dir.kind = "file" => vfs[p] # Link
      BY <1>0, <1>k, <2>2, <2>3, <2>4
    <3> QED
      BY <1>0, <1>k, <2>2, <2>3, <2>4, <3>1, <3>2, Zenon DEF Changes
  <2> QED
    BY <1>0, <2>5
<1>3. CASE Write(p)
  <2>1. PICK tree : tree = [vfs EXCEPT ![p] = File(ops + 1)]
    OBVIOUS
  <2>2. Operation("write", tree, {p}, FALSE) /\ ~IsDir(p) /\ Present(DirOf(p)) /\ vfs[p] # Link
    BY <1>3, <1>p, <2>1 DEF Write
  <2>3. ops + 1 \in 0..MaxOps
    BY <1>0, <2>2, MirrorAssumption DEF Operation
  <2>4. PICK c \in Contents : c = File(ops + 1)
    BY <2>3 DEF Contents
  <2>5. c # vfs[p] /\ c.kind = "file" /\ c.ver = ops + 1 /\ c # Link /\ c # None
    <3>1. vfs[p].ver <= ops /\ vfs[p].ver \in Nat
      BY PathFacts DEF Versions
    <3>2. vfs[p].ver # ops + 1
      BY <1>0, <3>1
    <3>3. c.kind = "file" /\ c.ver = ops + 1
      BY <1>k, <2>4
    <3> QED
      BY <1>k, <3>2, <3>3
  <2>6. /\ \A q \in Paths : vfs'[q] = IF q = p THEN c ELSE vfs[q]
        /\ \A q \in Paths : chain'[q] = IF q = p THEN Append(chain[p], FALSE) ELSE chain[q]
        /\ gone' = gone \cup (IF c = None THEN {p} ELSE {})
        /\ since' = IF flush.state = "none" THEN {} ELSE since \cup {p}
        /\ ops' = ops + 1 /\ Untouched
        /\ c # None /\ ~workload.again => p \notin gone
    BY <2>1, <2>2, <2>4, <2>5, OperationChanges
  <2>7. Changes(p, c)
    <3>1. c.ver <= ops + 1
      BY <2>5, PathFacts
    <3>2. /\ IsDir(p) => c = Dir /\ vfs[p] = None
          /\ ~IsDir(p) => c.kind \in {"none", "file", "link"} /\ Present(DirOf(p))
          /\ c = Link => vfs[p] = None /\ ~workload.again
          /\ c.kind = "file" => vfs[p] # Link
      BY <1>0, <1>k, <2>2, <2>5, <2>6
    <3> QED
      BY <1>0, <1>k, <2>2, <2>5, <2>6, <3>1, <3>2, Zenon DEF Changes
  <2> QED
    BY <2>7
<1>4. CASE Symlink(p)
  <2>1. PICK tree : tree = [vfs EXCEPT ![p] = Link]
    OBVIOUS
  <2>2. Operation("symlink", tree, {p}, FALSE) /\ ~IsDir(p) /\ Present(DirOf(p)) /\ vfs[p] = None
    BY <1>4, <1>p, <2>1 DEF Symlink
  <2>3. Link # vfs[p] /\ Link # None
    BY <1>0, <1>k, <2>2
  <2>4. /\ \A q \in Paths : vfs'[q] = IF q = p THEN Link ELSE vfs[q]
        /\ \A q \in Paths : chain'[q] = IF q = p THEN Append(chain[p], FALSE) ELSE chain[q]
        /\ gone' = gone \cup (IF Link = None THEN {p} ELSE {})
        /\ since' = IF flush.state = "none" THEN {} ELSE since \cup {p}
        /\ ops' = ops + 1 /\ Untouched /\ "symlink" \in workload.kinds
        /\ Link # None /\ ~workload.again => p \notin gone
    BY <1>0, <2>1, <2>2, <2>3, OperationChanges
  <2>6. ~workload.again
    BY <1>0, <2>4
  <2>5. Changes(p, Link)
    <3>1. Link.ver <= ops + 1
      BY <1>0, <1>k, MirrorAssumption, PathFacts
    <3>2. /\ IsDir(p) => Link = Dir /\ vfs[p] = None
          /\ ~IsDir(p) => Link.kind \in {"none", "file", "link"} /\ Present(DirOf(p))
          /\ Link = Link => vfs[p] = None /\ ~workload.again
          /\ Link.kind = "file" => vfs[p] # Link
      BY <1>0, <1>k, <2>2, <2>3, <2>4, <2>6
    <3> QED
      BY <1>0, <1>k, <2>2, <2>3, <2>4, <2>6, <3>1, <3>2, Zenon DEF Changes
  <2> QED
    BY <1>0, <2>5
<1>5. CASE Unlink(p)
  <2>1. PICK tree : tree = [vfs EXCEPT ![p] = None]
    OBVIOUS
  <2>2. Operation("unlink", tree, {p}, FALSE) /\ ~IsDir(p) /\ Present(p)
    BY <1>5, <1>p, <2>1 DEF Unlink
  <2>3. None # vfs[p] /\ None # Link
    BY <1>0, <1>k, <1>p, <2>2
  <2>4. /\ \A q \in Paths : vfs'[q] = IF q = p THEN None ELSE vfs[q]
        /\ \A q \in Paths : chain'[q] = IF q = p THEN Append(chain[p], FALSE) ELSE chain[q]
        /\ gone' = gone \cup (IF None = None THEN {p} ELSE {})
        /\ since' = IF flush.state = "none" THEN {} ELSE since \cup {p}
        /\ ops' = ops + 1 /\ Untouched /\ "unlink" \in workload.kinds
        /\ None # None /\ ~workload.again => p \notin gone
    BY <1>0, <2>1, <2>2, <2>3, OperationChanges
  <2>6. Present(DirOf(p))
    BY <2>2 DEF Trees
  <2>5. Changes(p, None)
    <3>1. None.ver <= ops + 1
      BY <1>0, <1>k, MirrorAssumption, PathFacts
    <3>2. /\ IsDir(p) => None = Dir /\ vfs[p] = None
          /\ ~IsDir(p) => None.kind \in {"none", "file", "link"} /\ Present(DirOf(p))
          /\ None = Link => vfs[p] = None /\ ~workload.again
          /\ None.kind = "file" => vfs[p] # Link
      BY <1>0, <1>k, <2>2, <2>3, <2>4, <2>6
    <3> QED
      BY <1>0, <1>k, <2>2, <2>3, <2>4, <2>6, <3>1, <3>2, Zenon DEF Changes
  <2> QED
    BY <1>0, <2>5
<1>6. CASE Rm(p)
  <2>1. PICK tree : tree = [q \in Paths |-> IF q \in Under(p) THEN None ELSE vfs[q]]
    OBVIOUS
  <2>2. Operation("rm", tree, {p}, FALSE) /\ IsDir(p) /\ Present(p)
    BY <1>6, <2>1 DEF Rm
  <2>3. /\ "rm" \in workload.kinds /\ vfs' = tree /\ ops' = ops + 1
        /\ gone' = gone \cup {q \in Paths : tree[q] = None /\ Present(q)}
        /\ since' = IF flush.state = "none" THEN {} ELSE since \cup {q \in Paths : tree[q] # vfs[q]}
        /\ chain' = [q \in Paths |-> IF q \in {p} THEN Append(chain[q], FALSE) ELSE chain[q]]
        /\ UNCHANGED <<workload, reloads, waiting, run, cache, opfs, manifestVars, flush, unlucky>>
    BY <2>2 DEF Operation
  <2>4. vfs[p] = Dir /\ ~workload.again
    <3>1. vfs[p].kind \in {"none", "dir"}
      BY <2>2 DEF Trees
    <3> QED
      BY <1>0, <1>p, <2>2, <2>3, <3>1 DEF Present
  <2>5. {q \in Paths : tree[q] = None /\ Present(q)} = {q \in Under(p) : Present(q)}
    BY <1>p, <2>1 DEF Under, Children
  <2>6. {q \in Paths : tree[q] # vfs[q]} = {q \in Under(p) : Present(q)}
    BY <1>p, <2>1 DEF Under, Children
  <2>7. Untouched
    BY <2>3 DEF Untouched, manifestVars
  <2>8. Removes(p)
    <3>1. \A q \in Paths : vfs'[q] = IF q \in Under(p) THEN None ELSE vfs[q]
      BY <2>1, <2>3
    <3>2. \A q \in Paths : chain'[q] = IF q = p THEN Append(chain[p], FALSE) ELSE chain[q]
      BY <2>3
    <3> QED
      BY <2>2, <2>3, <2>4, <2>5, <2>6, <2>7, <3>1, <3>2 DEF Removes
  <2> QED
    BY <2>8
<1>7. ASSUME NEW q \in Paths, Rename(p, q) \/ Move(p, q) PROVE FALSE
  BY <1>0, <1>7 DEF Rename, Move, Operation
<1> QED
  BY <1>1, <1>2, <1>3, <1>4, <1>5, <1>6, <1>7

\* Contents and their kinds.
LEMMA Kinds ==
  /\ \A c \in Contents : /\ c.kind = "none" <=> c = None
                         /\ c.kind = "dir" <=> c = Dir
                         /\ c.kind = "link" <=> c = Link
                         /\ c.kind = "file" <=> c \notin {None, Dir, Link}
                         /\ c.kind = "file" => c = File(c.ver)
                         /\ c.kind \in {"none", "dir", "link", "file"}
  /\ None.kind = "none" /\ Dir.kind = "dir" /\ Link.kind = "link"
  /\ None.ver = 0 /\ Dir.ver = 0 /\ Link.ver = 0
  /\ None # Dir /\ None # Link /\ Dir # Link
  /\ \A v : File(v).kind = "file" /\ File(v).ver = v
<1>1. \A v : File(v).kind = "file" /\ File(v).ver = v
  BY DEF File
<1>2. /\ None.kind = "none" /\ Dir.kind = "dir" /\ Link.kind = "link"
      /\ None.ver = 0 /\ Dir.ver = 0 /\ Link.ver = 0
      /\ None # Dir /\ None # Link /\ Dir # Link
  BY DEF None, Dir, Link
<1>3. ASSUME NEW c \in Contents
      PROVE  /\ c.kind = "none" <=> c = None
             /\ c.kind = "dir" <=> c = Dir
             /\ c.kind = "link" <=> c = Link
             /\ c.kind = "file" <=> c \notin {None, Dir, Link}
             /\ c.kind = "file" => c = File(c.ver)
             /\ c.kind \in {"none", "dir", "link", "file"}
  BY <1>1, <1>2, ContentFields
<1> QED
  BY <1>1, <1>2, <1>3

\* A path that may appear has left no trace.
LEMMA NewIsClean ==
  ASSUME Typed, Once, NEW p \in Paths, NEW c \in Contents, Changes(p, c),
         vfs[p] = None, IsDir(p) \/ ~workload.again
  PROVE  /\ p \notin gone /\ chain[p] = <<>> /\ opfs[p] = None /\ p \notin manifest
         /\ IsDir(p) => cache[p[1]] = "none"
         /\ run[p].pc = "off" /\ ~Records(p) /\ ~Unlinks(p)
<1>1. c # None
  BY DEF Changes
<1>4. p \notin gone
  <2>1. workload.again => p \notin gone
    BY DEF Once
  <2>2. ~workload.again => p \notin gone
    BY <1>1 DEF Changes
  <2> QED
    BY <2>1, <2>2
<1>5. chain[p] = <<>> /\ opfs[p] = None /\ p \notin manifest /\ (IsDir(p) => cache[p[1]] = "none")
  BY <1>4 DEF Once
<1> QED
  BY <1>4, <1>5, PathFacts

\* A change of one path leaves two trees.
LEMMA ChangeKeepsTrees ==
  ASSUME SafeUse, Typed, Typed', Remembered, NEW p \in Paths, NEW c \in Contents, Changes(p, c)
  PROVE  Alone' /\ Versions' /\ Trees'
<1> USE DEF Remembered
<1>1. /\ \A q \in Paths : vfs'[q] = IF q = p THEN c ELSE vfs[q]
      /\ \A q \in Paths : chain'[q] = IF q = p THEN Append(chain[p], FALSE) ELSE chain[q]
      /\ UNCHANGED <<run, cache, opfs, mqueue>> /\ ops' = ops + 1 /\ c.ver <= ops + 1
      /\ c # vfs[p]
      /\ IsDir(p) => c = Dir /\ vfs[p] = None
      /\ ~IsDir(p) => c.kind \in {"none", "file", "link"} /\ Present(DirOf(p))
  BY DEF Changes, Untouched
<1>2. Alone'
  <2>1. chain[p] \in Seq(BOOLEAN)
    BY PathFacts
  <2>2. \A i \in 1..Len(Append(chain[p], FALSE)) : ~Append(chain[p], FALSE)[i]
    BY <2>1 DEF Alone
  <2>3. ASSUME NEW q \in Paths PROVE \A i \in 1..Len(chain'[q]) : ~chain'[q][i]
    <3>1. CASE q = p
      <4>1. chain'[q] = Append(chain[p], FALSE)
        BY <1>1, <3>1
      <4> QED
        BY <2>2, <4>1
    <3>2. CASE q # p
      <4>1. chain'[q] = chain[q]
        BY <1>1, <3>2
      <4> QED
        BY <4>1 DEF Alone
    <3> QED
      BY <3>1, <3>2
  <2>4. Running' = Running
    BY <1>1 DEF Running
  <2> QED
    BY <1>1, <2>3, <2>4 DEF Alone
<1>3. Versions'
  <2> SUFFICES ASSUME NEW q \in Paths
               PROVE  vfs'[q].ver <= ops' /\ run'[q].ver <= ops' /\ opfs'[q].ver <= ops'
    BY DEF Versions
  <2>1. /\ vfs[q].ver <= ops /\ run[q].ver <= ops /\ opfs[q].ver <= ops
        /\ vfs[q].ver \in Nat /\ run[q].ver \in Nat /\ opfs[q].ver \in Nat /\ ops \in Nat
    BY PathFacts DEF Versions
  <2> QED
    BY <1>1, <2>1
<1>4. Trees'
  <2> SUFFICES ASSUME NEW q \in Paths
      PROVE /\ vfs'[q].kind \in (IF IsDir(q) THEN {"none", "dir"} ELSE {"none", "file", "link"})
            /\ vfs'[q].kind # "none" => vfs'[DirOf(q)].kind # "none"
            /\ IsDir(q) /\ vfs'[q].kind # "none" =>
                 (cache[q[1]] \in {"asked", "ready"} \/ run[q].pc \in Working => opfs[q] = Dir)
    BY <1>1 DEF Trees, Present
  <2>1. /\ DirOf(q) \in Paths /\ DirOf(p) \in Paths /\ (IsDir(q) => DirOf(q) = q)
        /\ IsDir(DirOf(p)) /\ IsDir(DirOf(q))
    BY DirFacts
  <2>2. vfs'[q].kind \in (IF IsDir(q) THEN {"none", "dir"} ELSE {"none", "file", "link"})
    BY <1>1, Kinds DEF Trees
  <2>3. vfs'[q].kind # "none" => vfs'[DirOf(q)].kind # "none"
    BY <1>1, <2>1, Kinds DEF Trees, Present
  <2>4. IsDir(q) /\ vfs'[q].kind # "none" =>
          (cache[q[1]] \in {"asked", "ready"} \/ run[q].pc \in Working => opfs[q] = Dir)
    <3>1. CASE q = p
      <4>1. IsDir(p) => cache[p[1]] = "none" /\ run[p].pc = "off"
        BY <1>1, NewIsClean
      <4> QED
        BY <3>1, <4>1 DEF Working
    <3>2. CASE q # p
      BY <1>1, <3>2 DEF Trees, Present
    <3> QED
      BY <3>1, <3>2
  <2> QED
    BY <2>2, <2>3, <2>4
<1> QED
  BY <1>2, <1>3, <1>4

\* A change of one path brings nothing back that was there, and keeps links apart.
LEMMA ChangeKeepsOnce ==
  ASSUME SafeUse, Typed, Typed', Remembered, NEW p \in Paths, NEW c \in Contents, Changes(p, c)
  PROVE  Once' /\ LinksApart'
<1> USE DEF Remembered
<1>1. /\ \A q \in Paths : vfs'[q] = IF q = p THEN c ELSE vfs[q]
      /\ \A q \in Paths : chain'[q] = IF q = p THEN Append(chain[p], FALSE) ELSE chain[q]
      /\ UNCHANGED <<run, cache, opfs, mqueue, manifest, workload>>
      /\ gone' = gone \cup (IF c = None THEN {p} ELSE {})
      /\ c # vfs[p]
      /\ c # None /\ ~workload.again => p \notin gone
      /\ IsDir(p) => c = Dir /\ vfs[p] = None
      /\ ~IsDir(p) => c.kind \in {"none", "file", "link"}
      /\ c = Link => vfs[p] = None /\ ~workload.again
      /\ c.kind = "file" => vfs[p] # Link
  BY DEF Changes, Untouched
<1>2. \A q \in Paths : (Records(q)' <=> Records(q))
  BY <1>1 DEF Records
<1>3. Once'
  <2>1. workload.again =>
          /\ manifest' = {} /\ \A q \in Paths : vfs'[q] # Link /\ ~Records(q)'
          /\ \A q \in gone' : ~IsDir(q)
    <3> SUFFICES ASSUME workload.again
                 PROVE  /\ manifest' = {} /\ \A q \in Paths : vfs'[q] # Link /\ ~Records(q)'
                        /\ \A q \in gone' : ~IsDir(q)
      OBVIOUS
    <3>1. manifest = {} /\ (\A q \in Paths : vfs[q] # Link /\ ~Records(q)) /\ (\A q \in gone : ~IsDir(q))
      BY DEF Once
    <3>2. \A q \in Paths : vfs'[q] # Link /\ ~Records(q)'
      BY <1>1, <1>2, <3>1
    <3>3. \A q \in gone' : ~IsDir(q)
      BY <1>1, <3>1, Kinds
    <3> QED
      BY <1>1, <3>1, <3>2, <3>3
  <2>2. ASSUME NEW q \in Paths, ~workload.again \/ IsDir(q), q \in gone'
        PROVE  vfs'[q] = None
    <3>1. CASE q # p
      BY <1>1, <2>2, <3>1 DEF Once
    <3>2. CASE q = p /\ c # None
      <4>1. q \in gone
        BY <1>1, <2>2, <3>2
      <4>2. workload.again
        BY <1>1, <3>2, <4>1
      <4> QED
        BY <2>2, <4>1, <4>2 DEF Once
    <3>3. CASE q = p /\ c = None
      BY <1>1, <3>3
    <3> QED
      BY <3>1, <3>2, <3>3
  <2>3. ASSUME NEW q \in Paths, ~workload.again \/ IsDir(q), vfs'[q] = None, q \notin gone'
        PROVE  /\ chain'[q] = <<>> /\ opfs'[q] = None /\ q \notin manifest'
               /\ IsDir(q) => cache'[q[1]] = "none"
    <3>1. q # p
      BY <1>1, <2>3
    <3>2. vfs[q] = None /\ q \notin gone
      BY <1>1, <2>3, <3>1
    <3> QED
      BY <1>1, <2>3, <3>1, <3>2 DEF Once
  <2> QED
    BY <1>1, <2>1, <2>2, <2>3 DEF Once
<1>4. LinksApart'
  <2> SUFFICES ASSUME NEW q \in Paths, vfs'[q] = Link \/ q \in manifest \/ Records(q)
               PROVE  /\ opfs[q] = None /\ run[q].pc \notin Working
                      /\ vfs'[q].kind \in {"none", "link"} /\ ~IsDir(q)
    BY <1>1, <1>2 DEF LinksApart
  <2>1. CASE q # p
    BY <1>1, <2>1 DEF LinksApart
  <2>2. CASE q = p /\ c = Link
    <3>1. opfs[p] = None /\ run[p].pc = "off"
      BY <1>1, <2>2, NewIsClean
    <3>2. ~IsDir(p)
      BY <1>1, <2>2, Kinds
    <3> QED
      BY <1>1, <2>2, <3>1, <3>2, Kinds DEF Working
  <2>3. CASE q = p /\ c # Link
    <3>1. q \in manifest \/ Records(q)
      BY <1>1, <2>3
    <3>2. /\ opfs[q] = None /\ run[q].pc \notin Working
          /\ vfs[q].kind \in {"none", "link"} /\ ~IsDir(q)
      BY <3>1 DEF LinksApart
    <3>3. ~workload.again
      BY <2>3, <3>1 DEF Once
    <3>4. c = None
      <4>1. vfs[p] = None => ~(p \in manifest \/ Records(p))
        BY <3>3, NewIsClean
      <4>2. vfs[p] = Link
        BY <2>3, <3>1, <3>2, <4>1, PathFacts, Kinds
      <4>3. c.kind # "file"
        BY <1>1, <4>2
      <4> QED
        BY <1>1, <2>3, <3>2, <4>3, Kinds
    <3> QED
      BY <1>1, <2>3, <3>2, <3>4, Kinds
  <2> QED
    BY <2>1, <2>2, <2>3
<1> QED
  BY <1>3, <1>4

\* What is pending for a path that is left alone stays so.
LEMMA OwnPendingKept ==
  ASSUME NEW q \in Paths, chain'[q] = chain[q], run'[q] = run[q], vfs'[q] = vfs[q],
         opfs'[q] \in {opfs[q], None}, Records(q)' <=> Records(q), Unlinks(q)' <=> Unlinks(q),
         OwnPending(q)
  PROVE  OwnPending(q)'
<1>1. OnTrack(q) => OnTrack(q)'
  BY DEF OnTrack, Fresh, Present
<1> QED
  BY <1>1 DEF OwnPending

\* Queues at either end.
LEMMA LongerQueue ==
  ASSUME NEW S, NEW s \in Seq(S), NEW e \in S
  PROVE  Append(s, e) # <<>> /\ Len(Append(s, e)) = Len(s) + 1 /\ Len(s) \in Nat
         /\ (s # <<>> => Len(s) > 0)
OBVIOUS

\* A notification more is pending.
LEMMA OwnPendingMore ==
  ASSUME Typed, NEW q \in Paths, chain'[q] = Append(chain[q], FALSE), run'[q] = run[q]
  PROVE  OwnPending(q)' /\ (chain[q] # <<>> => Len(chain'[q]) > 1)
<1>1. chain[q] \in Seq(BOOLEAN) /\ (chain[q] = <<>> => run[q].pc = "off")
  BY PathFacts
<1>2. /\ chain'[q] # <<>> /\ Len(chain'[q]) = Len(chain[q]) + 1 /\ Len(chain[q]) \in Nat
      /\ chain[q] # <<>> => Len(chain[q]) > 0
  <2>1. FALSE \in BOOLEAN
    OBVIOUS
  <2> QED
    BY <1>1, <2>1, LongerQueue, Zenon
<1>3. chain[q] # <<>> => Len(chain'[q]) > 1
  BY <1>2
<1> QED
  BY <1>1, <1>2, <1>3 DEF OwnPending, OnTrack

\* Who is at work has something to work on.
LEMMA BusyHasChain ==
  ASSUME Typed, NEW q \in Paths, run[q].pc # "off" \/ Records(q) \/ Removing(q)
  PROVE  chain[q] # <<>>
BY PathFacts DEF Removing

\* A change of one path is notified, and what was pending still is.
LEMMA ChangeKeepsPending ==
  ASSUME SafeUse, Typed, Typed', Remembered, NEW p \in Paths, NEW c \in Contents, Changes(p, c)
  PROVE  Succeeded' /\ Pending' /\ RecordsFirst' /\ UnluckyDirs' /\ Flushed'
<1> USE DEF Remembered
<1>1. /\ \A q \in Paths : vfs'[q] = IF q = p THEN c ELSE vfs[q]
      /\ \A q \in Paths : chain'[q] = IF q = p THEN Append(chain[p], FALSE) ELSE chain[q]
      /\ UNCHANGED <<run, cache, opfs, mqueue, manifest, workload, flush, unlucky>>
      /\ gone' = gone \cup (IF c = None THEN {p} ELSE {})
      /\ since' = IF flush.state = "none" THEN {} ELSE since \cup {p}
      /\ c # vfs[p]
      /\ IsDir(p) => c = Dir /\ vfs[p] = None
      /\ ~IsDir(p) => Present(DirOf(p))
  BY DEF Changes, Untouched
<1>2. \A q \in Paths : (Records(q)' <=> Records(q)) /\ (Unlinks(q)' <=> Unlinks(q))
                       /\ (Removing(q)' <=> Removing(q))
  BY <1>1 DEF Records, Unlinks, Removing
<1>3. ASSUME NEW q \in Paths, ByDir(q) PROVE ByDir(q)'
  <2>1. DirOf(q) \in gone /\ (q \in since \/ DirOf(q) \notin since) /\ DirOf(q) \in gone'
    BY <1>1, <1>3 DEF ByDir
  <2>2. DirOf(q) # p
    <3>1. IsDir(DirOf(q))
      BY DirFacts
    <3>2. IsDir(p) => p \notin gone
      BY <1>1, NewIsClean
    <3> QED
      BY <2>1, <3>1, <3>2
  <2>3. flush.state = "none" => since = {}
    BY DEF Flushed
  <2> QED
    BY <1>1, <2>1, <2>2, <2>3 DEF ByDir
<1>4. ASSUME NEW q \in Paths, OwnPending(q) PROVE OwnPending(q)'
  <2>1. CASE q = p
    BY <1>1, <2>1, OwnPendingMore
  <2>2. CASE q # p
    BY <1>1, <1>2, <1>4, <2>2, OwnPendingKept
  <2> QED
    BY <2>1, <2>2
<1>5. OwnPending(p)'
  BY <1>1, OwnPendingMore
<1>6. \A q \in Paths : Coming(q) => Coming(q)'
  BY <1>3, <1>4, DirFacts DEF Coming
<1>7. Pending'
  <2> SUFFICES ASSUME NEW q \in Paths, Owed(q)' PROVE Coming(q)'
    BY DEF Pending
  <2>1. CASE q = p
    BY <1>5, <2>1 DEF Coming
  <2>2. CASE q # p
    <3>1. Owed(q)
      BY <1>1, <2>2 DEF Owed, Mirrored
    <3> QED
      BY <1>6, <3>1 DEF Pending
  <2> QED
    BY <2>1, <2>2
<1>8. Succeeded'
  <2> SUFFICES ASSUME NEW q \in Paths
      PROVE /\ run'[q].pc \in Working => Len(chain'[q]) > 1 \/ ByDir(q)' \/ Fresh(q)'
            /\ Records(q)' => Len(chain'[q]) > 1 \/ ByDir(q)' \/ vfs'[q] = Link
            /\ Removing(q)' => /\ Len(chain'[q]) > 1 \/ vfs'[q] = None
                               /\ ~workload.again \/ IsDir(q) => vfs'[q] = None
    BY <1>1 DEF Succeeded
  <2>1. CASE q = p
    <3>1. run[q].pc \in Working \/ Records(q) \/ Removing(q) => chain[q] # <<>>
      BY BusyHasChain DEF Working
    <3>2. run[q].pc \in Working \/ Records(q) \/ Removing(q) => Len(chain'[q]) > 1
      BY <1>1, <2>1, <3>1, OwnPendingMore
    <3>3. Removing(q) /\ (~workload.again \/ IsDir(q)) => vfs'[q] = None
      <4>1. SUFFICES ASSUME Removing(q), ~workload.again \/ IsDir(q) PROVE FALSE
        OBVIOUS
      <4>2. vfs[q] = None
        BY <4>1 DEF Succeeded
      <4>3. chain[q] # <<>>
        BY <4>1, BusyHasChain
      <4> QED
        BY <2>1, <4>1, <4>2, <4>3, NewIsClean
    <3> QED
      BY <1>1, <1>2, <3>2, <3>3
  <2>2. CASE q # p
    <3>1. vfs'[q] = vfs[q] /\ chain'[q] = chain[q] /\ run'[q] = run[q]
      BY <1>1, <2>2
    <3>2. Fresh(q)' <=> Fresh(q)
      BY <3>1 DEF Fresh, Present
    <3> QED
      BY <1>2, <1>3, <3>1, <3>2 DEF Succeeded
  <2> QED
    BY <2>1, <2>2
<1>9. RecordsFirst'
  <2>1. ASSUME NEW q \in Paths, Records(q)', DirOf(q) \in gone'
        PROVE  q \in unlucky' \/ OwnPending(DirOf(q))'
    <3>1. DirOf(q) \in Paths /\ IsDir(DirOf(q))
      BY DirFacts
    <3>2. DirOf(q) \in gone
      BY <1>1, <2>1, <3>1, Kinds
    <3> QED
      BY <1>1, <1>2, <1>4, <2>1, <3>1, <3>2 DEF RecordsFirst
  <2> QED
    BY <1>1, <2>1 DEF RecordsFirst
<1>10. UnluckyDirs'
  BY <1>1 DEF UnluckyDirs
<1>11. Flushed'
  <2>1. flush'.state = "none" => since' = {}
    BY <1>1
  <2>2. ASSUME NEW q \in Paths, vfs'[q].kind # "none", q \notin since'
        PROVE  DirOf(q) \notin since'
    <3>1. CASE flush.state = "none"
      BY <1>1, <3>1
    <3>2. CASE flush.state # "none"
      <4>1. q # p /\ q \notin since /\ vfs[q].kind # "none"
        BY <1>1, <2>2, <3>2
      <4>2. DirOf(q) \notin since /\ Present(DirOf(q))
        BY <4>1 DEF Flushed, Trees, Present
      <4>3. DirOf(q) # p
        <5>1. IsDir(DirOf(q))
          BY DirFacts
        <5> QED
          BY <1>1, <4>2, <5>1, Kinds DEF Present
      <4> QED
        BY <1>1, <3>2, <4>2, <4>3
    <3> QED
      BY <3>1, <3>2
  <2>3. ASSUME NEW q \in Paths, flush'.state \in {"waiting", "done"}, q \notin since'
        PROVE  Len(chain'[q]) = flush'.left[q]
    <3>1. q # p /\ q \notin since
      BY <1>1, <2>3
    <3> QED
      BY <1>1, <2>3, <3>1 DEF Flushed
  <2>4. flush'.state = "done" => \A q \in Paths : flush'.left[q] = 0
    BY <1>1 DEF Flushed
  <2> QED
    BY <2>1, <2>2, <2>3, <2>4 DEF Flushed, Present
<1> QED
  BY <1>7, <1>8, <1>9, <1>10, <1>11

\* A recursive removal is one notification, and what went is owed by the directory.
LEMMA RemoveKeeps ==
  ASSUME SafeUse, Typed, Typed', Remembered, NEW p \in Paths, Removes(p)
  PROVE  Remembered'
<1> USE DEF Remembered
<1>1. /\ IsDir(p) /\ vfs[p] = Dir /\ ~workload.again /\ ops' = ops + 1
      /\ \A q \in Paths : vfs'[q] = IF q \in Under(p) THEN None ELSE vfs[q]
      /\ \A q \in Paths : chain'[q] = IF q = p THEN Append(chain[p], FALSE) ELSE chain[q]
      /\ UNCHANGED <<run, cache, opfs, mqueue, manifest, workload, flush, unlucky>>
      /\ gone' = gone \cup {q \in Under(p) : Present(q)}
      /\ since' = IF flush.state = "none" THEN {} ELSE since \cup {q \in Under(p) : Present(q)}
  BY DEF Removes, Untouched
<1>2. \A q \in Paths : (Records(q)' <=> Records(q)) /\ (Unlinks(q)' <=> Unlinks(q))
                       /\ (Removing(q)' <=> Removing(q))
  BY <1>1 DEF Records, Unlinks, Removing
<1>3. /\ \A q \in Paths : q \in Under(p) <=> q = p \/ DirOf(q) = p
      /\ \A q \in Paths : DirOf(q) \in Paths /\ DirOf(q) \in Under(p) => DirOf(q) = p
      /\ \A q \in Paths : DirOf(q) \in Paths /\ IsDir(DirOf(q))
      /\ \A q \in Paths : IsDir(q) /\ q \in Under(p) => q = p
  BY <1>1, DirFacts
<1>4. p \notin gone /\ Present(p)
  BY <1>1, Kinds DEF Once, Present
<1>5. Alone'
  <2>1. chain[p] \in Seq(BOOLEAN)
    BY PathFacts
  <2>2. \A i \in 1..Len(Append(chain[p], FALSE)) : ~Append(chain[p], FALSE)[i]
    BY <2>1 DEF Alone
  <2>3. ASSUME NEW q \in Paths PROVE \A i \in 1..Len(chain'[q]) : ~chain'[q][i]
    <3>1. CASE q = p
      <4>1. chain'[q] = Append(chain[p], FALSE)
        BY <1>1, <3>1
      <4> QED
        BY <2>2, <4>1
    <3>2. CASE q # p
      <4>1. chain'[q] = chain[q]
        BY <1>1, <3>2
      <4> QED
        BY <4>1 DEF Alone
    <3> QED
      BY <3>1, <3>2
  <2>4. Running' = Running
    BY <1>1 DEF Running
  <2> QED
    BY <1>1, <2>3, <2>4 DEF Alone
<1>6. Versions'
  <2> SUFFICES ASSUME NEW q \in Paths
               PROVE  vfs'[q].ver <= ops' /\ run'[q].ver <= ops' /\ opfs'[q].ver <= ops'
    BY DEF Versions
  <2>1. /\ vfs[q].ver <= ops /\ run[q].ver <= ops /\ opfs[q].ver <= ops
        /\ vfs[q].ver \in Nat /\ run[q].ver \in Nat /\ opfs[q].ver \in Nat /\ ops \in Nat
    BY PathFacts DEF Versions
  <2>2. vfs'[q] = None \/ vfs'[q] = vfs[q]
    BY <1>1
  <2>3. vfs'[q].ver <= ops + 1
    BY <2>1, <2>2, Kinds
  <2> QED
    BY <1>1, <2>1, <2>3
<1>7. Trees'
  BY <1>1, <1>3, Kinds DEF Trees, Present
<1>8. Once'
  <2>1. ASSUME NEW q \in Paths, q \in gone' PROVE vfs'[q] = None
    <3>1. CASE q \in gone
      BY <1>1, <3>1 DEF Once
    <3>2. CASE q \notin gone
      BY <1>1, <2>1, <3>2
    <3> QED
      BY <3>1, <3>2
  <2>2. ASSUME NEW q \in Paths, vfs'[q] = None, q \notin gone'
        PROVE  /\ chain'[q] = <<>> /\ opfs'[q] = None /\ q \notin manifest'
               /\ IsDir(q) => cache'[q[1]] = "none"
    <3>1. q # p /\ q \notin gone
      BY <1>1, <1>3, <1>4, <2>2
    <3>2. vfs[q] = None
      <4>1. q \in Under(p) => ~Present(q)
        BY <1>1, <2>2
      <4> QED
        BY <1>1, <2>2, <4>1, PathFacts, Kinds DEF Present
    <3> QED
      BY <1>1, <3>1, <3>2 DEF Once
  <2> QED
    BY <1>1, <2>1, <2>2 DEF Once
<1>9. LinksApart'
  BY <1>1, <1>2, Kinds DEF LinksApart
<1>10. ASSUME NEW q \in Paths, ByDir(q) PROVE ByDir(q)' /\ DirOf(q) # p
  <2>1. DirOf(q) \in gone /\ (q \in since \/ DirOf(q) \notin since) /\ DirOf(q) \in gone'
    BY <1>1, <1>10 DEF ByDir
  <2>2. DirOf(q) # p
    BY <1>4, <2>1
  <2>3. flush.state = "none" => since = {}
    BY DEF Flushed
  <2>4. DirOf(q) \notin Under(p)
    BY <1>3, <2>2
  <2> QED
    BY <1>1, <2>1, <2>2, <2>3, <2>4 DEF ByDir
<1>11. ASSUME NEW q \in Paths, Present(q), DirOf(q) = p PROVE ByDir(q)'
  <2>1. p \in gone'
    BY <1>1, <1>3, <1>4
  <2>2. q \in Under(p)
    BY <1>3, <1>11
  <2> QED
    BY <1>1, <1>11, <2>1, <2>2 DEF ByDir
<1>12. OwnPending(p)'
  BY <1>1, OwnPendingMore
<1>13. ASSUME NEW q \in Paths, OwnPending(q), vfs'[q] = vfs[q] PROVE OwnPending(q)'
  <2>1. q # p
    BY <1>1, <1>3, <1>13, Kinds
  <2> QED
    BY <1>1, <1>2, <1>13, <2>1, OwnPendingKept
<1>14. Pending'
  <2> SUFFICES ASSUME NEW q \in Paths, Owed(q)' PROVE Coming(q)'
    BY DEF Pending
  <2>1. CASE q = p
    BY <1>12, <2>1 DEF Coming
  <2>2. CASE q # p /\ DirOf(q) = p /\ Present(q)
    BY <1>11, <1>12, <2>2 DEF Coming
  <2>3. CASE q # p /\ DirOf(q) = p /\ ~Present(q)
    <3>1. vfs'[q] = vfs[q]
      BY <1>1, <2>3, PathFacts, Kinds DEF Present
    <3>2. Owed(q)
      BY <1>1, <3>1 DEF Owed, Mirrored
    <3>3. OwnPending(q)
      BY <1>10, <2>3, <3>2 DEF Pending, Coming
    <3> QED
      BY <1>13, <3>1, <3>3 DEF Coming
  <2>4. CASE q # p /\ DirOf(q) # p
    <3>1. vfs'[q] = vfs[q] /\ vfs'[DirOf(q)] = vfs[DirOf(q)]
      BY <1>1, <1>3, <2>4
    <3>2. Owed(q)
      BY <1>1, <3>1 DEF Owed, Mirrored
    <3> QED
      BY <1>3, <1>10, <1>13, <3>1, <3>2 DEF Pending, Coming
  <2> QED
    BY <2>1, <2>2, <2>3, <2>4
<1>15. Succeeded'
  <2> SUFFICES ASSUME NEW q \in Paths
      PROVE /\ run'[q].pc \in Working => Len(chain'[q]) > 1 \/ ByDir(q)' \/ Fresh(q)'
            /\ Records(q)' => Len(chain'[q]) > 1 \/ ByDir(q)' \/ vfs'[q] = Link
            /\ Removing(q)' => vfs'[q] = None
    BY <1>1 DEF Succeeded
  <2>1. CASE q = p
    <3>1. run[q].pc \in Working \/ Records(q) => Len(chain'[q]) > 1
      BY <1>1, <2>1, BusyHasChain, OwnPendingMore DEF Working
    <3>2. vfs'[q] = None
      BY <1>1, <1>3, <2>1
    <3> QED
      BY <1>1, <1>2, <3>1, <3>2
  <2>2. CASE q # p /\ DirOf(q) = p
    <3>1. vfs'[q] = None /\ chain'[q] = chain[q] /\ run'[q] = run[q]
      BY <1>1, <1>3, <2>2
    <3>2. Present(q) => ByDir(q)'
      BY <1>11, <2>2
    <3>3. vfs[q] = Link => Present(q)
      BY Kinds DEF Present
    <3>4. Fresh(q) => Present(q)
      BY DEF Fresh
    <3> QED
      BY <1>2, <1>10, <3>1, <3>2, <3>3, <3>4 DEF Succeeded
  <2>3. CASE q # p /\ DirOf(q) # p
    <3>1. vfs'[q] = vfs[q] /\ chain'[q] = chain[q] /\ run'[q] = run[q]
      BY <1>1, <1>3, <2>3
    <3>2. Fresh(q)' <=> Fresh(q)
      BY <3>1 DEF Fresh, Present
    <3> QED
      BY <1>1, <1>2, <1>10, <3>1, <3>2 DEF Succeeded
  <2> QED
    BY <2>1, <2>2, <2>3
<1>16. RecordsFirst'
  <2>1. ASSUME NEW q \in Paths, Records(q)', DirOf(q) \in gone'
        PROVE  q \in unlucky' \/ OwnPending(DirOf(q))'
    <3>1. CASE DirOf(q) = p
      BY <1>12, <3>1
    <3>2. CASE DirOf(q) # p
      <4>1. DirOf(q) \in gone /\ vfs'[DirOf(q)] = vfs[DirOf(q)]
        BY <1>1, <1>3, <2>1, <3>2
      <4> QED
        BY <1>1, <1>2, <1>3, <1>13, <2>1, <4>1 DEF RecordsFirst
    <3> QED
      BY <3>1, <3>2
  <2> QED
    BY <1>1, <2>1 DEF RecordsFirst
<1>17. UnluckyDirs'
  BY <1>1 DEF UnluckyDirs
<1>18. Flushed'
  <2>1. flush'.state = "none" => since' = {}
    BY <1>1
  <2>2. ASSUME NEW q \in Paths, vfs'[q].kind # "none", q \notin since'
        PROVE  DirOf(q) \notin since'
    <3>1. CASE flush.state = "none"
      BY <1>1, <3>1
    <3>2. CASE flush.state # "none"
      <4>1. q \notin Under(p)
        BY <1>1, <2>2, Kinds
      <4>2. q \notin since /\ Present(q) /\ DirOf(q) \notin Under(p)
        BY <1>1, <1>3, <2>2, <3>2, <4>1 DEF Present
      <4> QED
        BY <1>1, <3>2, <4>2 DEF Flushed
    <3> QED
      BY <3>1, <3>2
  <2>3. ASSUME NEW q \in Paths, flush'.state \in {"waiting", "done"}, q \notin since'
        PROVE  Len(chain'[q]) = flush'.left[q]
    <3>1. p \in since'
      BY <1>1, <1>3, <1>4, <2>3
    <3>2. q # p /\ q \notin since
      BY <1>1, <2>3, <3>1
    <3> QED
      BY <1>1, <2>3, <3>2 DEF Flushed
  <2>4. flush'.state = "done" => \A q \in Paths : flush'.left[q] = 0
    BY <1>1 DEF Flushed
  <2> QED
    BY <2>1, <2>2, <2>3, <2>4 DEF Flushed, Present
<1> QED
  BY <1>5, <1>6, <1>7, <1>8, <1>9, <1>14, <1>15, <1>16, <1>17, <1>18

\* Whatever guests do is remembered.
LEMMA GuestKeeps ==
  ASSUME SafeUse, Typed, Typed', Remembered, Guest
  PROVE  Remembered'
<1>1. Versions /\ Trees
  BY DEF Remembered
<1>2. \/ \E p \in Paths, c \in Contents : Changes(p, c)
      \/ \E p \in Paths : Removes(p)
  BY <1>1, GuestDoes
<1>3. ASSUME NEW p \in Paths, NEW c \in Contents, Changes(p, c) PROVE Remembered'
  BY <1>3, ChangeKeepsTrees, ChangeKeepsOnce, ChangeKeepsPending DEF Remembered
<1> QED
  BY <1>2, <1>3, RemoveKeeps

-----------------------------------------------------------------------------
(* Tasks: one step of one task.                                             *)

\* Without anything posted, what the manifest's operations are stays.
LEMMA SameQueue ==
  ASSUME UNCHANGED mqueue
  PROVE  /\ \A q : Records(q)' <=> Records(q)
         /\ \A q : Unlinks(q)' <=> Unlinks(q)
BY DEF Records, Unlinks

\* A step of the task of p that touches neither OPFS nor the manifest.
LEMMA PlainMove ==
  ASSUME SafeUse, Typed, Typed', Remembered, NEW p \in Paths, p \in Running,
         run[p].pc # "manifest",
         \A q \in Paths : q # p => run'[q] = run[q],
         run'[p].path = p, run'[p].todo = {}, run'[p].ver <= ops,
         run'[p].pc \notin {"off", "doomed", "manifest", "removed"},
         IsDir(p) => run'[p].pc \notin {"find", "file", "writable"},
         run'[p].pc = "writable" => opfs[p].kind = "file",
         run'[p].pc \in Working => run[p].pc \in Working /\ run'[p].ver = run[p].ver,
         run'[p].pc \in {"find", "retry"} => vfs[p] = None \/ Removing(p),
         unlucky \subseteq unlucky', UnluckyDirs',
         \/ OnTrack(p) => OnTrack(p)'
         \/ ~Owed(p)' /\ (p \in gone => Children(p) \subseteq unlucky'),
         UNCHANGED <<guestVars, chain, waiting, cache, opfs, manifestVars, flush>>
  PROVE  Remembered'
<1> USE DEF Remembered
<1>0. UNCHANGED <<vfs, ops, gone, since, workload, chain, cache, opfs, manifest, mqueue, flush>>
  BY DEF guestVars, manifestVars
<1>1. /\ \A q : Records(q)' <=> Records(q)
      /\ \A q : Unlinks(q)' <=> Unlinks(q)
      /\ ~Records(p) /\ ~Unlinks(p)
  BY <1>0, SameQueue DEF Records, Unlinks, Typed, Awaits
<1>2. Alone'
  <2>1. Running' = Running
    BY DEF Running
  <2> QED
    BY <1>0, <2>1 DEF Alone
<1>3. Versions'
  BY <1>0 DEF Versions
<1>4. Trees'
  BY <1>0 DEF Trees, Present
<1>5. Once'
  BY <1>0, <1>1 DEF Once
<1>6. LinksApart'
  BY <1>0, <1>1 DEF LinksApart
<1>7. \A q \in Paths : ByDir(q)' <=> ByDir(q)
  BY <1>0 DEF ByDir
<1>8. \A q \in Paths : q # p /\ OwnPending(q) => OwnPending(q)'
  BY <1>0, <1>1, OwnPendingKept
<1>9. OwnPending(p) => OwnPending(p)' \/ (~Owed(p)' /\ (p \in gone => Children(p) \subseteq unlucky'))
  BY <1>0 DEF OwnPending
<1>10. \A q \in Paths : Owed(q)' => Owed(q)
  BY <1>0 DEF Owed, Mirrored
<1>11. Pending'
  <2> SUFFICES ASSUME NEW q \in Paths, Owed(q)' PROVE Coming(q)'
    BY DEF Pending
  <2>1. Coming(q)
    BY <1>10 DEF Pending
  <2>2. CASE OwnPending(q)
    BY <1>8, <1>9, <2>2 DEF Coming
  <2>3. CASE ~OwnPending(q)
    <3>1. ByDir(q) /\ OwnPending(DirOf(q))
      BY <2>1, <2>3 DEF Coming
    <3>2. DirOf(q) = p => ~(p \in gone => Children(p) \subseteq unlucky')
      <4> SUFFICES ASSUME DirOf(q) = p, p \in gone => Children(p) \subseteq unlucky' PROVE FALSE
        OBVIOUS
      <4>1. q \in Children(p)
        BY <2>3, <3>1, DirFacts
      <4> QED
        BY <3>1, <4>1 DEF ByDir, Owed
    <3>3. OwnPending(DirOf(q))'
      BY <1>8, <1>9, <3>1, <3>2, DirFacts
    <3> QED
      BY <1>7, <3>1, <3>3 DEF Coming
  <2> QED
    BY <2>2, <2>3
<1>12. Succeeded'
  <2> SUFFICES ASSUME NEW q \in Paths
      PROVE /\ run'[q].pc \in Working => Len(chain'[q]) > 1 \/ ByDir(q)' \/ Fresh(q)'
            /\ Records(q)' => Len(chain'[q]) > 1 \/ ByDir(q)' \/ vfs'[q] = Link
            /\ Removing(q)' => /\ Len(chain'[q]) > 1 \/ vfs'[q] = None
                               /\ ~workload.again \/ IsDir(q) => vfs'[q] = None
    BY <1>0 DEF Succeeded
  <2>1. CASE q # p
    <3>1. (Removing(q)' <=> Removing(q)) /\ (Fresh(q)' <=> Fresh(q))
      BY <1>0, <1>1, <2>1 DEF Removing, Fresh, Present
    <3> QED
      BY <1>0, <1>1, <1>7, <2>1, <3>1 DEF Succeeded
  <2>2. CASE q = p
    <3>1. run'[p].pc \in Working => (Fresh(p) => Fresh(p)')
      BY <1>0 DEF Fresh, Present
    <3>2. Removing(p)' => vfs[p] = None \/ Removing(p)
      BY <1>1 DEF Removing
    <3> QED
      BY <1>0, <1>1, <1>7, <2>2, <3>1, <3>2 DEF Succeeded
  <2> QED
    BY <2>1, <2>2
<1>13. RecordsFirst'
  <2>1. ASSUME NEW q \in Paths, Records(q), DirOf(q) \in gone
        PROVE  q \in unlucky' \/ OwnPending(DirOf(q))'
    <3>1. DirOf(q) \in Paths /\ ~IsDir(q) /\ (DirOf(q) = p => q \in Children(p))
      BY <2>1, DirFacts DEF LinksApart
    <3>2. q \in unlucky \/ OwnPending(DirOf(q))
      BY <2>1 DEF RecordsFirst
    <3>3. DirOf(q) = p /\ ~OwnPending(p)' /\ OwnPending(p) => q \in unlucky'
      BY <1>9, <2>1, <3>1
    <3> QED
      BY <1>8, <3>1, <3>2, <3>3
  <2> QED
    BY <1>0, <1>1, <2>1 DEF RecordsFirst
<1>14. Flushed'
  BY <1>0 DEF Flushed, Present
<1> QED
  BY <1>2, <1>3, <1>4, <1>5, <1>6, <1>11, <1>12, <1>13, <1>14

\* With a promise in the cache or a new request, the directory is there.
LEMMA EnsureDoes ==
  ASSUME SafeUse, Typed, Remembered, NEW p \in Paths, Present(p), vfs[p] # Link,
         Ensure(p, p, {})
  PROVE  /\ \E pc \in {"go", "asked"} : run' = [run EXCEPT ![p] = At(pc, p, vfs[p].ver, {})]
         /\ \A q \in Paths : opfs'[q] = IF q = DirOf(p) THEN Dir ELSE opfs[q]
         /\ \A d \in Dirs : /\ cache'[d] \notin {"doomed", "failed"}
                            /\ d # p[1] => cache'[d] = cache[d]
         /\ UNCHANGED mqueue
<1> USE DEF Remembered
<1>1. /\ cache \in [Dirs -> {"none", "asked", "doomed", "ready", "failed"}]
      /\ opfs \in [Paths -> Stored] /\ p[1] \in Dirs /\ DirOf(p) \in Paths /\ DirOf(p)[1] = p[1]
      /\ IsDir(DirOf(p)) /\ Present(DirOf(p))
      /\ \A d \in Dirs : cache[d] \notin {"doomed", "failed"}
      /\ "dir" \notin Fails
  BY DirFacts DEF Typed, MirrorTypes, Trees, Alone, SafeUse
<1>2. cache[p[1]] \in {"none", "asked", "ready"}
  BY <1>1
<1>3. CASE cache[p[1]] = "none"
  <2>1. /\ cache' = [cache EXCEPT ![p[1]] = "asked"]
        /\ opfs' = [opfs EXCEPT ![DirOf(p)] = Dir]
        /\ run' = [run EXCEPT ![p] = At("asked", p, vfs[p].ver, {})]
        /\ UNCHANGED mqueue
    BY <1>1, <1>3 DEF Ensure
  <2> QED
    BY <1>1, <2>1
<1>4. CASE cache[p[1]] \in {"asked", "ready"}
  <2>1. /\ UNCHANGED <<cache, opfs, mqueue>>
        /\ \/ run' = [run EXCEPT ![p] = At("go", p, vfs[p].ver, {})]
           \/ run' = [run EXCEPT ![p] = At("asked", p, vfs[p].ver, {})]
    BY <1>4 DEF Ensure
  <2>2. opfs[DirOf(p)] = Dir
    BY <1>1, <1>4 DEF Trees
  <2> QED
    BY <1>1, <2>1, <2>2
<1> QED
  BY <1>2, <1>3, <1>4

\* A file or directory is there to be mirrored.
LEMMA EnsureKeeps ==
  ASSUME SafeUse, Typed, Typed', Remembered, NEW p \in Paths, run[p].pc = "begin",
         Present(p), vfs[p] # Link, Ensure(p, p, {}),
         UNCHANGED <<guestVars, chain, waiting, manifest, mbusy, poisoned, flush, unlucky>>
  PROVE  Remembered'
<1> USE DEF Remembered
<1>0. UNCHANGED <<vfs, ops, gone, since, workload, chain, manifest, mqueue, flush, unlucky>>
  BY EnsureDoes DEF guestVars
<1>1. /\ \A q \in Paths : opfs'[q] = IF q = DirOf(p) THEN Dir ELSE opfs[q]
      /\ \A d \in Dirs : /\ cache'[d] \notin {"doomed", "failed"}
                         /\ d # p[1] => cache'[d] = cache[d]
  BY EnsureDoes
<1>2. PICK pc \in {"go", "asked"} : run' = [run EXCEPT ![p] = At(pc, p, vfs[p].ver, {})]
  BY EnsureDoes
<1>3. /\ run'[p].pc = pc /\ run'[p].path = p /\ run'[p].ver = vfs[p].ver /\ run'[p].todo = {}
      /\ \A q \in Paths : q # p => run'[q] = run[q]
  BY <1>2 DEF Typed, MirrorTypes, At
<1>4. /\ \A q : Records(q)' <=> Records(q)
      /\ \A q : Unlinks(q)' <=> Unlinks(q)
      /\ ~Records(p) /\ ~Unlinks(p)
  BY <1>0, SameQueue DEF Records, Unlinks, Typed, Awaits
<1>5. /\ DirOf(p) \in Paths /\ IsDir(DirOf(p)) /\ DirOf(DirOf(p)) = DirOf(p)
      /\ IsDir(p) => p = DirOf(p)
      /\ Present(DirOf(p)) /\ vfs[DirOf(p)] = Dir
      /\ \A q \in Paths : IsDir(q) /\ q[1] = p[1] => q = DirOf(p)
      /\ \A q \in Paths : q[1] \in Dirs
  <2>1. Present(DirOf(p)) /\ DirOf(p) \in Paths /\ IsDir(DirOf(p))
    BY DirFacts DEF Trees
  <2>2. vfs[DirOf(p)] = Dir
    BY <2>1, PathFacts, Kinds DEF Trees, Present
  <2> QED
    BY <2>1, <2>2, DirFacts
<1>6. Alone'
  <2>1. Running' = Running
    BY <1>3 DEF Running
  <2> QED
    BY <1>0, <1>1, <1>3, <2>1 DEF Alone
<1>7. Versions'
  BY <1>0, <1>1, <1>3, PathFacts, Kinds DEF Versions
<1>8. Trees'
  <2> SUFFICES ASSUME NEW q \in Paths
      PROVE /\ opfs'[q].kind \in (IF IsDir(q) THEN {"none", "dir"} ELSE {"none", "file"})
            /\ opfs'[q] # None => opfs'[DirOf(q)] = Dir
            /\ run'[q].pc = "writable" => opfs'[q].kind = "file"
            /\ IsDir(q) /\ Present(q) =>
                 (cache'[q[1]] \in {"asked", "ready"} \/ run'[q].pc \in Working => opfs'[q] = Dir)
    BY <1>0 DEF Trees, Present
  <2>1. /\ opfs'[q].kind \in (IF IsDir(q) THEN {"none", "dir"} ELSE {"none", "file"})
        /\ opfs'[q] # None => opfs'[DirOf(q)] = Dir
    BY <1>1, <1>5, Kinds, DirFacts DEF Trees
  <2>2. run'[q].pc = "writable" => opfs'[q].kind = "file"
    BY <1>1, <1>3, <1>5 DEF Trees, Alone
  <2>3. IsDir(q) /\ Present(q) =>
          (cache'[q[1]] \in {"asked", "ready"} \/ run'[q].pc \in Working => opfs'[q] = Dir)
    <3>1. CASE q = DirOf(p)
      BY <1>1, <3>1
    <3>2. CASE q # DirOf(p)
      <4>1. IsDir(q) => q # p /\ q[1] # p[1] /\ q[1] \in Dirs
        BY <1>5, <3>2
      <4> QED
        BY <1>1, <1>3, <3>2, <4>1 DEF Trees
    <3> QED
      BY <3>1, <3>2
  <2> QED
    BY <2>1, <2>2, <2>3
<1>9. Once'
  <2>1. ASSUME NEW q \in Paths, ~workload.again \/ IsDir(q), vfs[q] = None, q \notin gone
        PROVE  opfs'[q] = None /\ (IsDir(q) => cache'[q[1]] = "none")
    <3>1. q # DirOf(p)
      BY <1>5, <2>1, Kinds
    <3>2. IsDir(q) => q[1] # p[1] /\ q[1] \in Dirs
      BY <1>5, <3>1
    <3> QED
      BY <1>1, <2>1, <3>1, <3>2 DEF Once
  <2> QED
    BY <1>0, <1>4, <2>1 DEF Once
<1>10. LinksApart'
  <2> SUFFICES ASSUME NEW q \in Paths, vfs[q] = Link \/ q \in manifest \/ Records(q)
               PROVE  opfs'[q] = None /\ run'[q].pc \notin Working
    BY <1>0, <1>4 DEF LinksApart
  <2>1. ~IsDir(q) /\ q # DirOf(p)
    BY <1>5 DEF LinksApart
  <2>2. q # p
    <3> SUFFICES ASSUME q = p PROVE FALSE
      OBVIOUS
    <3>1. vfs[p].kind \in {"none", "link"} /\ vfs[p] \in Contents
      BY PathFacts DEF LinksApart
    <3>2. vfs[p] = Link \/ vfs[p].kind = "none"
      BY <3>1, Kinds
    <3> QED
      BY <3>2 DEF Present
  <2> QED
    BY <1>1, <1>3, <2>1, <2>2 DEF LinksApart
<1>11. \A q \in Paths : ByDir(q)' <=> ByDir(q)
  BY <1>0 DEF ByDir
<1>12. Fresh(p)'
  BY <1>0, <1>3 DEF Fresh, Present
<1>13. OwnPending(p)'
  <2>1. chain[p] # <<>>
    BY BusyHasChain
  <2>2. run'[p].pc \in Working
    BY <1>3 DEF Working
  <2> QED
    BY <1>0, <1>12, <2>1, <2>2 DEF OwnPending, OnTrack
<1>14. ASSUME NEW q \in Paths, OwnPending(q) PROVE OwnPending(q)'
  <2>1. CASE q = p
    BY <1>13, <2>1
  <2>2. CASE q # p /\ q # DirOf(p)
    BY <1>0, <1>1, <1>3, <1>4, <1>14, <2>2, OwnPendingKept
  <2>3. CASE q # p /\ q = DirOf(p)
    <3>1. OnTrack(q) => OnTrack(q)'
      <4>1. vfs[q] # None
        BY <1>5, <2>3, Kinds
      <4>2. Fresh(q)' <=> Fresh(q)
        BY <1>0, <1>3, <2>3 DEF Fresh, Present
      <4> QED
        BY <1>0, <1>3, <1>4, <2>3, <4>1, <4>2 DEF OnTrack
    <3> QED
      BY <1>0, <1>14, <3>1 DEF OwnPending
  <2> QED
    BY <2>1, <2>2, <2>3
<1>15. Pending'
  <2> SUFFICES ASSUME NEW q \in Paths, Owed(q)' PROVE Coming(q)'
    BY DEF Pending
  <2>1. q # DirOf(p)
    <3> SUFFICES ASSUME q = DirOf(p) PROVE FALSE
      OBVIOUS
    <3>1. q \notin manifest /\ vfs[q] = Dir /\ opfs'[q] = Dir
      BY <1>1, <1>5 DEF LinksApart
    <3> QED
      BY <1>0, <3>1, Kinds DEF Owed, Mirrored
  <2>2. Owed(q)
    BY <1>0, <1>1, <2>1 DEF Owed, Mirrored
  <2> QED
    BY <1>11, <1>14, <2>2, DirFacts DEF Pending, Coming
<1>16. Succeeded'
  <2> SUFFICES ASSUME NEW q \in Paths
      PROVE /\ run'[q].pc \in Working => Len(chain'[q]) > 1 \/ ByDir(q)' \/ Fresh(q)'
            /\ Records(q)' => Len(chain'[q]) > 1 \/ ByDir(q)' \/ vfs'[q] = Link
            /\ Removing(q)' => /\ Len(chain'[q]) > 1 \/ vfs'[q] = None
                               /\ ~workload.again \/ IsDir(q) => vfs'[q] = None
    BY <1>0 DEF Succeeded
  <2>1. CASE q # p
    <3>1. (Removing(q)' <=> Removing(q)) /\ (Fresh(q)' <=> Fresh(q))
      BY <1>0, <1>3, <1>4, <2>1 DEF Removing, Fresh, Present
    <3> QED
      BY <1>0, <1>3, <1>4, <1>11, <2>1, <3>1 DEF Succeeded
  <2>2. CASE q = p
    <3>1. ~Removing(p)'
      BY <1>3, <1>4 DEF Removing
    <3> QED
      BY <1>4, <1>12, <2>2, <3>1
  <2> QED
    BY <2>1, <2>2
<1>17. RecordsFirst'
  BY <1>0, <1>4, <1>14, DirFacts DEF RecordsFirst
<1>18. UnluckyDirs' /\ Flushed'
  BY <1>0 DEF UnluckyDirs, Flushed, Present
<1> QED
  BY <1>6, <1>7, <1>8, <1>9, <1>10, <1>15, <1>16, <1>17, <1>18

\* A step that changes neither tree, nor OPFS, nor the manifest, that starts no
\* writing and that loses nothing pending.
LEMMA QuietStep ==
  ASSUME Typed, Typed', Remembered, Alone',
         UNCHANGED <<guestVars, opfs, manifest, unlucky>>,
         \A d \in Dirs : /\ cache'[d] \in {"asked", "ready"} => cache[d] \in {"asked", "ready"}
                         /\ cache[d] = "none" => cache'[d] = "none",
         \A q \in Paths :
           /\ run'[q].ver <= ops
           /\ run'[q].pc \in Working => run[q].pc \in Working /\ run'[q].ver = run[q].ver
           /\ run'[q].pc = "writable" => run[q].pc = "writable"
           /\ Records(q)' => Records(q)
           /\ Removing(q)' => Removing(q)
           /\ chain'[q] = chain[q] \/ (run'[q].pc \in {"off", "begin"} /\ chain[q] # <<>>)
           /\ OwnPending(q) => OwnPending(q)',
         \A i, j \in 1..Len(mqueue') :
           /\ mqueue'[i].op = "record" /\ mqueue'[j].op = "removeUnder"
           /\ mqueue'[j].by = DirOf(mqueue'[i].by)
           => i < j,
         Flushed'
  PROVE  Remembered'
<1> USE DEF Remembered
<1>0. UNCHANGED <<vfs, ops, gone, since, workload, opfs, manifest, unlucky>>
  BY DEF guestVars
<1>1. \A q \in Paths : Records(q)' \/ Removing(q)' \/ run'[q].pc \in Working => chain'[q] = chain[q]
  <2> SUFFICES ASSUME NEW q \in Paths, Records(q)' \/ Removing(q)' \/ run'[q].pc \in Working
               PROVE  chain'[q] = chain[q]
    OBVIOUS
  <2>1. Records(q)' \/ Unlinks(q)' => run'[q].pc = "manifest"
    BY DEF Typed, Awaits, Records, Unlinks
  <2>2. run'[q].pc \notin {"off", "begin"}
    BY <2>1 DEF Removing, Working
  <2> QED
    BY <2>2
<1>2. \A q \in Paths : Fresh(q) /\ run'[q].ver = run[q].ver => Fresh(q)'
  BY <1>0 DEF Fresh, Present
<1>3. \A q \in Paths : ByDir(q)' <=> ByDir(q)
  BY <1>0 DEF ByDir
<1>4. Versions'
  BY <1>0 DEF Versions
<1>5. Trees'
  BY <1>0, DirFacts DEF Trees, Present
<1>6. Once'
  <2>1. ASSUME NEW q \in Paths, ~workload.again \/ IsDir(q), vfs[q] = None, q \notin gone
        PROVE  chain'[q] = <<>> /\ (IsDir(q) => cache'[q[1]] = "none")
    <3>1. chain[q] = <<>> /\ (IsDir(q) => cache[q[1]] = "none") /\ q[1] \in Dirs
      BY <2>1, DirFacts DEF Once
    <3> QED
      BY <3>1
  <2> QED
    BY <1>0, <2>1 DEF Once
<1>7. LinksApart'
  BY <1>0 DEF LinksApart
<1>8. Succeeded'
  BY <1>0, <1>1, <1>2, <1>3 DEF Succeeded
<1>9. Pending'
  <2>1. \A q \in Paths : Owed(q)' <=> Owed(q)
    BY <1>0 DEF Owed, Mirrored
  <2> QED
    BY <1>3, <2>1, DirFacts DEF Pending, Coming
<1>10. RecordsFirst'
  BY <1>0, DirFacts DEF RecordsFirst
<1>11. UnluckyDirs'
  BY <1>0 DEF UnluckyDirs
<1> QED
  BY <1>4, <1>5, <1>6, <1>7, <1>8, <1>9, <1>10, <1>11

\* A queue without its head.
LEMMA ShorterQueue ==
  ASSUME NEW S, NEW s \in Seq(S), s # <<>>
  PROVE  /\ Len(Tail(s)) = Len(s) - 1 /\ Len(s) \in Nat \ {0}
         /\ \A i \in 1..Len(Tail(s)) : Tail(s)[i] = s[i + 1] /\ i + 1 \in 1..Len(s)
         /\ Len(s) > 1 => Tail(s) # <<>>
<1>1. /\ Tail(s) \in Seq(S) /\ Len(Tail(s)) = Len(s) - 1 /\ Len(s) \in Nat \ {0}
      /\ \A i \in 1..Len(s) - 1 : Tail(s)[i] = s[i + 1]
  OBVIOUS
<1>2. \A i \in 1..Len(Tail(s)) : Tail(s)[i] = s[i + 1] /\ i + 1 \in 1..Len(s)
  BY <1>1
<1>3. \A t \in Seq(S) : Len(t) # 0 => t # <<>>
  OBVIOUS
<1>4. Len(s) > 1 => Len(Tail(s)) # 0
  BY <1>1
<1>5. Len(s) > 1 => Tail(s) # <<>>
  BY <1>1, <1>3, <1>4, Zenon
<1> QED
  BY <1>1, <1>2, <1>5

\* What a flush that moves on still waits for.
LEMMA ProgressFacts ==
  ASSUME NEW f \in Flushes
  PROVE  /\ Progress(f).left = f.left
         /\ \/ Progress(f).state = f.state
            \/ /\ f.state = "waiting" /\ Progress(f).state = "done"
               /\ \A q \in Paths : f.left[q] = 0
BY DEF Progress, Flushes

\* The flush moves on and waits for the same tails.
LEMMA FlushedStill ==
  ASSUME Flushed, UNCHANGED <<vfs, since, chain>>, flush'.left = flush.left,
         \/ flush'.state = flush.state
         \/ flush'.state = "rejected"
         \/ flush.state = "waiting" /\ flush'.state = "done" /\ \A q \in Paths : flush.left[q] = 0
  PROVE  Flushed'
BY DEF Flushed, Present

\* A path gets a slot, or waits for one.
LEMMA AcquireKeeps ==
  ASSUME Typed, Typed', Remembered, NEW p \in Paths, Acquire(p)
  PROVE  Remembered'
<1>1. /\ UNCHANGED <<guestVars, chain, cache, opfs, manifestVars, flush, unlucky>>
      /\ run[p].pc = "off"
  BY DEF Acquire, Idle, Running
<1>2. \A q \in Paths : run'[q] = run[q] \/ (q = p /\ run'[q] = At("begin", p, 0, {}))
  BY DEF Acquire, Typed, MirrorTypes
<1>3. \A q \in Paths : run'[q] = run[q] \/ (/\ q = p /\ run'[q].pc = "begin" /\ run'[q].path = p
                                           /\ run'[q].ver = 0 /\ run'[q].todo = {})
  BY <1>2 DEF At
<1>4. /\ \A q : Records(q)' <=> Records(q)
      /\ \A q : Unlinks(q)' <=> Unlinks(q)
      /\ UNCHANGED <<vfs, opfs, chain, mqueue, since>>
  BY <1>1, SameQueue DEF manifestVars, guestVars
<1>5. Alone'
  <2>2. ASSUME NEW q \in Paths
        PROVE  /\ q \in Running' => run'[q].path = q /\ run'[q].todo = {}
               /\ run'[q].pc # "doomed"
               /\ IsDir(q) => run'[q].pc \notin {"find", "file", "writable"}
    <3>1. run'[q] = run[q] => (q \in Running' <=> q \in Running)
      BY DEF Running
    <3> QED
      BY <1>3, <3>1 DEF Remembered, Alone
  <2> QED
    BY <1>1, <1>4, <2>2 DEF Remembered, Alone
<1>6. ASSUME NEW q \in Paths
      PROVE  /\ run'[q].ver <= ops
             /\ run'[q].pc \in Working => run[q].pc \in Working /\ run'[q].ver = run[q].ver
             /\ run'[q].pc = "writable" => run[q].pc = "writable"
             /\ Records(q)' => Records(q)
             /\ Removing(q)' => Removing(q)
             /\ chain'[q] = chain[q] \/ (run'[q].pc \in {"off", "begin"} /\ chain[q] # <<>>)
             /\ OwnPending(q) => OwnPending(q)'
  <2>1. CASE run'[q] = run[q]
    <3>1. OwnPending(q) => OwnPending(q)'
      BY <1>4, <2>1, OwnPendingKept
    <3> QED
      BY <1>4, <2>1, <3>1 DEF Remembered, Versions, Removing
  <2>2. CASE q = p /\ run'[q].pc = "begin" /\ run'[q].ver = 0
    <3>1. OwnPending(q) => OwnPending(q)'
      BY <1>4, <2>2 DEF OwnPending, OnTrack
    <3>2. run'[q].ver <= ops
      BY <2>2, PathFacts
    <3>3. Removing(q)' => Removing(q)
      BY <1>4, <2>2 DEF Removing
    <3> QED
      BY <1>4, <2>2, <3>1, <3>2, <3>3 DEF Working
  <2> QED
    BY <1>3, <2>1, <2>2
<1>7. Flushed'
  BY <1>1, <1>4, FlushedStill DEF Remembered
<1> QED
  BY <1>1, <1>4, <1>5, <1>6, <1>7, QuietStep DEF Remembered, RecordsFirst, manifestVars

\* A task that is over: what was notified since is another one's.
LEMMA EndKeeps ==
  ASSUME Typed, Typed', Remembered, NEW p \in Paths, run[p].pc = "next", End(p),
         UNCHANGED <<guestVars, cache, opfs, manifestVars, unlucky>>
  PROVE  Remembered'
<1>1. /\ run \in [Paths -> Tasks] /\ waiting \in Seq(Paths)
      /\ chain \in [Paths -> Seq(BOOLEAN)] /\ flush \in Flushes
      /\ chain[p] # <<>> /\ p \in Running
  BY SomewhereRuns, RunningTask DEF Typed, MirrorTypes
<1>2. /\ chain'[p] = Tail(chain[p])
      /\ \A q \in Paths : q # p => chain'[q] = chain[q]
  BY <1>1 DEF End
<1>3. /\ Len(chain'[p]) = Len(chain[p]) - 1 /\ Len(chain[p]) \in Nat \ {0}
      /\ \A i \in 1..Len(chain'[p]) : chain'[p][i] = chain[p][i + 1] /\ i + 1 \in 1..Len(chain[p])
      /\ Len(chain[p]) > 1 => chain'[p] # <<>>
  <2>1. chain[p] \in Seq(BOOLEAN)
    BY <1>1
  <2> QED
    BY <1>1, <1>2, <2>1, ShorterQueue, Zenon
<1>4. \A q \in Paths : \/ q # p /\ run'[q] = run[q]
                       \/ q = p /\ run'[q] = Off
                       \/ q # p /\ q \notin Running /\ run'[q] = At("begin", q, 0, {})
  <2>1. CASE waiting = <<>>
    BY <1>1, <2>1 DEF End
  <2>2. CASE waiting # <<>>
    <3>1. PICK h \in Paths : h = Head(waiting)
      BY <1>1, <2>2
    <3>2. 1 \in 1..Len(waiting) /\ h = waiting[1]
      BY <1>1, <2>2, <3>1
    <3>3. h \notin Running /\ h # p
      BY <1>1, <3>2 DEF Typed, Slots
    <3>4. run' = [[run EXCEPT ![p] = Off] EXCEPT ![h] = At("begin", h, 0, {})]
      BY <2>2, <3>1 DEF End
    <3> QED
      BY <1>1, <3>3, <3>4
  <2> QED
    BY <2>1, <2>2
<1>5. \A q \in Paths : \/ q # p /\ run'[q] = run[q]
                       \/ q = p /\ run'[q].pc = "off" /\ run'[q].ver = 0
                       \/ /\ q # p /\ q \notin Running
                          /\ run'[q].pc = "begin" /\ run'[q].ver = 0
                          /\ run'[q].path = q /\ run'[q].todo = {}
  <2>1. /\ Off.pc = "off" /\ Off.ver = 0
        /\ \A q : LET t == At("begin", q, 0, {}) IN
              t.pc = "begin" /\ t.ver = 0 /\ t.path = q /\ t.todo = {}
    BY DEF Off, At
  <2> QED
    BY <1>4, <2>1
<1>6. /\ \A q : Records(q)' <=> Records(q)
      /\ \A q : Unlinks(q)' <=> Unlinks(q)
      /\ UNCHANGED <<vfs, opfs, mqueue, since, manifest, cache>>
  BY SameQueue DEF manifestVars, guestVars
<1>7. Alone'
  <2>1. ASSUME NEW q \in Paths
        PROVE  /\ q \in Running' => run'[q].path = q /\ run'[q].todo = {}
               /\ run'[q].pc # "doomed"
               /\ IsDir(q) => run'[q].pc \notin {"find", "file", "writable"}
    <3>1. run'[q] = run[q] => (q \in Running' <=> q \in Running)
      BY DEF Running
    <3>2. run'[q].pc = "off" => q \notin Running'
      BY DEF Running
    <3> QED
      BY <1>5, <3>1, <3>2 DEF Remembered, Alone
  <2>2. ASSUME NEW q \in Paths, NEW i \in 1..Len(chain'[q])
        PROVE  ~chain'[q][i]
    BY <1>2, <1>3 DEF Remembered, Alone
  <2> QED
    BY <1>6, <2>1, <2>2 DEF Remembered, Alone
<1>8. ASSUME NEW q \in Paths
      PROVE  /\ run'[q].ver <= ops
             /\ run'[q].pc \in Working => run[q].pc \in Working /\ run'[q].ver = run[q].ver
             /\ run'[q].pc = "writable" => run[q].pc = "writable"
             /\ Records(q)' => Records(q)
             /\ Removing(q)' => Removing(q)
             /\ chain'[q] = chain[q] \/ (run'[q].pc \in {"off", "begin"} /\ chain[q] # <<>>)
             /\ OwnPending(q) => OwnPending(q)'
  <2>1. CASE q # p /\ run'[q] = run[q]
    <3>1. OwnPending(q) => OwnPending(q)'
      BY <1>2, <1>6, <2>1, OwnPendingKept
    <3> QED
      BY <1>2, <1>6, <2>1, <3>1 DEF Remembered, Versions, Removing
  <2>2. CASE q = p /\ run'[q].pc = "off" /\ run'[q].ver = 0
    <3>1. OwnPending(q) => OwnPending(q)'
      BY <1>3, <2>2 DEF OwnPending, OnTrack, Working
    <3>2. run'[q].ver <= ops
      BY <2>2, PathFacts
    <3>3. Removing(q)' => Removing(q)
      BY <1>6, <2>2 DEF Removing
    <3> QED
      BY <1>1, <1>6, <2>2, <3>1, <3>2, <3>3 DEF Working
  <2>3. CASE q # p /\ q \notin Running /\ run'[q].pc = "begin" /\ run'[q].ver = 0
    <3>1. OwnPending(q) => OwnPending(q)'
      BY <1>2, <2>3 DEF OwnPending, OnTrack
    <3>2. run'[q].ver <= ops
      BY <2>3, PathFacts
    <3>3. Removing(q)' => Removing(q)
      BY <1>6, <2>3 DEF Removing
    <3> QED
      BY <1>2, <1>6, <2>3, <3>1, <3>2, <3>3 DEF Working
  <2> QED
    BY <1>5, <2>1, <2>2, <2>3
<1>9. Flushed'
  <2>1. PICK f : f = [flush EXCEPT !.left[p] = IF flush.left[p] > 0 THEN flush.left[p] - 1 ELSE 0]
    OBVIOUS
  <2>2. /\ flush.left \in [Paths -> Nat] /\ flush.left[p] \in Nat
    BY <1>1 DEF Flushes
  <2>3. (IF flush.left[p] > 0 THEN flush.left[p] - 1 ELSE 0) \in Nat
    BY <2>2
  <2>4. /\ f \in Flushes /\ f.state = flush.state
        /\ f.left = [flush.left EXCEPT ![p] = IF flush.left[p] > 0 THEN flush.left[p] - 1 ELSE 0]
    BY <1>1, <2>1, <2>2, <2>3 DEF Flushes
  <2>5. flush' = Progress(f)
    BY <2>1 DEF End
  <2>6. /\ flush'.left = f.left
        /\ \/ flush'.state = flush.state
           \/ flush.state = "waiting" /\ flush'.state = "done" /\ \A q \in Paths : f.left[q] = 0
    BY <2>4, <2>5, ProgressFacts
  <2>7. /\ f.left[p] = IF flush.left[p] > 0 THEN flush.left[p] - 1 ELSE 0
        /\ \A q \in Paths : q # p => f.left[q] = flush.left[q]
    BY <2>2, <2>4
  <2>8. ASSUME NEW q \in Paths, flush'.state \in {"waiting", "done"}, q \notin since
        PROVE  Len(chain'[q]) = flush'.left[q]
    <3>1. flush.state \in {"waiting", "done"}
      BY <2>6, <2>8
    <3>2. Len(chain[q]) = flush.left[q]
      BY <2>8, <3>1 DEF Remembered, Flushed
    <3>3. CASE q = p
      <4>1. flush.left[p] > 0 /\ flush'.left[p] = flush.left[p] - 1
        BY <1>3, <2>6, <2>7, <3>2, <3>3
      <4> QED
        BY <1>3, <3>2, <3>3, <4>1
    <3>4. CASE q # p
      BY <1>2, <2>6, <2>7, <3>2, <3>4
    <3> QED
      BY <3>3, <3>4
  <2>9. flush'.state = "done" => \A q \in Paths : flush'.left[q] = 0
    <3>1. flush.state = "done" => \A q \in Paths : flush.left[q] = 0
      BY DEF Remembered, Flushed
    <3> QED
      BY <2>2, <2>6, <2>7, <3>1
  <2>10. flush'.state = "none" => flush.state = "none"
    BY <2>6
  <2> QED
    BY <1>6, <2>8, <2>9, <2>10 DEF Remembered, Flushed, Present
<1> QED
  BY <1>6, <1>7, <1>8, <1>9, QuietStep DEF Remembered, RecordsFirst

\* A directory's handle comes for all who wait for it.
LEMMA HandleCameKeeps ==
  ASSUME Typed, Typed', Remembered, NEW d \in Dirs, HandleCame(d)
  PROVE  Remembered'
<1>1. /\ UNCHANGED <<guestVars, chain, waiting, opfs, manifestVars, flush, unlucky>>
      /\ cache' = IF cache[d] = "asked" THEN [cache EXCEPT ![d] = "ready"] ELSE cache
      /\ cache \in [Dirs -> {"none", "asked", "doomed", "ready", "failed"}]
      /\ run \in [Paths -> Tasks]
  BY DEF HandleCame, Typed, MirrorTypes
<1>2. \A q \in Paths : \/ run'[q] = run[q]
                       \/ run[q].pc = "asked" /\ run'[q] = [run[q] EXCEPT !.pc = "go"]
  BY DEF HandleCame, Resume, Waiters
<1>3. \A q \in Paths : \/ run'[q] = run[q]
                       \/ /\ run[q].pc = "asked" /\ run'[q].pc = "go"
                          /\ run'[q].path = run[q].path /\ run'[q].ver = run[q].ver
                          /\ run'[q].todo = run[q].todo
  <2>1. ASSUME NEW q \in Paths, run'[q] = [run[q] EXCEPT !.pc = "go"]
        PROVE  /\ run'[q].pc = "go" /\ run'[q].path = run[q].path
               /\ run'[q].ver = run[q].ver /\ run'[q].todo = run[q].todo
    <3>1. PICK t \in Tasks : t = run[q]
      BY <1>1
    <3>2. run'[q] = [t EXCEPT !.pc = "go"]
      BY <2>1, <3>1
    <3> QED
      BY <3>1, <3>2, PcIsTask DEF PCs
  <2> QED
    BY <1>2, <2>1
<1>4. /\ \A q : Records(q)' <=> Records(q)
      /\ \A q : Unlinks(q)' <=> Unlinks(q)
      /\ UNCHANGED <<vfs, opfs, chain, mqueue, since>>
  BY <1>1, SameQueue DEF manifestVars, guestVars
<1>5. \A e \in Dirs : /\ cache'[e] \notin {"doomed", "failed"}
                      /\ cache'[e] \in {"asked", "ready"} => cache[e] \in {"asked", "ready"}
                      /\ cache[e] = "none" => cache'[e] = "none"
  BY <1>1 DEF Remembered, Alone
<1>6. Alone'
  <2>1. ASSUME NEW q \in Paths
        PROVE  /\ q \in Running' => run'[q].path = q /\ run'[q].todo = {}
               /\ run'[q].pc # "doomed"
               /\ IsDir(q) => run'[q].pc \notin {"find", "file", "writable"}
    <3>1. q \in Running' => q \in Running
      BY <1>3 DEF Running
    <3> QED
      BY <1>3, <3>1 DEF Remembered, Alone
  <2> QED
    BY <1>4, <1>5, <2>1 DEF Remembered, Alone
<1>7. ASSUME NEW q \in Paths
      PROVE  /\ run'[q].ver <= ops
             /\ run'[q].pc \in Working => run[q].pc \in Working /\ run'[q].ver = run[q].ver
             /\ run'[q].pc = "writable" => run[q].pc = "writable"
             /\ Records(q)' => Records(q)
             /\ Removing(q)' => Removing(q)
             /\ chain'[q] = chain[q] \/ (run'[q].pc \in {"off", "begin"} /\ chain[q] # <<>>)
             /\ OwnPending(q) => OwnPending(q)'
  <2>1. CASE run'[q] = run[q]
    <3>1. OwnPending(q) => OwnPending(q)'
      BY <1>4, <2>1, OwnPendingKept
    <3> QED
      BY <1>4, <2>1, <3>1 DEF Remembered, Versions, Removing
  <2>2. CASE run[q].pc = "asked" /\ run'[q].pc = "go" /\ run'[q].ver = run[q].ver
    <3>1. OwnPending(q) => OwnPending(q)'
      BY <1>4, <2>2 DEF OwnPending, OnTrack, Working, Fresh, Present
    <3>2. Removing(q)' => Removing(q)
      BY <1>4, <2>2 DEF Removing
    <3> QED
      BY <1>4, <2>2, <3>1, <3>2 DEF Working, Remembered, Versions
  <2> QED
    BY <1>3, <2>1, <2>2
<1>8. Flushed'
  BY <1>1, <1>4, FlushedStill DEF Remembered
<1> QED
  BY <1>1, <1>4, <1>5, <1>6, <1>7, <1>8, QuietStep DEF Remembered, RecordsFirst, manifestVars

\* What an operation that settles leaves of the manifest's queue and its task.
LEMMA SettleDoes ==
  ASSUME Typed, Remembered, mqueue # <<>>, NEW bad \in BOOLEAN, Settle(bad),
         UNCHANGED <<vfs, since, chain, cache, ops>>
  PROVE  /\ Alone' /\ Flushed'
         /\ \A i, j \in 1..Len(mqueue') :
              /\ mqueue'[i].op = "record" /\ mqueue'[j].op = "removeUnder"
              /\ mqueue'[j].by = DirOf(mqueue'[i].by)
              => i < j
         /\ \E p \in Paths :
              /\ Head(mqueue).path = p /\ run[p].pc = "manifest" /\ run'[p].pc = "next"
              /\ run'[p].ver <= ops
              /\ Records(p) <=> Head(mqueue).op = "record"
              /\ Unlinks(p) <=> Head(mqueue).op = "removeUnder"
              /\ ~Records(p)' /\ ~Unlinks(p)'
              /\ \A q \in Paths : q # p => /\ run'[q] = run[q]
                                           /\ Records(q)' <=> Records(q)
                                           /\ Unlinks(q)' <=> Unlinks(q)
<1>1. /\ mqueue \in Seq(Entries) /\ run \in [Paths -> Tasks] /\ flush \in Flushes
  BY DEF Typed, MirrorTypes
<1>2. /\ Len(mqueue') = Len(mqueue) - 1 /\ Len(mqueue) \in Nat \ {0}
      /\ \A i \in 1..Len(mqueue) - 1 : mqueue'[i] = mqueue[i + 1]
      /\ Head(mqueue) = mqueue[1] /\ mqueue[1] \in Entries
  BY <1>1 DEF Settle
<1>3. PICK p \in Paths : p = Head(mqueue).by /\ p = Head(mqueue).path
  <2>1. Head(mqueue).by \in Paths /\ 1 \in 1..Len(mqueue)
    BY <1>2 DEF Entries
  <2> QED
    BY <1>2, <2>1 DEF Remembered, Alone
<1>4. /\ run[p].pc = "manifest"
      /\ \A i \in 1..Len(mqueue) : mqueue[i].by = p => i = 1
  <2>1. 1 \in 1..Len(mqueue) /\ mqueue[1].by = p
    BY <1>2, <1>3
  <2> QED
    BY <2>1 DEF Typed, Awaits
<1>5. \A i \in 1..Len(mqueue') : i + 1 \in 1..Len(mqueue) /\ mqueue'[i] = mqueue[i + 1]
  BY <1>2
<1>6. \A i \in 1..Len(mqueue) : i # 1 => i - 1 \in 1..Len(mqueue') /\ mqueue'[i - 1] = mqueue[i]
  BY <1>2
<1>7. /\ Records(p) <=> Head(mqueue).op = "record"
      /\ Unlinks(p) <=> Head(mqueue).op = "removeUnder"
  BY <1>2, <1>3, <1>4 DEF Records, Unlinks
<1>8. ~Records(p)' /\ ~Unlinks(p)'
  <2>1. \A i \in 1..Len(mqueue') : mqueue'[i].by # p
    BY <1>2, <1>4, <1>5
  <2> QED
    BY <2>1 DEF Records, Unlinks
<1>9. ASSUME NEW q \in Paths, q # p
      PROVE  (Records(q)' <=> Records(q)) /\ (Unlinks(q)' <=> Unlinks(q))
  <2>1. \A i \in 1..Len(mqueue) : mqueue[i].by = q => i # 1
    BY <1>2, <1>3, <1>9
  <2>2. ASSUME NEW i \in 1..Len(mqueue), mqueue[i].by = q
        PROVE  \E j \in 1..Len(mqueue') : mqueue'[j] = mqueue[i]
    BY <1>6, <2>1, <2>2
  <2>3. ASSUME NEW j \in 1..Len(mqueue')
        PROVE  \E i \in 1..Len(mqueue) : mqueue[i] = mqueue'[j]
    BY <1>5
  <2>4. Records(q)' <=> Records(q)
    BY <2>2, <2>3 DEF Records
  <2>5. Unlinks(q)' <=> Unlinks(q)
    BY <2>2, <2>3 DEF Unlinks
  <2> QED
    BY <2>4, <2>5
<1>10. PICK t : t = At("next", run[p].path, run[p].ver, IF bad THEN {} ELSE run[p].todo)
  OBVIOUS
<1>11. /\ run'[p] = t /\ \A q \in Paths : q # p => run'[q] = run[q]
       /\ p \in Running
  BY <1>1, <1>3, <1>4, <1>10, SomewhereRuns DEF Settle
<1>12. /\ t.pc = "next" /\ t.path = p /\ t.ver = run[p].ver /\ t.todo = {}
  <2>1. run[p].path = p /\ run[p].todo = {}
    BY <1>11 DEF Remembered, Alone
  <2> QED
    BY <1>10, <2>1 DEF At
<1>13. Alone'
  <2>1. Running' = Running
    BY <1>4, <1>11, <1>12 DEF Running
  <2>2. \A i \in 1..Len(mqueue') : mqueue'[i].path = mqueue'[i].by
    BY <1>5 DEF Remembered, Alone
  <2> QED
    BY <1>11, <1>12, <2>1, <2>2 DEF Remembered, Alone
<1>14. ASSUME NEW i \in 1..Len(mqueue'), NEW j \in 1..Len(mqueue'),
              mqueue'[i].op = "record", mqueue'[j].op = "removeUnder",
              mqueue'[j].by = DirOf(mqueue'[i].by)
       PROVE  i < j
  <2>1. i + 1 < j + 1
    BY <1>5, <1>14 DEF Remembered, RecordsFirst
  <2> QED
    BY <1>2, <2>1
<1>15. Flushed'
  <2>1. flush.mleft \in Nat
    BY <1>1 DEF Flushes
  <2>2. PICK f : f = [flush EXCEPT !.mleft = IF flush.mleft > 0 THEN flush.mleft - 1 ELSE 0]
    OBVIOUS
  <2>3. (IF flush.mleft > 0 THEN flush.mleft - 1 ELSE 0) \in Nat
    BY <2>1
  <2>4. f \in Flushes /\ f.left = flush.left /\ f.state = flush.state
    BY <1>1, <2>2, <2>3 DEF Flushes
  <2>5. flush' = Progress(f) \/ flush' = [flush EXCEPT !.state = "rejected"]
    BY <2>2 DEF Settle
  <2>6. CASE flush' = Progress(f)
    BY <2>4, <2>6, ProgressFacts, FlushedStill DEF Remembered
  <2>7. CASE flush' = [flush EXCEPT !.state = "rejected"]
    <3>1. flush'.state = "rejected" /\ flush'.left = flush.left
      BY <1>1, <2>7 DEF Flushes
    <3> QED
      BY <3>1, FlushedStill DEF Remembered
  <2> QED
    BY <2>5, <2>6, <2>7
<1>16. run'[p].ver <= ops
  BY <1>11, <1>12 DEF Remembered, Versions
<1> QED
  BY <1>3, <1>4, <1>7, <1>8, <1>9, <1>11, <1>12, <1>13, <1>14, <1>15, <1>16

\* The manifest's next operation starts; a link that is gone is not put on record.
LEMMA ManifestStartKeeps ==
  ASSUME Typed, Typed', Remembered, ManifestStart
  PROVE  Remembered'
<1>1. /\ UNCHANGED <<guestVars, chain, waiting, cache, opfs, manifest, unlucky>>
      /\ UNCHANGED <<vfs, since, ops>> /\ mqueue # <<>>
  BY DEF ManifestStart, guestVars
<1>2. CASE mbusy' = TRUE /\ UNCHANGED <<mqueue, poisoned, run, flush>>
  <2>1. /\ \A q : Records(q)' <=> Records(q)
        /\ \A q : Unlinks(q)' <=> Unlinks(q)
    BY <1>2, SameQueue
  <2>2. \A q \in Paths : OwnPending(q) => OwnPending(q)'
    BY <1>1, <1>2, <2>1, OwnPendingKept
  <2>3. \A q \in Paths : Removing(q)' <=> Removing(q)
    BY <1>2, <2>1 DEF Removing
  <2>4. Alone'
    <3>1. Running' = Running
      BY <1>2 DEF Running
    <3> QED
      BY <1>1, <1>2, <3>1 DEF Remembered, Alone
  <2>5. Flushed'
    BY <1>1, <1>2, FlushedStill DEF Remembered
  <2> QED
    BY <1>1, <1>2, <2>1, <2>2, <2>3, <2>4, <2>5, QuietStep DEF Remembered, RecordsFirst, Versions
<1>3. CASE Settle(TRUE) /\ Head(mqueue).op = "record" /\ vfs[Head(mqueue).path].kind # "link"
  <2>1. PICK bad \in BOOLEAN : Settle(bad)
    BY <1>3
  <2>2. PICK p \in Paths :
              /\ Head(mqueue).path = p /\ run[p].pc = "manifest" /\ run'[p].pc = "next"
              /\ run'[p].ver <= ops
              /\ Records(p) <=> Head(mqueue).op = "record"
              /\ Unlinks(p) <=> Head(mqueue).op = "removeUnder"
              /\ ~Records(p)' /\ ~Unlinks(p)'
              /\ \A q \in Paths : q # p => /\ run'[q] = run[q]
                                           /\ Records(q)' <=> Records(q)
                                           /\ Unlinks(q)' <=> Unlinks(q)
    BY <1>1, <2>1, SettleDoes
  <2>3. /\ Alone' /\ Flushed'
        /\ \A i, j \in 1..Len(mqueue') :
              /\ mqueue'[i].op = "record" /\ mqueue'[j].op = "removeUnder"
              /\ mqueue'[j].by = DirOf(mqueue'[i].by)
              => i < j
    BY <1>1, <2>1, SettleDoes
  <2>4. vfs[p] # Link /\ ~Unlinks(p)
    BY <1>3, <2>2, Kinds
  <2>5. OwnPending(p) => OwnPending(p)'
    BY <1>1, <2>2, <2>4 DEF OwnPending, OnTrack, Working
  <2>6. \A q \in Paths : OwnPending(q) => OwnPending(q)'
    BY <1>1, <2>2, <2>5, OwnPendingKept
  <2>7. \A q \in Paths : Removing(q)' => Removing(q)
    BY <2>2 DEF Removing
  <2>8. ASSUME NEW q \in Paths
        PROVE  /\ run'[q].ver <= ops
               /\ run'[q].pc \in Working => run[q].pc \in Working /\ run'[q].ver = run[q].ver
               /\ run'[q].pc = "writable" => run[q].pc = "writable"
               /\ Records(q)' => Records(q)
    BY <2>2 DEF Remembered, Versions, Working
  <2> QED
    BY <1>1, <2>3, <2>6, <2>7, <2>8, QuietStep
<1> QED
  BY <1>2, <1>3 DEF ManifestStart

\* A flush is asked for: it waits for all that is queued.
LEMMA AskFlushKeeps ==
  ASSUME Typed, Typed', Remembered, AskFlush
  PROVE  Remembered'
<1>1. /\ UNCHANGED <<guestVars, taskVars, cache, opfs, manifestVars, unlucky>>
      /\ UNCHANGED <<vfs, since, chain, run, mqueue, cache, opfs, manifest>>
      /\ flush.state = "none"
  BY DEF AskFlush, guestVars, taskVars, manifestVars
<1>2. /\ \A q : Records(q)' <=> Records(q)
      /\ \A q : Unlinks(q)' <=> Unlinks(q)
  BY <1>1, SameQueue
<1>3. \A q \in Paths : OwnPending(q) => OwnPending(q)'
  BY <1>1, <1>2, OwnPendingKept
<1>4. \A q \in Paths : Removing(q)' <=> Removing(q)
  BY <1>1, <1>2 DEF Removing
<1>5. Alone'
  <2>1. Running' = Running
    BY <1>1 DEF Running
  <2> QED
    BY <1>1, <2>1 DEF Remembered, Alone
<1>6. Flushed'
  <2>1. flush \in Flushes /\ mqueue \in Seq(Entries) /\ since = {}
    BY <1>1 DEF Typed, MirrorTypes, Remembered, Flushed
  <2>2. PICK f : f = [state |-> "waiting", left |-> [q \in Paths |-> Len(chain[q])],
                      mleft |-> Len(mqueue)]
    OBVIOUS
  <2>3. /\ f.state = "waiting" /\ \A q \in Paths : f.left[q] = Len(chain[q])
    BY <2>2
  <2>4. f \in Flushes
    <3>1. \A q \in Paths : Len(chain[q]) \in Nat
      BY PathFacts
    <3> QED
      BY <2>1, <2>2, <3>1 DEF Flushes
  <2>5. flush' = Progress(f) \/ flush' = [flush EXCEPT !.state = "rejected"]
    BY <2>2 DEF AskFlush
  <2>6. CASE flush' = Progress(f)
    <3>1. /\ flush'.left = f.left /\ flush'.state # "none"
          /\ flush'.state = "done" => \A q \in Paths : f.left[q] = 0
      BY <2>3, <2>4, <2>6, ProgressFacts
    <3> QED
      BY <1>1, <2>1, <2>3, <3>1 DEF Flushed
  <2>7. CASE flush' = [flush EXCEPT !.state = "rejected"]
    <3>1. flush'.state = "rejected" /\ flush'.left = flush.left
      BY <2>1, <2>7 DEF Flushes
    <3> QED
      BY <1>1, <3>1, FlushedStill DEF Remembered
  <2> QED
    BY <2>5, <2>6, <2>7
<1> QED
  BY <1>1, <1>2, <1>3, <1>4, <1>5, <1>6, QuietStep DEF Remembered, RecordsFirst, Versions

\* A directory that is gone and still in OPFS will be removed, or cannot be.
LEMMA DirStillComing ==
  ASSUME Remembered, NEW p \in Paths, ~IsDir(p), DirOf(p) \in gone, opfs[DirOf(p)] = Dir
  PROVE  p \in unlucky \/ OwnPending(DirOf(p))
<1> USE DEF Remembered
<1>1. /\ DirOf(p) \in Paths /\ IsDir(DirOf(p)) /\ DirOf(DirOf(p)) = DirOf(p)
      /\ p \in Children(DirOf(p))
  <2>1. DirOf(p) \in Paths
    BY DirFacts
  <2> QED
    BY <2>1, DirFacts
<1>2. vfs[DirOf(p)] = None
  BY <1>1 DEF Once
<1>3. ~Mirrored(DirOf(p))
  BY <1>2, Kinds DEF Mirrored
<1>4. CASE DirOf(p) \in unlucky
  BY <1>1, <1>4 DEF UnluckyDirs
<1>5. CASE DirOf(p) \notin unlucky
  BY <1>1, <1>3, <1>5 DEF Pending, Owed, Coming
<1> QED
  BY <1>4, <1>5

\* A file is created, or its content appears.
LEMMA WriteKeeps ==
  ASSUME Typed, Typed', Remembered, NEW p \in Paths, ~IsDir(p), run[p].pc \in {"go", "writable"},
         \A q \in Paths : q # p => run'[q] = run[q] /\ opfs'[q] = opfs[q],
         run'[p].path = p, run'[p].todo = {}, run'[p].ver = run[p].ver,
         run'[p].pc \in {"file", "next"},
         opfs[DirOf(p)] = Dir, opfs'[p].kind = "file", opfs'[p].ver <= ops,
         run'[p].pc = "next" /\ Fresh(p) => opfs'[p] = vfs[p],
         UNCHANGED <<guestVars, chain, waiting, cache, manifestVars, flush, unlucky>>
  PROVE  Remembered'
<1> USE DEF Remembered
<1>0. UNCHANGED <<vfs, ops, gone, since, workload, chain, cache, manifest, mqueue, flush, unlucky>>
  BY DEF guestVars, manifestVars
<1>1. /\ \A q : Records(q)' <=> Records(q)
      /\ \A q : Unlinks(q)' <=> Unlinks(q)
      /\ ~Records(p) /\ ~Unlinks(p)
  BY <1>0, SameQueue DEF Records, Unlinks, Typed, Awaits
<1>2. /\ chain[p] # <<>> /\ run[p].pc \in Working /\ ~Removing(p)
      /\ DirOf(p) \in Paths /\ DirOf(p) # p /\ IsDir(DirOf(p))
  BY <1>1, BusyHasChain, DirFacts DEF Working, Removing
<1>3. p \notin manifest /\ vfs[p] # Link
  BY <1>2 DEF LinksApart
<1>4. \A q \in Paths : ByDir(q)' <=> ByDir(q)
  BY <1>0 DEF ByDir
<1>5. Fresh(p)' <=> Fresh(p)
  BY <1>0 DEF Fresh, Present
<1>6. Alone'
  <2>1. Running' = Running
    BY DEF Running
  <2> QED
    BY <1>0, <2>1 DEF Alone
<1>7. Versions'
  BY <1>0 DEF Versions
<1>8. Trees'
  <2> SUFFICES ASSUME NEW q \in Paths
      PROVE /\ opfs'[q].kind \in (IF IsDir(q) THEN {"none", "dir"} ELSE {"none", "file"})
            /\ opfs'[q] # None => opfs'[DirOf(q)] = Dir
            /\ run'[q].pc = "writable" => opfs'[q].kind = "file"
            /\ IsDir(q) /\ Present(q) =>
                 (cache[q[1]] \in {"asked", "ready"} \/ run'[q].pc \in Working => opfs'[q] = Dir)
    BY <1>0 DEF Trees, Present
  <2>1. DirOf(q) \in Paths /\ DirOf(q) # p
    <3>1. DirOf(q) \in Paths /\ IsDir(DirOf(q))
      BY DirFacts
    <3> QED
      BY <3>1
  <2>2. CASE q = p
    BY <2>1, <2>2
  <2>3. CASE q # p
    BY <2>1, <2>3 DEF Trees
  <2> QED
    BY <2>2, <2>3
<1>9. Once'
  <2>1. ASSUME NEW q \in Paths, ~workload.again \/ IsDir(q), vfs[q] = None, q \notin gone
        PROVE  opfs'[q] = None
    BY <1>2, <2>1 DEF Once
  <2> QED
    BY <1>0, <1>1, <2>1 DEF Once
<1>10. LinksApart'
  <2> SUFFICES ASSUME NEW q \in Paths, vfs[q] = Link \/ q \in manifest \/ Records(q)
               PROVE  opfs'[q] = None /\ run'[q].pc \notin Working
    BY <1>0, <1>1 DEF LinksApart
  <2>1. q # p
    BY <1>1, <1>3
  <2> QED
    BY <2>1 DEF LinksApart
<1>11. ASSUME NEW q \in Paths, q # p, OwnPending(q) PROVE OwnPending(q)'
  BY <1>0, <1>1, <1>11, OwnPendingKept
<1>12. Owed(p)' => Coming(p)'
  <2> SUFFICES ASSUME Owed(p)' PROVE Coming(p)'
    OBVIOUS
  <2>1. CASE Len(chain[p]) > 1
    BY <1>0, <1>2, <2>1 DEF Coming, OwnPending
  <2>2. CASE ByDir(p)
    <3>1. p \in unlucky \/ OwnPending(DirOf(p))
      BY <2>2, DirStillComing DEF ByDir
    <3>2. OwnPending(DirOf(p))'
      BY <1>0, <1>2, <1>11, <3>1 DEF Owed
    <3> QED
      BY <1>4, <2>2, <3>2 DEF Coming
  <2>3. CASE Fresh(p)
    <3>1. CASE run'[p].pc = "file"
      BY <1>0, <1>2, <1>5, <2>3, <3>1 DEF Coming, OwnPending, OnTrack, Working
    <3>2. CASE run'[p].pc = "next"
      <4>1. opfs'[p] = vfs[p]
        BY <2>3, <3>2
      <4>2. Mirrored(p)'
        BY <1>0, <1>3, <4>1, PathFacts, Kinds DEF Mirrored
      <4> QED
        BY <4>2 DEF Owed
    <3> QED
      BY <3>1, <3>2
  <2> QED
    BY <1>2, <2>1, <2>2, <2>3 DEF Succeeded
<1>13. Pending'
  <2> SUFFICES ASSUME NEW q \in Paths, Owed(q)' PROVE Coming(q)'
    BY DEF Pending
  <2>1. CASE q = p
    BY <1>12, <2>1
  <2>2. CASE q # p
    <3>1. Coming(q)
      BY <1>0, <2>2 DEF Owed, Mirrored, Pending
    <3>2. DirOf(q) \in Paths /\ DirOf(q) # p
      <4>1. DirOf(q) \in Paths /\ IsDir(DirOf(q))
        BY DirFacts
      <4> QED
        BY <4>1
    <3> QED
      BY <1>4, <1>11, <2>2, <3>1, <3>2 DEF Coming
  <2> QED
    BY <2>1, <2>2
<1>14. Succeeded'
  <2> SUFFICES ASSUME NEW q \in Paths
      PROVE /\ run'[q].pc \in Working => Len(chain'[q]) > 1 \/ ByDir(q)' \/ Fresh(q)'
            /\ Records(q)' => Len(chain'[q]) > 1 \/ ByDir(q)' \/ vfs'[q] = Link
            /\ Removing(q)' => /\ Len(chain'[q]) > 1 \/ vfs'[q] = None
                               /\ ~workload.again \/ IsDir(q) => vfs'[q] = None
    BY <1>0 DEF Succeeded
  <2>1. CASE q # p
    <3>1. (Removing(q)' <=> Removing(q)) /\ (Fresh(q)' <=> Fresh(q))
      BY <1>0, <1>1, <2>1 DEF Removing, Fresh, Present
    <3> QED
      BY <1>0, <1>1, <1>4, <2>1, <3>1 DEF Succeeded
  <2>2. CASE q = p
    <3>1. ~Removing(p)'
      BY <1>1 DEF Removing
    <3> QED
      BY <1>0, <1>1, <1>2, <1>4, <1>5, <2>2, <3>1 DEF Succeeded
  <2> QED
    BY <2>1, <2>2
<1>15. RecordsFirst'
  <2>1. ASSUME NEW q \in Paths, Records(q), DirOf(q) \in gone
        PROVE  q \in unlucky \/ OwnPending(DirOf(q))'
    <3>1. DirOf(q) \in Paths /\ IsDir(DirOf(q))
      BY DirFacts
    <3>2. DirOf(q) # p
      BY <3>1
    <3> QED
      BY <1>11, <2>1, <3>1, <3>2 DEF RecordsFirst
  <2> QED
    BY <1>0, <1>1, <2>1 DEF RecordsFirst
<1>16. UnluckyDirs' /\ Flushed'
  BY <1>0 DEF UnluckyDirs, Flushed, Present
<1> QED
  BY <1>6, <1>7, <1>8, <1>9, <1>10, <1>13, <1>14, <1>15, <1>16

\* removeEntry takes what is gone, or what was made anew and has a successor.
LEMMA EntryGone ==
  ASSUME Typed, Typed', Remembered, NEW p \in Paths, ~Locked(p),
         run[p].pc \in {"begin", "find", "retry"}, run[p].pc = "begin" => ~Present(p),
         \A q \in Paths : q # p => run'[q] = run[q],
         run'[p].pc = "removed", run'[p].path = p, run'[p].ver = 0, run'[p].todo = {},
         \A q \in Paths : opfs'[q] = IF q \in Under(p) THEN None ELSE opfs[q],
         UNCHANGED <<guestVars, chain, waiting, cache, manifestVars, flush, unlucky>>
  PROVE  Remembered'
<1> USE DEF Remembered
<1>0. UNCHANGED <<vfs, ops, gone, since, workload, chain, cache, manifest, mqueue, flush, unlucky>>
  BY DEF guestVars, manifestVars
<1>1. /\ \A q : Records(q)' <=> Records(q)
      /\ \A q : Unlinks(q)' <=> Unlinks(q)
      /\ ~Records(p) /\ ~Unlinks(p)
  BY <1>0, SameQueue DEF Records, Unlinks, Typed, Awaits
<1>2. \A q \in Paths : Present(q) <=> vfs[q] # None
  BY PathFacts, Kinds DEF Present
<1>3. /\ Len(chain[p]) > 1 \/ vfs[p] = None
      /\ ~workload.again \/ IsDir(p) => vfs[p] = None
      /\ chain[p] # <<>> /\ p \in Under(p)
  <2>1. run[p].pc # "begin" => Removing(p)
    BY DEF Removing
  <2> QED
    BY <1>2, <2>1, BusyHasChain DEF Succeeded, Under
<1>4. ASSUME NEW q \in Under(p), q # p PROVE IsDir(p) /\ DirOf(q) = p /\ ~IsDir(q) /\ vfs[q] = None
  <2>1. q \in Paths /\ DirOf(q) = p /\ ~IsDir(q) /\ IsDir(p)
    <3>1. q \in Paths
      BY DEF Under, Children
    <3> QED
      BY <1>4, <3>1, DirFacts
  <2> QED
    BY <1>2, <1>3, <2>1 DEF Trees
<1>5. Alone'
  <2>1. Running' = Running
    BY DEF Running
  <2> QED
    BY <1>0, <2>1 DEF Alone
<1>6. Versions'
  BY <1>0, PathFacts, Kinds DEF Versions
<1>7. Trees'
  <2> SUFFICES ASSUME NEW q \in Paths
      PROVE /\ opfs'[q].kind \in (IF IsDir(q) THEN {"none", "dir"} ELSE {"none", "file"})
            /\ opfs'[q] # None => opfs'[DirOf(q)] = Dir
            /\ run'[q].pc = "writable" => opfs'[q].kind = "file"
            /\ IsDir(q) /\ Present(q) =>
                 (cache[q[1]] \in {"asked", "ready"} \/ run'[q].pc \in Working => opfs'[q] = Dir)
    BY <1>0 DEF Trees, Present
  <2>1. /\ opfs'[q].kind \in (IF IsDir(q) THEN {"none", "dir"} ELSE {"none", "file"})
        /\ opfs[q] # None => opfs[DirOf(q)] = Dir
    BY Kinds DEF Trees
  <2>2. DirOf(q) \in Paths /\ (DirOf(q) \in Under(p) => q \in Under(p))
    <3>1. DirOf(q) \in Paths /\ IsDir(DirOf(q))
      BY DirFacts
    <3>2. DirOf(q) \in Under(p) => DirOf(q) = p
      BY <1>4, <3>1
    <3>3. DirOf(q) = p => q = p \/ ~IsDir(q)
      BY DirFacts
    <3> QED
      BY <3>1, <3>2, <3>3, DirFacts
  <2>3. opfs'[q] # None => opfs'[DirOf(q)] = Dir
    BY <2>1, <2>2
  <2>4. run'[q].pc = "writable" => opfs'[q].kind = "file"
    <3> SUFFICES ASSUME run'[q].pc = "writable" PROVE opfs'[q].kind = "file"
      OBVIOUS
    <3>1. q # p /\ run[q].pc = "writable"
      OBVIOUS
    <3>2. q \in Running /\ run[q].path = q
      BY <3>1, SomewhereRuns DEF Alone
    <3>3. q \notin Under(p)
      BY <3>1, <3>2 DEF Locked
    <3> QED
      BY <3>1, <3>3 DEF Trees
  <2>5. IsDir(q) /\ Present(q) =>
          (cache[q[1]] \in {"asked", "ready"} \/ run'[q].pc \in Working => opfs'[q] = Dir)
    <3>1. IsDir(q) /\ Present(q) => q \notin Under(p)
      BY <1>2, <1>3, <1>4
    <3> QED
      BY <1>3, <3>1 DEF Trees
  <2> QED
    BY <2>1, <2>3, <2>4, <2>5
<1>8. Once'
  BY <1>0, <1>1 DEF Once
<1>9. LinksApart'
  BY <1>0, <1>1 DEF LinksApart, Working
<1>10. OwnPending(p) => OwnPending(p)'
  BY <1>0, <1>3 DEF OwnPending, OnTrack, Working, Fresh, Present
<1>11. \A q \in Paths : q # p /\ OwnPending(q) => OwnPending(q)'
  BY <1>0, <1>1, OwnPendingKept
<1>12. \A q \in Paths : OwnPending(q) => OwnPending(q)'
  BY <1>10, <1>11
<1>13. \A q \in Paths : ByDir(q)' <=> ByDir(q)
  BY <1>0 DEF ByDir
<1>14. Pending'
  <2> SUFFICES ASSUME NEW q \in Paths, Owed(q)' PROVE Coming(q)'
    BY DEF Pending
  <2>1. CASE Owed(q)
    BY <1>12, <1>13, <2>1, DirFacts DEF Pending, Coming
  <2>2. CASE ~Owed(q)
    <3>1. Mirrored(q) /\ q \notin unlucky
      BY <1>0, <2>2 DEF Owed
    <3>2. q \in Under(p) /\ vfs[q] # None
      BY <1>0, <3>1, Kinds DEF Owed, Mirrored
    <3>3. q = p /\ Len(chain[p]) > 1
      BY <1>3, <1>4, <3>2
    <3> QED
      BY <1>0, <1>3, <3>3 DEF Coming, OwnPending
  <2> QED
    BY <2>1, <2>2
<1>15. Succeeded'
  <2> SUFFICES ASSUME NEW q \in Paths
      PROVE /\ run'[q].pc \in Working => Len(chain'[q]) > 1 \/ ByDir(q)' \/ Fresh(q)'
            /\ Records(q)' => Len(chain'[q]) > 1 \/ ByDir(q)' \/ vfs'[q] = Link
            /\ Removing(q)' => /\ Len(chain'[q]) > 1 \/ vfs'[q] = None
                               /\ ~workload.again \/ IsDir(q) => vfs'[q] = None
    BY <1>0 DEF Succeeded
  <2>1. CASE q # p
    <3>1. (Removing(q)' <=> Removing(q)) /\ (Fresh(q)' <=> Fresh(q))
      BY <1>0, <1>1, <2>1 DEF Removing, Fresh, Present
    <3> QED
      BY <1>0, <1>1, <1>13, <2>1, <3>1 DEF Succeeded
  <2>2. CASE q = p
    BY <1>0, <1>1, <1>3, <2>2 DEF Working
  <2> QED
    BY <2>1, <2>2
<1>16. RecordsFirst'
  BY <1>0, <1>1, <1>12, DirFacts DEF RecordsFirst
<1>17. UnluckyDirs' /\ Flushed'
  BY <1>0 DEF UnluckyDirs, Flushed, Present
<1> QED
  BY <1>5, <1>6, <1>7, <1>8, <1>9, <1>14, <1>15, <1>16, <1>17

\* A task moves to another place of its own path.
LEMMA MovesTo ==
  ASSUME Typed, NEW p \in Paths, NEW pc, NEW v, run' = [run EXCEPT ![p] = At(pc, p, v, {})]
  PROVE  /\ run'[p].pc = pc /\ run'[p].path = p /\ run'[p].ver = v /\ run'[p].todo = {}
         /\ \A q \in Paths : q # p => run'[q] = run[q]
<1>1. run'[p] = At(pc, p, v, {}) /\ \A q \in Paths : q # p => run'[q] = run[q]
  BY DEF Typed, MirrorTypes
<1> QED
  BY <1>1 DEF At

\* A task whose place alone changes.
LEMMA PcTo ==
  ASSUME Typed, NEW p \in Paths, NEW pc, run' = [run EXCEPT ![p].pc = pc]
  PROVE  /\ run'[p].pc = pc /\ run'[p].path = run[p].path
         /\ run'[p].ver = run[p].ver /\ run'[p].todo = run[p].todo
         /\ \A q \in Paths : q # p => run'[q] = run[q]
<1>1. PICK t \in Tasks : t = run[p]
  BY DEF Typed, MirrorTypes
<1>2. run'[p] = [t EXCEPT !.pc = pc] /\ \A q \in Paths : q # p => run'[q] = run[q]
  BY <1>1 DEF Typed, MirrorTypes
<1>3. /\ [t EXCEPT !.pc = pc].pc = pc /\ [t EXCEPT !.pc = pc].path = t.path
      /\ [t EXCEPT !.pc = pc].ver = t.ver /\ [t EXCEPT !.pc = pc].todo = t.todo
  BY DEF Tasks
<1> QED
  BY <1>1, <1>2, <1>3

\* A task at its own path, with nothing more to walk.
LEMMA OwnTask ==
  ASSUME Typed, Remembered, NEW p \in Paths, run[p].pc # "off"
  PROVE  /\ p \in Running /\ run[p].path = p /\ run[p].todo = {} /\ run[p].ver <= ops
         /\ chain[p] # <<>> /\ Head(chain[p]) = FALSE
<1>1. p \in Running /\ chain[p] # <<>> /\ chain[p] \in Seq(BOOLEAN)
  BY SomewhereRuns, RunningTask, PathFacts
<1>2. 1 \in 1..Len(chain[p]) /\ Head(chain[p]) = chain[p][1] /\ chain[p][1] \in BOOLEAN
  BY <1>1
<1> QED
  BY <1>1, <1>2 DEF Remembered, Alone, Versions

\* A request of p's own that fails.
LEMMA UnluckyKeeps ==
  ASSUME SafeUse, Typed, Typed', Remembered, NEW p \in Paths,
         run[p].pc \notin {"off", "manifest"},
         run' = [run EXCEPT ![p].pc = "thrown"],
         ~IsDir(p) \/ p \in gone, unlucky' = unlucky \cup Under(p),
         UNCHANGED <<guestVars, chain, waiting, cache, opfs, manifestVars, flush>>
  PROVE  Remembered'
<1>1. /\ run'[p].pc = "thrown" /\ run'[p].path = p /\ run'[p].todo = {} /\ run'[p].ver <= ops
      /\ \A q \in Paths : q # p => run'[q] = run[q]
      /\ p \in Running
  BY PcTo, OwnTask
<1>2. p \in Under(p) /\ Children(p) \subseteq unlucky' /\ unlucky \subseteq unlucky'
  BY DEF Under
<1>3. UnluckyDirs'
  <2> SUFFICES ASSUME NEW q \in unlucky', IsDir(q) PROVE q \in gone /\ Children(q) \subseteq unlucky'
    BY DEF UnluckyDirs, guestVars
  <2>1. CASE q \in unlucky
    BY <1>2, <2>1 DEF Remembered, UnluckyDirs
  <2>2. CASE q \notin unlucky
    <3>1. q = p
      BY <2>2 DEF Under, Children
    <3> QED
      BY <1>2, <3>1
  <2> QED
    BY <2>1, <2>2
<1>4. ~Owed(p)'
  BY <1>2 DEF Owed
<1>5. /\ run'[p].pc \notin {"off", "doomed", "manifest", "removed"}
      /\ IsDir(p) => run'[p].pc \notin {"find", "file", "writable"}
      /\ run'[p].pc = "writable" => opfs[p].kind = "file"
      /\ run'[p].pc \in Working => run[p].pc \in Working /\ run'[p].ver = run[p].ver
      /\ run'[p].pc \in {"find", "retry"} => vfs[p] = None \/ Removing(p)
      /\ run[p].pc # "manifest"
  BY <1>1 DEF Working
<1> QED
  BY <1>1, <1>2, <1>3, <1>4, <1>5, PlainMove

\* removeEntry, done, refused or failed.
LEMMA RemoveEntryKeeps ==
  ASSUME SafeUse, Typed, Typed', Remembered, NEW p \in Paths, RemoveEntry(p),
         run[p].pc \in {"begin", "find", "retry"}, run[p].pc = "begin" => ~Present(p),
         UNCHANGED <<guestVars, chain, waiting, cache, manifestVars, flush>>
  PROVE  Remembered'
<1>1. CASE Locked(p) /\ run' = [run EXCEPT ![p] = At("retry", p, 0, {})] /\ UNCHANGED <<opfs, unlucky>>
  <2>1. run' = [run EXCEPT ![p] = At("retry", p, 0, {})] /\ UNCHANGED <<opfs, unlucky>>
    BY <1>1
  <2>2. /\ run'[p].pc = "retry" /\ run'[p].path = p /\ run'[p].ver = 0 /\ run'[p].todo = {}
        /\ \A q \in Paths : q # p => run'[q] = run[q]
    BY <2>1, MovesTo
  <2>3. vfs[p] = None \/ Removing(p)
    BY PathFacts, Kinds DEF Present, Removing
  <2>4. OnTrack(p) => OnTrack(p)'
    <3>1. UNCHANGED vfs
      BY DEF guestVars
    <3>2. run[p].pc = "begin" => vfs[p] = None
      BY PathFacts, Kinds DEF Present
    <3> QED
      BY <2>2, <3>1, <3>2 DEF OnTrack, Working
  <2>5. UnluckyDirs' /\ run'[p].ver <= ops /\ p \in Running
    <3>1. UNCHANGED <<gone, unlucky>> /\ ops >= 0
      BY <2>1, PathFacts DEF guestVars
    <3> QED
      BY <2>2, <3>1, SomewhereRuns, PathFacts DEF Remembered, UnluckyDirs
  <2>6. /\ run'[p].pc \notin {"off", "doomed", "manifest", "removed"}
        /\ IsDir(p) => run'[p].pc \notin {"find", "file", "writable"}
        /\ run'[p].pc = "writable" => opfs[p].kind = "file"
        /\ run'[p].pc \in Working => run[p].pc \in Working /\ run'[p].ver = run[p].ver
        /\ run[p].pc # "manifest" /\ unlucky \subseteq unlucky'
    BY <2>1, <2>2 DEF Working
  <2> QED
    BY <2>1, <2>2, <2>3, <2>4, <2>5, <2>6, PlainMove
<1>2. CASE /\ ~Locked(p) /\ UNCHANGED unlucky
           /\ run' = [run EXCEPT ![p] = At("removed", p, 0, {})]
           /\ opfs' = [q \in Paths |-> IF q \in Under(p) THEN None ELSE opfs[q]]
  <2>1. run' = [run EXCEPT ![p] = At("removed", p, 0, {})]
    BY <1>2
  <2>2. \A q \in Paths : opfs'[q] = IF q \in Under(p) THEN None ELSE opfs[q]
    BY <1>2
  <2>3. /\ run'[p].pc = "removed" /\ run'[p].path = p /\ run'[p].ver = 0 /\ run'[p].todo = {}
        /\ \A q \in Paths : q # p => run'[q] = run[q]
    BY <2>1, MovesTo
  <2> QED
    BY <1>2, <2>2, <2>3, EntryGone
<1>3. CASE /\ run' = [run EXCEPT ![p].pc = "thrown"] /\ unlucky' = unlucky \cup Under(p)
           /\ UNCHANGED opfs
  <2>1. IsDir(p) => vfs[p] = None
    BY PathFacts, Kinds DEF Present, Removing, Remembered, Succeeded
  <2>2. chain[p] # <<>>
    BY BusyHasChain
  <2>3. ~IsDir(p) \/ p \in gone
    BY <2>1, <2>2 DEF Remembered, Once
  <2> QED
    BY <1>3, <2>3, UnluckyKeeps
<1> QED
  BY <1>1, <1>2, <1>3 DEF RemoveEntry

\* The handle is there: a directory is done, a file is asked for or refused.
LEMMA GoKeeps ==
  ASSUME SafeUse, Typed, Typed', Remembered, NEW p \in Paths, Go(p)
  PROVE  Remembered'
<1>1. /\ run[p].pc = "go" /\ run[p].path = p /\ run[p].todo = {} /\ run[p].ver <= ops
      /\ p \in Running /\ chain[p] # <<>> /\ Head(chain[p]) = FALSE
      /\ UNCHANGED <<guestVars, chain, waiting, cache, manifestVars, flush>>
      /\ UNCHANGED <<vfs, gone, manifest>>
  BY OwnTask DEF Go, guestVars, manifestVars
<1>2. CASE IsDir(p) /\ run' = [run EXCEPT ![p] = At("next", p, 0, {})] /\ UNCHANGED <<opfs, unlucky>>
  <2>1. /\ run'[p].pc = "next" /\ run'[p].path = p /\ run'[p].ver = 0 /\ run'[p].todo = {}
        /\ \A q \in Paths : q # p => run'[q] = run[q]
    BY <1>2, MovesTo
  <2>2. OnTrack(p) => ~Owed(p)' /\ (p \in gone => Children(p) \subseteq unlucky')
    <3> SUFFICES ASSUME OnTrack(p) PROVE ~Owed(p)' /\ p \notin gone
      OBVIOUS
    <3>1. Present(p) /\ vfs[p] # None
      BY <1>1, Kinds DEF OnTrack, Fresh, Present
    <3>2. vfs[p] = Dir
      BY <1>2, <3>1, PathFacts, Kinds DEF Remembered, Trees
    <3>3. opfs[p] = Dir
      BY <1>1, <1>2, <3>1 DEF Remembered, Trees, Working
    <3>4. p \notin manifest
      BY <1>2 DEF Remembered, LinksApart
    <3>5. p \notin gone
      BY <1>2, <3>1 DEF Remembered, Once
    <3> QED
      BY <1>1, <1>2, <3>2, <3>3, <3>4, <3>5, Kinds DEF Owed, Mirrored
  <2>5. ops >= 0
    BY PathFacts
  <2>3. /\ run'[p].pc \notin {"off", "doomed", "manifest", "removed"}
        /\ IsDir(p) => run'[p].pc \notin {"find", "file", "writable"}
        /\ run'[p].pc = "writable" => opfs[p].kind = "file"
        /\ run'[p].pc \in Working => run[p].pc \in Working /\ run'[p].ver = run[p].ver
        /\ run'[p].pc \in {"find", "retry"} => vfs[p] = None \/ Removing(p)
        /\ run[p].pc # "manifest" /\ unlucky \subseteq unlucky' /\ run'[p].ver <= ops
    BY <1>1, <1>2, <2>1, <2>5 DEF Working
  <2>4. UnluckyDirs'
    BY <1>1, <1>2 DEF Remembered, UnluckyDirs
  <2> QED
    BY <1>1, <1>2, <2>1, <2>2, <2>3, <2>4, PlainMove
<1>3. CASE /\ ~IsDir(p) /\ opfs[DirOf(p)] = Dir
           /\ opfs' = IF opfs[p] = None THEN [opfs EXCEPT ![p] = File(0)] ELSE opfs
           /\ run' = [run EXCEPT ![p].pc = "file"] /\ UNCHANGED unlucky
  <2>1. /\ run'[p].pc = "file" /\ run'[p].path = p /\ run'[p].ver = run[p].ver /\ run'[p].todo = {}
        /\ \A q \in Paths : q # p => run'[q] = run[q]
    BY <1>1, <1>3, PcTo
  <2>2. /\ \A q \in Paths : q # p => opfs'[q] = opfs[q]
        /\ opfs'[p].kind = "file" /\ opfs'[p].ver <= ops
    <3>1. opfs \in [Paths -> Stored]
      BY DEF Typed, MirrorTypes
    <3>2. CASE opfs[p] = None
      <4>1. opfs'[p] = File(0) /\ \A q \in Paths : q # p => opfs'[q] = opfs[q]
        BY <1>3, <3>1, <3>2
      <4> QED
        BY <4>1, Kinds, PathFacts
    <3>3. CASE opfs[p] # None
      BY <1>3, <3>3, Kinds, PathFacts DEF Remembered, Trees, Versions
    <3> QED
      BY <3>2, <3>3
  <2> QED
    BY <1>1, <1>3, <2>1, <2>2, WriteKeeps
<1>4. CASE ~IsDir(p) /\ unlucky' = unlucky \cup {p}
           /\ run' = [run EXCEPT ![p].pc = "thrown"] /\ UNCHANGED opfs
  <2>1. Under(p) = {p}
    BY <1>4, DirFacts
  <2> QED
    BY <1>1, <1>4, <2>1, UnluckyKeeps
<1> QED
  BY <1>1, <1>2, <1>3, <1>4 DEF Go

\* createWritable: the file is locked, or refused.
LEMMA OpenedKeeps ==
  ASSUME SafeUse, Typed, Typed', Remembered, NEW p \in Paths, Opened(p)
  PROVE  Remembered'
<1>1. /\ run[p].pc = "file" /\ run[p].path = p /\ run[p].todo = {} /\ run[p].ver <= ops
      /\ p \in Running /\ ~IsDir(p)
      /\ UNCHANGED <<guestVars, chain, waiting, cache, opfs, manifestVars, flush>>
      /\ UNCHANGED vfs
  <2>1. run[p].pc = "file" /\ ~IsDir(p)
    BY DEF Opened, Remembered, Alone
  <2> QED
    BY <2>1, OwnTask DEF Opened, guestVars
<1>2. CASE opfs[p].kind = "file" /\ run' = [run EXCEPT ![p].pc = "writable"] /\ UNCHANGED unlucky
  <2>1. /\ run'[p].pc = "writable" /\ run'[p].path = p /\ run'[p].ver = run[p].ver /\ run'[p].todo = {}
        /\ \A q \in Paths : q # p => run'[q] = run[q]
    BY <1>1, <1>2, PcTo
  <2>2. OnTrack(p) => OnTrack(p)'
    BY <1>1, <2>1 DEF OnTrack, Working, Fresh, Present
  <2>3. UnluckyDirs'
    BY <1>1, <1>2 DEF Remembered, UnluckyDirs, guestVars
  <2>4. /\ run'[p].pc \notin {"off", "doomed", "manifest", "removed"}
        /\ IsDir(p) => run'[p].pc \notin {"find", "file", "writable"}
        /\ run'[p].pc = "writable" => opfs[p].kind = "file"
        /\ run'[p].pc \in Working => run[p].pc \in Working /\ run'[p].ver = run[p].ver
        /\ run'[p].pc \in {"find", "retry"} => vfs[p] = None \/ Removing(p)
        /\ run[p].pc # "manifest" /\ unlucky \subseteq unlucky'
    BY <1>1, <1>2, <2>1 DEF Working
  <2> QED
    BY <1>1, <2>1, <2>2, <2>3, <2>4, PlainMove
<1>3. CASE run' = [run EXCEPT ![p].pc = "thrown"] /\ unlucky' = unlucky \cup {p}
  <2>1. Under(p) = {p}
    BY <1>1, DirFacts
  <2> QED
    BY <1>1, <1>3, <2>1, UnluckyKeeps
<1> QED
  BY <1>1, <1>2, <1>3 DEF Opened

\* close: the content that was read appears.
LEMMA ClosedKeeps ==
  ASSUME SafeUse, Typed, Typed', Remembered, NEW p \in Paths, Closed(p)
  PROVE  Remembered'
<1>1. /\ run[p].pc = "writable" /\ run[p].path = p /\ run[p].todo = {} /\ run[p].ver <= ops
      /\ ~IsDir(p) /\ opfs[p].kind = "file"
      /\ opfs' = [opfs EXCEPT ![p] = File(run[p].ver)]
      /\ run' = [run EXCEPT ![p].pc = "next"]
      /\ UNCHANGED <<guestVars, chain, waiting, cache, manifestVars, flush, unlucky>>
  <2>1. run[p].pc = "writable" /\ ~IsDir(p) /\ opfs[p].kind = "file"
    BY DEF Closed, Remembered, Alone, Trees
  <2> QED
    BY <2>1, OwnTask DEF Closed
<1>2. /\ run'[p].pc = "next" /\ run'[p].path = p /\ run'[p].ver = run[p].ver /\ run'[p].todo = {}
      /\ \A q \in Paths : q # p => run'[q] = run[q]
  BY <1>1, PcTo
<1>3. opfs'[p] = File(run[p].ver) /\ \A q \in Paths : q # p => opfs'[q] = opfs[q]
  BY <1>1 DEF Typed, MirrorTypes
<1>4. opfs[DirOf(p)] = Dir
  BY <1>1, Kinds DEF Remembered, Trees
<1>5. Fresh(p) => opfs'[p] = vfs[p]
  <2> SUFFICES ASSUME Fresh(p) PROVE opfs'[p] = vfs[p]
    OBVIOUS
  <2>1. vfs[p].kind = "file"
    BY <1>1, PathFacts, Kinds DEF Remembered, Trees, Fresh, Present
  <2>2. vfs[p] = File(vfs[p].ver)
    BY <2>1, PathFacts, Kinds
  <2> QED
    BY <1>3, <2>2 DEF Fresh
<1>6. opfs'[p].kind = "file" /\ opfs'[p].ver <= ops
  BY <1>1, <1>3, Kinds
<1> QED
  BY <1>1, <1>2, <1>3, <1>4, <1>5, <1>6, WriteKeeps

\* A failed task ends, findDir answers, a lock outlasts the retries.
LEMMA OthersKeep ==
  ASSUME SafeUse, Typed, Typed', Remembered, NEW p \in Paths,
         Rejected(p) \/ Found(p) \/ GiveUp(p)
  PROVE  Remembered'
<1>1. CASE Rejected(p)
  <2>1. /\ run[p].pc = "thrown" /\ run[p].path = p /\ p \in Running
        /\ run' = [run EXCEPT ![p] = At("next", p, 0, {})]
        /\ UNCHANGED <<guestVars, chain, waiting, cache, opfs, manifestVars, flush, unlucky>>
        /\ UNCHANGED <<gone, unlucky>>
    <3>1. run[p].pc = "thrown"
      BY <1>1 DEF Rejected
    <3> QED
      BY <1>1, <3>1, OwnTask DEF Rejected, guestVars
  <2>2. /\ run'[p].pc = "next" /\ run'[p].path = p /\ run'[p].ver = 0 /\ run'[p].todo = {}
        /\ \A q \in Paths : q # p => run'[q] = run[q]
    BY <2>1, MovesTo
  <2>3. ~OnTrack(p) /\ UnluckyDirs'
    BY <2>1 DEF OnTrack, Working, Remembered, UnluckyDirs
  <2>4. /\ run'[p].pc \notin {"off", "doomed", "manifest", "removed"}
        /\ IsDir(p) => run'[p].pc \notin {"find", "file", "writable"}
        /\ run'[p].pc = "writable" => opfs[p].kind = "file"
        /\ run'[p].pc \in Working => run[p].pc \in Working /\ run'[p].ver = run[p].ver
        /\ run'[p].pc \in {"find", "retry"} => vfs[p] = None \/ Removing(p)
        /\ run[p].pc # "manifest" /\ unlucky \subseteq unlucky' /\ run'[p].ver <= ops
    BY <2>1, <2>2, PathFacts DEF Working
  <2> QED
    BY <2>1, <2>2, <2>3, <2>4, PlainMove
<1>2. CASE Found(p)
  BY <1>2, RemoveEntryKeeps DEF Found
<1>3. CASE GiveUp(p)
  <2>1. /\ run[p].pc = "retry" /\ run' = [run EXCEPT ![p].pc = "thrown"]
        /\ unlucky' = unlucky \cup Under(p)
        /\ UNCHANGED <<guestVars, chain, waiting, cache, opfs, manifestVars, flush>>
    BY <1>3 DEF GiveUp
  <2>2. IsDir(p) => p \in gone
    <3>1. chain[p] # <<>> /\ Removing(p)
      BY <2>1, BusyHasChain DEF Removing
    <3> QED
      BY <3>1 DEF Remembered, Once, Succeeded
  <2> QED
    BY <2>1, <2>2, UnluckyKeeps
<1> QED
  BY <1>1, <1>2, <1>3

-----------------------------------------------------------------------------
(* The manifest: operations queued and done.                                *)

\* The task of p queues an operation of the manifest, in its order.
LEMMA PostDoes ==
  ASSUME Typed, Remembered, NEW p \in Paths, NEW op \in {"record", "removeUnder"},
         mqueue' = Append(mqueue, [op |-> op, path |-> p, by |-> p]),
         op = "record" => ~Unlinks(DirOf(p))
  PROVE  /\ \A q \in Paths : /\ Records(q)' <=> Records(q) \/ (op = "record" /\ q = p)
                             /\ Unlinks(q)' <=> Unlinks(q) \/ (op = "removeUnder" /\ q = p)
         /\ \A i \in 1..Len(mqueue') : mqueue'[i].path = mqueue'[i].by
         /\ \A i, j \in 1..Len(mqueue') :
              /\ mqueue'[i].op = "record" /\ mqueue'[j].op = "removeUnder"
              /\ mqueue'[j].by = DirOf(mqueue'[i].by)
              => i < j
<1>1. PICK m \in Entries : m.op = op /\ m.path = p /\ m.by = p /\ mqueue' = Append(mqueue, m)
  <2>1. PICK m : m = [op |-> op, path |-> p, by |-> p]
    OBVIOUS
  <2> QED
    BY <2>1 DEF Entries
<1>2. PICK n \in Nat : n = Len(mqueue)
  BY DEF Typed, MirrorTypes
<1>3. /\ Len(mqueue') = n + 1 /\ mqueue'[n + 1] = m
      /\ \A i \in 1..n : mqueue'[i] = mqueue[i]
  BY <1>1, <1>2 DEF Typed, MirrorTypes
<1>4. \A i \in 1..n + 1 : i \in 1..n \/ i = n + 1
  BY <1>2
<1>5. 1..n \subseteq 1..n + 1 /\ n + 1 \in 1..n + 1
  BY <1>2
<1>6. ASSUME NEW q \in Paths
      PROVE  /\ Records(q)' <=> Records(q) \/ (op = "record" /\ q = p)
             /\ Unlinks(q)' <=> Unlinks(q) \/ (op = "removeUnder" /\ q = p)
  <2>1. Records(q)' <=> Records(q) \/ (op = "record" /\ q = p)
    BY <1>1, <1>2, <1>3, <1>4, <1>5 DEF Records
  <2>2. Unlinks(q)' <=> Unlinks(q) \/ (op = "removeUnder" /\ q = p)
    BY <1>1, <1>2, <1>3, <1>4, <1>5 DEF Unlinks
  <2> QED
    BY <2>1, <2>2
<1>7. ASSUME NEW i \in 1..Len(mqueue') PROVE mqueue'[i].path = mqueue'[i].by
  BY <1>1, <1>2, <1>3, <1>4 DEF Remembered, Alone
<1>8. ASSUME NEW i \in 1..Len(mqueue'), NEW j \in 1..Len(mqueue'),
             mqueue'[i].op = "record", mqueue'[j].op = "removeUnder",
             mqueue'[j].by = DirOf(mqueue'[i].by)
      PROVE  i < j
  <2>1. i \in 1..n + 1 /\ j \in 1..n + 1
    BY <1>3
  <2>2. CASE i = n + 1
    <3>1. op = "record" /\ j # n + 1
      BY <1>1, <1>3, <1>8, <2>2
    <3>2. j \in 1..n
      BY <1>4, <2>1, <3>1
    <3>3. Unlinks(DirOf(p))
      BY <1>1, <1>2, <1>3, <1>8, <2>2, <3>2 DEF Unlinks
    <3> QED
      BY <3>1, <3>3
  <2>3. CASE i \in 1..n /\ j \in 1..n
    BY <1>2, <1>3, <1>8, <2>3 DEF Remembered, RecordsFirst
  <2>4. CASE i \in 1..n /\ j = n + 1
    BY <1>2, <2>4
  <2> QED
    BY <1>4, <2>1, <2>2, <2>3, <2>4
<1> QED
  BY <1>6, <1>7, <1>8

\* A task waits for the manifest: a link is recorded, or what is gone struck off.
LEMMA PostKeeps ==
  ASSUME SafeUse, Typed, Typed', Remembered, NEW p \in Paths, NEW op \in {"record", "removeUnder"},
         mqueue' = Append(mqueue, [op |-> op, path |-> p, by |-> p]),
         op = "record" => vfs[p] = Link /\ run[p].pc = "begin",
         op = "removeUnder" => run[p].pc = "removed",
         run'[p].pc = "manifest", run'[p].path = p, run'[p].todo = {}, run'[p].ver <= ops,
         \A q \in Paths : q # p => run'[q] = run[q],
         cache' \in {cache, IF IsDir(p) THEN [cache EXCEPT ![p[1]] = "none"] ELSE cache},
         UNCHANGED <<guestVars, chain, waiting, manifest, mbusy, poisoned, flush, opfs, unlucky>>
  PROVE  Remembered'
<1> USE DEF Remembered
<1>0. /\ UNCHANGED <<vfs, ops, gone, since, workload, chain, opfs, manifest, flush, unlucky>>
      /\ ~Records(p) /\ ~Unlinks(p) /\ chain[p] # <<>>
      /\ run[p].pc \notin {"off", "manifest"} \cup Working
  <2>1. run[p].pc \notin {"off", "manifest"} \cup Working
    BY DEF Working
  <2>2. ~Records(p) /\ ~Unlinks(p)
    BY <2>1 DEF Records, Unlinks, Typed, Awaits
  <2> QED
    BY <2>1, <2>2, PathFacts DEF guestVars
<1>1. op = "record" => ~IsDir(p) /\ ~workload.again /\ vfs[DirOf(p)] # None
                       /\ DirOf(p) \notin gone /\ ~Unlinks(DirOf(p)) /\ DirOf(p) \in Paths
  <2> SUFFICES ASSUME op = "record"
               PROVE  ~IsDir(p) /\ ~workload.again /\ vfs[DirOf(p)] # None
                      /\ DirOf(p) \notin gone /\ ~Unlinks(DirOf(p)) /\ DirOf(p) \in Paths
    OBVIOUS
  <2>1. ~IsDir(p) /\ ~workload.again /\ DirOf(p) \in Paths /\ IsDir(DirOf(p))
    BY DirFacts DEF LinksApart, Once
  <2>2. vfs[DirOf(p)] # None
    <3>1. Present(p)
      BY Kinds DEF Present
    <3>2. Present(DirOf(p))
      BY <3>1 DEF Trees
    <3> QED
      BY <3>2, Kinds DEF Present
  <2>3. DirOf(p) \notin gone
    BY <2>1, <2>2 DEF Once
  <2>4. ~Unlinks(DirOf(p))
    BY <2>1, <2>2 DEF Succeeded, Removing
  <2> QED
    BY <2>1, <2>2, <2>3, <2>4
<1>2. \A q \in Paths : /\ Records(q)' <=> Records(q) \/ (op = "record" /\ q = p)
                       /\ Unlinks(q)' <=> Unlinks(q) \/ (op = "removeUnder" /\ q = p)
  BY <1>1, PostDoes
<1>3. /\ \A i \in 1..Len(mqueue') : mqueue'[i].path = mqueue'[i].by
      /\ \A i, j \in 1..Len(mqueue') :
           /\ mqueue'[i].op = "record" /\ mqueue'[j].op = "removeUnder"
           /\ mqueue'[j].by = DirOf(mqueue'[i].by)
           => i < j
  BY <1>1, PostDoes
<1>4. \A d \in Dirs : cache'[d] = cache[d] \/ cache'[d] = "none"
  <2>1. /\ cache \in [Dirs -> {"none", "asked", "doomed", "ready", "failed"}] /\ p[1] \in Dirs
    BY DirFacts DEF Typed, MirrorTypes
  <2> QED
    BY <2>1
<1>5. Alone'
  <2>1. Running' = Running
    BY <1>0 DEF Running
  <2>2. \A d \in Dirs : cache'[d] \notin {"doomed", "failed"}
    BY <1>4 DEF Alone
  <2> QED
    BY <1>0, <1>3, <2>1, <2>2 DEF Alone
<1>6. Versions'
  BY <1>0 DEF Versions
<1>7. Trees'
  <2> SUFFICES ASSUME NEW q \in Paths
      PROVE /\ run'[q].pc = "writable" => opfs[q].kind = "file"
            /\ IsDir(q) /\ Present(q) =>
                 (cache'[q[1]] \in {"asked", "ready"} \/ run'[q].pc \in Working => opfs[q] = Dir)
    BY <1>0 DEF Trees, Present
  <2>1. run'[q].pc \in Working => run[q].pc \in Working
    BY DEF Working
  <2>2. cache'[q[1]] \in {"asked", "ready"} => cache[q[1]] \in {"asked", "ready"}
    BY <1>4, DirFacts
  <2>3. run'[q].pc = "writable" => run[q].pc = "writable"
    OBVIOUS
  <2> QED
    BY <2>1, <2>2, <2>3 DEF Trees
<1>8. Once'
  <2>1. workload.again => \A q \in Paths : ~Records(q)'
    BY <1>1, <1>2 DEF Once
  <2>2. ASSUME NEW q \in Paths, ~workload.again \/ IsDir(q), vfs[q] = None, q \notin gone
        PROVE  IsDir(q) => cache'[q[1]] = "none"
    BY <1>4, <2>2, DirFacts DEF Once
  <2> QED
    BY <1>0, <2>1, <2>2 DEF Once
<1>9. LinksApart'
  <2> SUFFICES ASSUME NEW q \in Paths, vfs[q] = Link \/ q \in manifest \/ Records(q)'
               PROVE  /\ opfs[q] = None /\ run'[q].pc \notin Working
                      /\ vfs[q].kind \in {"none", "link"} /\ ~IsDir(q)
    BY <1>0 DEF LinksApart
  <2>1. run'[q].pc \in Working => run[q].pc \in Working
    BY DEF Working
  <2>2. vfs[q] = Link \/ q \in manifest \/ Records(q)
    BY <1>2
  <2> QED
    BY <2>1, <2>2 DEF LinksApart
<1>10. ASSUME NEW q \in Paths, OwnPending(q) PROVE OwnPending(q)'
  <2>1. CASE q # p
    <3>1. (Records(q)' <=> Records(q)) /\ (Unlinks(q)' <=> Unlinks(q))
      BY <1>2, <2>1
    <3> QED
      BY <1>0, <1>10, <2>1, <3>1, OwnPendingKept
  <2>2. CASE q = p
    <3>1. op = "record" => OnTrack(p)'
      BY <1>0, <1>2 DEF OnTrack
    <3>2. op = "removeUnder" /\ OnTrack(p) => OnTrack(p)'
      BY <1>0, <1>2 DEF OnTrack, Working
    <3> QED
      BY <1>0, <1>10, <2>2, <3>1, <3>2 DEF OwnPending
  <2> QED
    BY <2>1, <2>2
<1>11. \A q \in Paths : (ByDir(q)' <=> ByDir(q)) /\ (Owed(q)' <=> Owed(q))
  BY <1>0 DEF ByDir, Owed, Mirrored
<1>12. Pending'
  BY <1>10, <1>11, DirFacts DEF Pending, Coming
<1>13. Succeeded'
  <2> SUFFICES ASSUME NEW q \in Paths
      PROVE /\ run'[q].pc \in Working => Len(chain'[q]) > 1 \/ ByDir(q)' \/ Fresh(q)'
            /\ Records(q)' => Len(chain'[q]) > 1 \/ ByDir(q)' \/ vfs'[q] = Link
            /\ Removing(q)' => /\ Len(chain'[q]) > 1 \/ vfs'[q] = None
                               /\ ~workload.again \/ IsDir(q) => vfs'[q] = None
    BY <1>0 DEF Succeeded
  <2>1. CASE q # p
    <3>1. (Removing(q)' <=> Removing(q)) /\ (Fresh(q)' <=> Fresh(q))
      BY <1>0, <1>2, <2>1 DEF Removing, Fresh, Present
    <3> QED
      BY <1>0, <1>2, <1>11, <2>1, <3>1 DEF Succeeded
  <2>2. CASE q = p
    <3>1. Removing(p)' => Removing(p)
      BY <1>0, <1>2 DEF Removing
    <3>2. Records(p)' => vfs'[p] = Link
      BY <1>0, <1>2
    <3>3. run'[p].pc \notin Working
      BY DEF Working
    <3> QED
      BY <1>0, <2>2, <3>1, <3>2, <3>3 DEF Succeeded
  <2> QED
    BY <2>1, <2>2
<1>14. RecordsFirst'
  <2>1. ASSUME NEW q \in Paths, Records(q)', DirOf(q) \in gone
        PROVE  q \in unlucky \/ OwnPending(DirOf(q))'
    <3>1. Records(q)
      BY <1>1, <1>2, <2>1
    <3> QED
      BY <1>10, <2>1, <3>1, DirFacts DEF RecordsFirst
  <2> QED
    BY <1>0, <1>3, <2>1 DEF RecordsFirst
<1>15. UnluckyDirs' /\ Flushed'
  BY <1>0 DEF UnluckyDirs, Flushed, Present
<1> QED
  BY <1>5, <1>6, <1>7, <1>8, <1>9, <1>12, <1>13, <1>14, <1>15

\* With a slot in hand.
LEMMA BeginKeeps ==
  ASSUME SafeUse, Typed, Typed', Remembered, NEW p \in Paths, Begin(p)
  PROVE  Remembered'
<1>1. /\ run[p].pc = "begin" /\ p \in Running
      /\ UNCHANGED <<guestVars, chain, waiting, manifest, mbusy, poisoned, flush>>
      /\ Exists(p) <=> Present(p)
  BY SomewhereRuns DEF Begin, Exists, SafeUse
<1>2. CASE Present(p)
  <2>1. Resync(p, p, {}) /\ vfs[p].kind # "none" /\ UNCHANGED unlucky
    BY <1>1, <1>2 DEF Begin, Present
  <2>2. CASE vfs[p].kind = "link"
    <3>1. /\ run' = [run EXCEPT ![p] = At("manifest", p, 0, {})]
          /\ mqueue' = Append(mqueue, [op |-> "record", path |-> p, by |-> p])
          /\ UNCHANGED <<cache, opfs>>
      BY <2>1, <2>2 DEF Resync, Record
    <3>2. /\ run'[p].pc = "manifest" /\ run'[p].path = p /\ run'[p].ver = 0 /\ run'[p].todo = {}
          /\ \A q \in Paths : q # p => run'[q] = run[q]
      BY <3>1, MovesTo
    <3>3. vfs[p] = Link
      BY <2>2, PathFacts, Kinds
    <3>4. run'[p].ver <= ops
      BY <3>2, PathFacts
    <3>5. PICK op \in {"record", "removeUnder"} : op = "record"
      OBVIOUS
    <3>6. mqueue' = Append(mqueue, [op |-> op, path |-> p, by |-> p])
      BY <3>1, <3>5
    <3> QED
      BY <1>1, <2>1, <3>1, <3>2, <3>3, <3>4, <3>5, <3>6, PostKeeps
  <2>3. CASE vfs[p].kind # "link"
    <3>1. Ensure(p, p, {}) /\ vfs[p] # Link
      BY <2>1, <2>3, Kinds DEF Resync
    <3> QED
      BY <1>1, <1>2, <2>1, <3>1, EnsureKeeps
  <2> QED
    BY <2>2, <2>3
<1>3. CASE ~Present(p) /\ IsDir(p)
  <2>1. RemoveEntry(p) /\ UNCHANGED <<cache, mqueue>>
    BY <1>1, <1>3 DEF Begin
  <2> QED
    BY <1>1, <1>3, <2>1, RemoveEntryKeeps DEF manifestVars
<1>4. CASE ~Present(p) /\ ~IsDir(p)
  <2>1. /\ run' = [run EXCEPT ![p] = At("find", p, 0, {})]
        /\ UNCHANGED <<opfs, cache, mqueue, unlucky>>
    BY <1>1, <1>4 DEF Begin
  <2>2. /\ run'[p].pc = "find" /\ run'[p].path = p /\ run'[p].ver = 0 /\ run'[p].todo = {}
        /\ \A q \in Paths : q # p => run'[q] = run[q]
    BY <2>1, MovesTo
  <2>3. vfs[p] = None
    BY <1>4, PathFacts, Kinds DEF Present
  <2>4. OnTrack(p)' /\ UnluckyDirs'
    BY <1>1, <2>1, <2>2, <2>3 DEF OnTrack, Remembered, UnluckyDirs, guestVars
  <2>5. ops >= 0
    BY PathFacts
  <2>6. /\ run'[p].pc \notin {"off", "doomed", "manifest", "removed"}
        /\ IsDir(p) => run'[p].pc \notin {"find", "file", "writable"}
        /\ run'[p].pc = "writable" => opfs[p].kind = "file"
        /\ run'[p].pc \in Working => run[p].pc \in Working /\ run'[p].ver = run[p].ver
        /\ run'[p].pc \in {"find", "retry"} => vfs[p] = None \/ Removing(p)
        /\ run[p].pc # "manifest" /\ unlucky \subseteq unlucky' /\ run'[p].ver <= ops
    BY <1>1, <1>4, <2>1, <2>2, <2>3, <2>5 DEF Working
  <2> QED
    BY <1>1, <2>1, <2>2, <2>4, <2>6, PlainMove DEF manifestVars
<1> QED
  BY <1>2, <1>3, <1>4

\* removeEntry has answered.
LEMMA RemovedKeeps ==
  ASSUME SafeUse, Typed, Typed', Remembered, NEW p \in Paths, Removed(p)
  PROVE  Remembered'
<1>1. /\ run[p].pc = "removed"
      /\ run' = [run EXCEPT ![p].pc = "manifest"]
      /\ mqueue' = Append(mqueue, [op |-> "removeUnder", path |-> p, by |-> p])
      /\ cache' = IF IsDir(p) THEN [cache EXCEPT ![p[1]] = "none"] ELSE cache
      /\ UNCHANGED <<guestVars, chain, waiting, opfs, manifest, mbusy, poisoned, flush, unlucky>>
  BY DEF Removed
<1>2. /\ run'[p].pc = "manifest" /\ run'[p].path = p /\ run'[p].todo = {} /\ run'[p].ver <= ops
      /\ \A q \in Paths : q # p => run'[q] = run[q]
  BY <1>1, PcTo, OwnTask
<1>3. PICK op \in {"record", "removeUnder"} : op = "removeUnder"
  OBVIOUS
<1>4. mqueue' = Append(mqueue, [op |-> op, path |-> p, by |-> p])
  BY <1>1, <1>3
<1> QED
  BY <1>1, <1>2, <1>3, <1>4, PostKeeps

\* An operation of the manifest is done: a link is on record, or what was under
\* a path that is gone is struck off.
LEMMA ManifestSavedKeeps ==
  ASSUME SafeUse, Typed, Typed', Remembered, ManifestDone, UNCHANGED unlucky, Settle(poisoned),
         manifest' = IF Head(mqueue).op = "record" THEN manifest \cup {Head(mqueue).path}
                     ELSE manifest \ Under(Head(mqueue).path)
  PROVE  Remembered'
<1> USE DEF Remembered
<1>0. /\ UNCHANGED <<guestVars, chain, waiting, cache, opfs, unlucky>>
      /\ UNCHANGED <<vfs, ops, gone, since, workload>> /\ mqueue # <<>>
      /\ poisoned \in BOOLEAN /\ Settle(poisoned)
      /\ Head(mqueue).op \in {"record", "removeUnder"}
  <2>1. mqueue # <<>> /\ UNCHANGED <<guestVars, chain, waiting, cache, opfs, unlucky>> /\ Settle(poisoned)
    BY DEF ManifestDone, Typed, Awaits
  <2>2. mqueue \in Seq(Entries) /\ poisoned \in BOOLEAN
    BY DEF Typed, MirrorTypes
  <2>3. Head(mqueue) \in Entries
    BY <2>1, <2>2
  <2> QED
    BY <2>1, <2>2, <2>3 DEF Entries, guestVars
<1>1. PICK bad \in BOOLEAN : Settle(bad)
  BY <1>0
<1>2. PICK p \in Paths :
        /\ Head(mqueue).path = p /\ run[p].pc = "manifest" /\ run'[p].pc = "next"
        /\ run'[p].ver <= ops
        /\ Records(p) <=> Head(mqueue).op = "record"
        /\ Unlinks(p) <=> Head(mqueue).op = "removeUnder"
        /\ ~Records(p)' /\ ~Unlinks(p)'
        /\ \A q \in Paths : q # p => /\ run'[q] = run[q]
                                     /\ Records(q)' <=> Records(q)
                                     /\ Unlinks(q)' <=> Unlinks(q)
  BY <1>0, <1>1, SettleDoes
<1>3. /\ Alone' /\ Flushed'
      /\ \A i, j \in 1..Len(mqueue') :
           /\ mqueue'[i].op = "record" /\ mqueue'[j].op = "removeUnder"
           /\ mqueue'[j].by = DirOf(mqueue'[i].by)
           => i < j
  BY <1>0, <1>1, SettleDoes
<1>4. chain[p] # <<>> /\ (Records(p) \/ Unlinks(p)) /\ ~(Records(p) /\ Unlinks(p)) /\ p \in Under(p)
  BY <1>0, <1>2, BusyHasChain DEF Under
<1>5. /\ Records(p) => manifest' = manifest \cup {p}
      /\ Unlinks(p) => manifest' = manifest \ Under(p)
  BY <1>2
<1>6. Versions'
  BY <1>0, <1>2 DEF Versions
<1>7. Trees'
  <2>1. \A q \in Paths : /\ run'[q].pc \in Working => run[q].pc \in Working
                         /\ run'[q].pc = "writable" => run[q].pc = "writable"
    BY <1>2 DEF Working
  <2> QED
    BY <1>0, <2>1 DEF Trees, Present
<1>8. Once'
  <2>1. workload.again => manifest' = {} /\ \A q \in Paths : ~Records(q)'
    <3>1. workload.again => manifest = {} /\ ~Records(p)
      BY DEF Once
    <3> QED
      BY <1>2, <1>4, <1>5, <3>1 DEF Once
  <2>2. ASSUME NEW q \in Paths, ~workload.again \/ IsDir(q), vfs[q] = None, q \notin gone
        PROVE  q \notin manifest'
    <3>1. chain[q] = <<>> /\ q \notin manifest
      BY <2>2 DEF Once
    <3> QED
      BY <1>4, <1>5, <3>1
  <2> QED
    BY <1>0, <2>1, <2>2 DEF Once
<1>9. LinksApart'
  <2> SUFFICES ASSUME NEW q \in Paths, vfs[q] = Link \/ q \in manifest' \/ Records(q)'
               PROVE  /\ opfs[q] = None /\ run'[q].pc \notin Working
                      /\ vfs[q].kind \in {"none", "link"} /\ ~IsDir(q)
    BY <1>0 DEF LinksApart
  <2>1. vfs[q] = Link \/ q \in manifest \/ Records(q)
    BY <1>2, <1>4, <1>5
  <2>2. run'[q].pc \in Working => run[q].pc \in Working
    BY <1>2 DEF Working
  <2> QED
    BY <2>1, <2>2 DEF LinksApart
<1>10. ASSUME NEW q \in Paths, q # p, OwnPending(q) PROVE OwnPending(q)'
  BY <1>0, <1>2, <1>10, OwnPendingKept
<1>11. Len(chain[p]) > 1 => OwnPending(p)'
  BY <1>0, <1>4 DEF OwnPending
<1>12. \A q \in Paths : ByDir(q)' <=> ByDir(q)
  BY <1>0 DEF ByDir
<1>13. Pending'
  <2>1. CASE Records(p)
    <3>1. ~IsDir(p) /\ opfs[p] = None /\ p \in manifest'
      BY <1>5, <2>1 DEF LinksApart
    <3>2. vfs[p] = Link => ~Owed(p)'
      BY <1>0, <3>1, Kinds DEF Owed, Mirrored
    <3>3. DirOf(p) \in Paths /\ DirOf(p) # p
      BY <3>1, DirFacts
    <3>4. ByDir(p) => p \in unlucky \/ OwnPending(DirOf(p))
      BY <2>1 DEF ByDir, RecordsFirst
    <3>5. ByDir(p) /\ Owed(p)' => Coming(p)'
      BY <1>0, <1>10, <1>12, <3>3, <3>4 DEF Owed, Coming
    <3>6. Owed(p)' => Coming(p)'
      BY <1>11, <2>1, <3>2, <3>5 DEF Succeeded, Coming
    <3>7. ASSUME NEW q \in Paths, q # p, Owed(q)' PROVE Coming(q)'
      <4>1. Owed(q)
        BY <1>0, <1>5, <2>1, <3>7 DEF Owed, Mirrored
      <4>2. DirOf(q) \in Paths /\ DirOf(q) # p
        <5>1. DirOf(q) \in Paths /\ IsDir(DirOf(q))
          BY DirFacts
        <5> QED
          BY <3>1, <5>1
      <4> QED
        BY <1>10, <1>12, <3>7, <4>1, <4>2 DEF Pending, Coming
    <3> QED
      BY <3>6, <3>7 DEF Pending
  <2>2. CASE Unlinks(p)
    <3>1. /\ Len(chain[p]) > 1 \/ vfs[p] = None
          /\ ~workload.again \/ IsDir(p) => vfs[p] = None
      BY <2>2 DEF Succeeded, Removing
    <3>2. OwnPending(p) => OwnPending(p)' \/ opfs[p] = None
      BY <1>2, <1>4, <1>11, <2>2 DEF OwnPending, OnTrack, Working
    <3>3. vfs[p] = None /\ opfs[p] = None => ~Owed(p)'
      BY <1>0, <1>4, <1>5, <2>2, Kinds DEF Owed, Mirrored
    <3>4. Owed(p)' => Coming(p)'
      <4> SUFFICES ASSUME Owed(p)' PROVE Coming(p)'
        OBVIOUS
      <4>1. CASE Len(chain[p]) > 1
        BY <1>11, <4>1 DEF Coming
      <4>2. CASE ~(Len(chain[p]) > 1)
        <5>1. vfs[p] = None
          BY <3>1, <4>2
        <5>2. Owed(p)
          BY <1>0, <1>5, <2>2, <5>1, Kinds DEF Owed, Mirrored
        <5>3. ~OwnPending(p)
          BY <1>2, <1>4, <2>2, <3>3, <4>2, <5>1 DEF OwnPending, OnTrack, Working
        <5>4. ByDir(p) /\ OwnPending(DirOf(p))
          BY <5>2, <5>3 DEF Pending, Coming
        <5>5. DirOf(p) \in Paths /\ DirOf(p) # p
          BY <5>3, <5>4, DirFacts
        <5> QED
          BY <1>10, <1>12, <5>4, <5>5 DEF Coming
      <4> QED
        BY <4>1, <4>2
    <3>5. ASSUME NEW q \in Paths, q # p, Owed(q)' PROVE Coming(q)'
      <4>1. DirOf(q) \in Paths /\ (q \in Under(p) => DirOf(q) = p)
            /\ (DirOf(q) = p => q \in Under(p) /\ IsDir(p) /\ ~IsDir(q))
        <5>1. DirOf(q) \in Paths /\ IsDir(DirOf(q)) /\ (IsDir(q) => DirOf(q) = q)
          BY DirFacts
        <5> QED
          BY <3>5, <5>1, DirFacts
      <4>2. CASE DirOf(q) # p
        <5>1. Owed(q)
          BY <1>0, <1>5, <2>2, <3>5, <4>1, <4>2 DEF Owed, Mirrored
        <5> QED
          BY <1>10, <1>12, <3>5, <4>1, <4>2, <5>1 DEF Pending, Coming
      <4>3. CASE DirOf(q) = p
        <5>1. vfs[p] = None
          BY <3>1, <4>1, <4>3
        <5>2. vfs[q] = None
          <6>1. ~Present(p)
            BY <5>1, Kinds DEF Present
          <6>2. ~Present(q)
            BY <4>3, <6>1 DEF Trees
          <6> QED
            BY <6>2, PathFacts, Kinds DEF Present
        <5>3. q \notin manifest'
          BY <1>5, <2>2, <4>1, <4>3
        <5>4. opfs[q] # None
          BY <1>0, <3>5, <5>2, <5>3, Kinds DEF Owed, Mirrored
        <5>5. opfs[p] = Dir
          BY <4>3, <5>4 DEF Trees
        <5>6. Owed(q)
          BY <1>0, <3>5, <5>2, <5>4, Kinds DEF Owed, Mirrored
        <5>7. CASE OwnPending(q)
          BY <1>10, <3>5, <5>7 DEF Coming
        <5>8. CASE ~OwnPending(q)
          <6>1. ByDir(q) /\ OwnPending(p)
            BY <4>3, <5>6, <5>8 DEF Pending, Coming
          <6>2. OwnPending(p)'
            BY <3>2, <5>5, <6>1, Kinds
          <6> QED
            BY <1>12, <4>3, <6>1, <6>2 DEF Coming
        <5> QED
          BY <5>7, <5>8
      <4> QED
        BY <4>2, <4>3
    <3> QED
      BY <3>4, <3>5 DEF Pending
  <2> QED
    BY <1>4, <2>1, <2>2
<1>14. Succeeded'
  <2> SUFFICES ASSUME NEW q \in Paths
      PROVE /\ run'[q].pc \in Working => Len(chain'[q]) > 1 \/ ByDir(q)' \/ Fresh(q)'
            /\ Records(q)' => Len(chain'[q]) > 1 \/ ByDir(q)' \/ vfs'[q] = Link
            /\ Removing(q)' => /\ Len(chain'[q]) > 1 \/ vfs'[q] = None
                               /\ ~workload.again \/ IsDir(q) => vfs'[q] = None
    BY <1>0 DEF Succeeded
  <2>1. CASE q # p
    <3>1. (Removing(q)' <=> Removing(q)) /\ (Fresh(q)' <=> Fresh(q))
      BY <1>0, <1>2, <2>1 DEF Removing, Fresh, Present
    <3> QED
      BY <1>0, <1>2, <1>12, <2>1, <3>1 DEF Succeeded
  <2>2. CASE q = p
    <3>1. ~Removing(p)' /\ run'[p].pc \notin Working
      BY <1>2 DEF Removing, Working
    <3> QED
      BY <1>2, <2>2, <3>1
  <2> QED
    BY <2>1, <2>2
<1>15. RecordsFirst'
  <2>1. ASSUME NEW q \in Paths, Records(q)', DirOf(q) \in gone
        PROVE  q \in unlucky \/ OwnPending(DirOf(q))'
    <3>1. Records(q) /\ q # p /\ DirOf(q) \in Paths /\ IsDir(DirOf(q))
      BY <1>2, <2>1, DirFacts
    <3>2. q \in unlucky \/ OwnPending(DirOf(q))
      BY <2>1, <3>1 DEF RecordsFirst
    <3>3. CASE DirOf(q) # p
      BY <1>10, <3>1, <3>2, <3>3
    <3>4. CASE DirOf(q) = p
      <4>1. ~IsDir(q) /\ IsDir(p)
        BY <3>1, <3>4 DEF LinksApart
      <4>2. Unlinks(p)
        BY <1>4, <4>1 DEF LinksApart
      <4>3. PICK i \in 1..Len(mqueue) : mqueue[i].op = "record" /\ mqueue[i].by = q
        BY <3>1 DEF Records
      <4>4. /\ Head(mqueue) = mqueue[1] /\ 1 \in 1..Len(mqueue) /\ i \in Nat /\ i >= 1
        BY <1>0 DEF Typed, MirrorTypes
      <4>5. mqueue[1].op = "removeUnder" /\ mqueue[1].by = p
        BY <1>2, <4>2, <4>4 DEF Alone
      <4>6. i < 1
        BY <3>4, <4>3, <4>4, <4>5 DEF RecordsFirst
      <4> QED
        BY <4>4, <4>6
    <3> QED
      BY <3>3, <3>4
  <2> QED
    BY <1>0, <1>3, <2>1 DEF RecordsFirst
<1>16. UnluckyDirs'
  BY <1>0 DEF UnluckyDirs
<1> QED
  BY <1>3, <1>6, <1>7, <1>8, <1>9, <1>13, <1>14, <1>15, <1>16

\* The manifest cannot be saved: its links are where they were.
LEMMA ManifestFailsKeeps ==
  ASSUME SafeUse, Typed, Typed', Remembered, mqueue # <<>>, Settle(TRUE),
         unlucky' = unlucky \cup About(Head(mqueue)),
         UNCHANGED <<guestVars, chain, waiting, cache, opfs, manifest>>
  PROVE  Remembered'
<1> USE DEF Remembered
<1>0. /\ UNCHANGED <<vfs, ops, gone, since, workload>>
      /\ Head(mqueue).op \in {"record", "removeUnder"}
  <2>1. Head(mqueue) \in Entries
    BY DEF Typed, MirrorTypes
  <2> QED
    BY <2>1 DEF Entries, guestVars
<1>1. PICK bad \in BOOLEAN : Settle(bad)
  OBVIOUS
<1>2. PICK p \in Paths :
        /\ Head(mqueue).path = p /\ run[p].pc = "manifest" /\ run'[p].pc = "next"
        /\ run'[p].ver <= ops
        /\ Records(p) <=> Head(mqueue).op = "record"
        /\ Unlinks(p) <=> Head(mqueue).op = "removeUnder"
        /\ ~Records(p)' /\ ~Unlinks(p)'
        /\ \A q \in Paths : q # p => /\ run'[q] = run[q]
                                     /\ Records(q)' <=> Records(q)
                                     /\ Unlinks(q)' <=> Unlinks(q)
  BY <1>0, <1>1, SettleDoes
<1>3. /\ Alone' /\ Flushed'
      /\ \A i, j \in 1..Len(mqueue') :
           /\ mqueue'[i].op = "record" /\ mqueue'[j].op = "removeUnder"
           /\ mqueue'[j].by = DirOf(mqueue'[i].by)
           => i < j
  BY <1>0, <1>1, SettleDoes
<1>4. chain[p] # <<>> /\ (Records(p) \/ Unlinks(p)) /\ (IsDir(p) => Unlinks(p))
  BY <1>0, <1>2, BusyHasChain DEF LinksApart
\* Whoever counted on p alone is unlucky with it.
<1>5. unlucky' = unlucky \cup Under(p)
  <2>1. Records(p) => About(Head(mqueue)) = {p} /\ ~IsDir(p)
    BY <1>2 DEF About, LinksApart
  <2>2. ~Records(p) => About(Head(mqueue)) = Under(p)
    BY <1>2 DEF About
  <2>3. ~IsDir(p) => Under(p) = {p}
    BY DirFacts
  <2> QED
    BY <2>1, <2>2, <2>3
<1>6. p \in unlucky' /\ \A q \in Paths : q # p /\ DirOf(q) = p => q \in unlucky'
  <2>1. p \in Under(p)
    BY DEF Under
  <2>2. ASSUME NEW q \in Paths, q # p, DirOf(q) = p PROVE q \in Under(p)
    BY <2>2, DirFacts
  <2> QED
    BY <1>5, <2>1, <2>2
<1>7. Versions'
  BY <1>0, <1>2 DEF Versions
<1>8. Trees'
  <2>1. \A q \in Paths : /\ run'[q].pc \in Working => run[q].pc \in Working
                         /\ run'[q].pc = "writable" => run[q].pc = "writable"
    BY <1>2 DEF Working
  <2> QED
    BY <1>0, <2>1 DEF Trees, Present
<1>9. Once'
  BY <1>0, <1>2 DEF Once
<1>10. LinksApart'
  BY <1>0, <1>2 DEF LinksApart, Working
<1>11. ASSUME NEW q \in Paths, q # p, OwnPending(q) PROVE OwnPending(q)'
  BY <1>0, <1>2, <1>11, OwnPendingKept
<1>12. \A q \in Paths : ByDir(q)' <=> ByDir(q)
  BY <1>0 DEF ByDir
<1>13. Pending'
  <2> SUFFICES ASSUME NEW q \in Paths, Owed(q)' PROVE Coming(q)'
    BY DEF Pending
  <2>1. Owed(q) /\ q # p /\ DirOf(q) # p /\ DirOf(q) \in Paths
    BY <1>0, <1>5, <1>6, DirFacts DEF Owed, Mirrored
  <2> QED
    BY <1>11, <1>12, <2>1 DEF Pending, Coming
<1>14. Succeeded'
  <2> SUFFICES ASSUME NEW q \in Paths
      PROVE /\ run'[q].pc \in Working => Len(chain'[q]) > 1 \/ ByDir(q)' \/ Fresh(q)'
            /\ Records(q)' => Len(chain'[q]) > 1 \/ ByDir(q)' \/ vfs'[q] = Link
            /\ Removing(q)' => /\ Len(chain'[q]) > 1 \/ vfs'[q] = None
                               /\ ~workload.again \/ IsDir(q) => vfs'[q] = None
    BY <1>0 DEF Succeeded
  <2>1. CASE q # p
    <3>1. (Removing(q)' <=> Removing(q)) /\ (Fresh(q)' <=> Fresh(q))
      BY <1>0, <1>2, <2>1 DEF Removing, Fresh, Present
    <3> QED
      BY <1>0, <1>2, <1>12, <2>1, <3>1 DEF Succeeded
  <2>2. CASE q = p
    BY <1>2, <2>2 DEF Removing, Working
  <2> QED
    BY <2>1, <2>2
<1>15. RecordsFirst'
  <2>1. ASSUME NEW q \in Paths, Records(q)', DirOf(q) \in gone
        PROVE  q \in unlucky' \/ OwnPending(DirOf(q))'
    <3>1. Records(q) /\ q # p /\ DirOf(q) \in Paths
      BY <1>2, <2>1, DirFacts
    <3>2. q \in unlucky \/ OwnPending(DirOf(q))
      BY <2>1, <3>1 DEF RecordsFirst
    <3> QED
      BY <1>5, <1>6, <1>11, <3>1, <3>2
  <2> QED
    BY <1>0, <1>3, <2>1 DEF RecordsFirst
<1>16. UnluckyDirs'
  <2>1. IsDir(p) => p \in gone
    BY <1>4 DEF Once, Succeeded, Removing
  <2> SUFFICES ASSUME NEW q \in unlucky', IsDir(q) PROVE q \in gone /\ Children(q) \subseteq unlucky'
    BY <1>0 DEF UnluckyDirs
  <2>2. CASE q \in unlucky
    BY <1>5, <2>2 DEF UnluckyDirs
  <2>3. CASE q = p
    BY <1>5, <2>1, <2>3 DEF Under
  <2> QED
    BY <1>5, <2>2, <2>3 DEF Under, Children
<1> QED
  BY <1>3, <1>7, <1>8, <1>9, <1>10, <1>13, <1>14, <1>15, <1>16

\* Either way.
LEMMA ManifestDoneKeeps ==
  ASSUME SafeUse, Typed, Typed', Remembered, ManifestDone
  PROVE  Remembered'
<1>1. mqueue # <<>>
  BY DEF ManifestDone, Typed, Awaits
<1> QED
  BY <1>1, ManifestSavedKeeps, ManifestFailsKeeps DEF ManifestDone

-----------------------------------------------------------------------------
(* The next boot, every step, and what follows.                             *)

\* The next boot starts with what OPFS holds.
LEMMA ReloadKeeps ==
  ASSUME Typed, Typed', Remembered, Reload
  PROVE  Remembered'
<1>1. /\ \A q \in Paths : /\ chain'[q] = <<>> /\ run'[q] = Off /\ flush'.left[q] = 0
      /\ \A d \in Dirs : cache'[d] = "none"
      /\ mqueue' = <<>> /\ flush'.state = "none"
      /\ gone' = {} /\ since' = {} /\ unlucky' = {}
      /\ UNCHANGED <<ops, workload, opfs>>
  BY DEF Reload, NewMirror
<1>2. PICK links \in Readable : /\ vfs' = Restored(links)
                                /\ manifest' = {p \in links : opfs[DirOf(p)] = Dir}
  BY DEF Reload
<1>3. links \subseteq manifest /\ manifest \subseteq Paths
  BY <1>2 DEF Readable, Typed, MirrorTypes
<1>4. \A q \in Paths : vfs'[q] = IF opfs[q] = None /\ q \in manifest' THEN Link ELSE opfs[q]
  BY <1>2 DEF Restored
<1>5. \A q \in manifest' : q \in Paths /\ opfs[q] = None /\ ~IsDir(q) /\ opfs[DirOf(q)] = Dir
  BY <1>2, <1>3 DEF Remembered, LinksApart
<1>6. \A q \in Paths : /\ q \in manifest' => vfs'[q] = Link
                       /\ q \notin manifest' => vfs'[q] = opfs[q]
  BY <1>4, <1>5
<1>7. \A q \in Paths : opfs[q].kind \in {"none", "dir", "file"} /\ opfs[q] # Link
  BY PathFacts, Kinds DEF Remembered, Trees
<1>8. /\ Off.pc = "off" /\ Off.ver = 0 /\ "off" \notin Working
      /\ \A q \in Paths : run'[q].pc = "off" /\ run'[q].ver = 0
  BY <1>1 DEF Off, At, Working
<1>9. \A q : ~Records(q)' /\ ~Unlinks(q)'
  BY <1>1 DEF Records, Unlinks
<1>10. Alone'
  <2>1. \A q \in Paths : q \notin Running' /\ Len(chain'[q]) = 0
    BY <1>1, <1>8 DEF Running
  <2>2. Len(mqueue') = 0
    BY <1>1
  <2> QED
    BY <1>1, <1>8, <2>1, <2>2 DEF Alone
<1>11. Versions'
  <2>1. ops >= 0
    <3>1. ops \in 0..MaxOps
      BY DEF Typed, GuestTypes
    <3> QED
      BY <3>1, MirrorAssumption
  <2>2. ASSUME NEW q \in Paths PROVE vfs'[q].ver <= ops /\ opfs[q].ver <= ops
    BY <1>6, <2>1, Kinds DEF Remembered, Versions
  <2> QED
    BY <1>1, <1>8, <2>1, <2>2 DEF Versions
<1>12. Trees'
  <2> SUFFICES ASSUME NEW q \in Paths
      PROVE /\ vfs'[q].kind \in (IF IsDir(q) THEN {"none", "dir"} ELSE {"none", "file", "link"})
            /\ Present(q)' => Present(DirOf(q))'
    BY <1>1, <1>8, DirFacts DEF Remembered, Trees
  <2>1. vfs'[q].kind \in (IF IsDir(q) THEN {"none", "dir"} ELSE {"none", "file", "link"})
    BY <1>5, <1>6, Kinds DEF Remembered, Trees
  <2>2. Present(q)' => opfs[DirOf(q)] = Dir
    <3>1. q \notin manifest' /\ Present(q)' => opfs[q] # None
      BY <1>6, Kinds DEF Present
    <3> QED
      BY <1>5, <3>1 DEF Remembered, Trees
  <2>3. DirOf(q) \in Paths /\ (opfs[DirOf(q)] = Dir => vfs'[DirOf(q)] = Dir)
    <3>1. DirOf(q) \in Paths /\ IsDir(DirOf(q))
      BY DirFacts
    <3> QED
      BY <1>5, <1>6, <3>1
  <2> QED
    BY <2>1, <2>2, <2>3, Kinds DEF Present
<1>13. Once'
  <2>1. workload.again => manifest' = {} /\ \A q \in Paths : vfs'[q] # Link
    <3>1. workload.again => manifest = {}
      BY DEF Remembered, Once
    <3>2. workload.again => manifest' = {}
      BY <1>2, <1>3, <3>1
    <3> QED
      BY <1>6, <1>7, <3>2
  <2>2. ASSUME NEW q \in Paths, vfs'[q] = None
        PROVE  /\ chain'[q] = <<>> /\ opfs[q] = None /\ q \notin manifest'
               /\ IsDir(q) => cache'[q[1]] = "none"
    BY <1>1, <1>6, <2>2, Kinds, DirFacts
  <2> QED
    BY <1>1, <1>9, <2>1, <2>2 DEF Once
<1>14. LinksApart'
  <2> SUFFICES ASSUME NEW q \in Paths, vfs'[q] = Link \/ q \in manifest'
               PROVE  opfs[q] = None /\ vfs'[q].kind \in {"none", "link"} /\ ~IsDir(q)
    BY <1>1, <1>8, <1>9 DEF LinksApart
  <2> QED
    BY <1>5, <1>6, <1>7, Kinds
<1>15. Pending'
  <2>1. ASSUME NEW q \in Paths PROVE Mirrored(q)'
    <3>1. CASE q \in manifest'
      BY <1>1, <1>5, <1>6, <3>1, Kinds DEF Mirrored
    <3>2. CASE q \notin manifest'
      BY <1>1, <1>6, <1>7, <3>2, PathFacts, Kinds DEF Mirrored
    <3> QED
      BY <3>1, <3>2
  <2> QED
    BY <2>1 DEF Pending, Owed
<1>16. Succeeded' /\ RecordsFirst'
  <2>1. Len(mqueue') = 0
    BY <1>1
  <2> QED
    BY <1>8, <1>9, <2>1 DEF Succeeded, RecordsFirst, Removing
<1>17. UnluckyDirs' /\ Flushed'
  BY <1>1 DEF UnluckyDirs, Flushed, Present
<1> QED
  BY <1>10, <1>11, <1>12, <1>13, <1>14, <1>15, <1>16, <1>17 DEF Remembered

\* Nothing is walked, so a task that has done its own path is over.
LEMMA ProceedKeeps ==
  ASSUME Typed, Typed', Remembered, NEW p \in Paths, Proceed(p)
  PROVE  Remembered'
<1>1. run[p].pc = "next" /\ run[p].todo = {}
  BY OwnTask DEF Proceed
<1>2. /\ End(p) /\ UNCHANGED <<cache, opfs, mqueue>>
      /\ UNCHANGED <<guestVars, manifest, mbusy, poisoned, unlucky>>
  BY <1>1 DEF Proceed
<1> QED
  BY <1>1, <1>2, EndKeeps DEF manifestVars

\* Where directories can be made no request for one fails.
LEMMA HandleNeverFails ==
  ASSUME Remembered, NEW d \in Dirs
  PROVE  ~HandleFailed(d)
BY DEF HandleFailed, Waiters, Running, Remembered, Alone

\* No step forgets anything.
LEMMA RememberedStep ==
  ASSUME SafeUse, Typed, Typed', Remembered, [Next]_vars
  PROVE  Remembered'
<1>1. CASE UNCHANGED vars
  <2>1. /\ UNCHANGED <<guestVars, chain, run, mqueue, cache, opfs, manifest, unlucky, flush>>
        /\ UNCHANGED <<vfs, ops, gone, since, workload>>
    BY <1>1 DEF vars, guestVars, taskVars, manifestVars
  <2>2. /\ \A q : Records(q)' <=> Records(q)
        /\ \A q : Unlinks(q)' <=> Unlinks(q)
    BY <2>1, SameQueue
  <2>3. \A q \in Paths : OwnPending(q) => OwnPending(q)'
    BY <2>1, <2>2, OwnPendingKept
  <2>4. Alone' /\ Flushed' /\ \A q \in Paths : Removing(q)' => Removing(q)
    <3>1. Running' = Running
      BY <2>1 DEF Running
    <3> QED
      BY <2>1, <2>2, <3>1 DEF Remembered, Alone, Flushed, Present, Removing
  <2> QED
    BY <2>1, <2>2, <2>3, <2>4, QuietStep DEF Remembered, RecordsFirst, Versions
<1>2. CASE Guest
  BY <1>2, GuestKeeps
<1>3. CASE AskFlush
  BY <1>3, AskFlushKeeps
<1>4. CASE Reload
  BY <1>4, ReloadKeeps
<1>5. ASSUME NEW p \in Paths, Micro(p) PROVE Remembered'
  BY <1>5, AcquireKeeps, BeginKeeps, GoKeeps, ProceedKeeps DEF Micro
<1>6. ASSUME NEW p \in Paths, Answer(p) PROVE Remembered'
  BY <1>6, OpenedKeeps, ClosedKeeps, OthersKeep, RemovedKeeps DEF Answer
<1>7. ASSUME NEW d \in Dirs, HandleCame(d) \/ HandleFailed(d) PROVE Remembered'
  BY <1>7, HandleCameKeeps, HandleNeverFails
<1>8. CASE ManifestStart
  BY <1>8, ManifestStartKeeps
<1>9. CASE ManifestDone
  BY <1>9, ManifestDoneKeeps
<1> QED
  BY <1>1, <1>2, <1>3, <1>4, <1>5, <1>6, <1>7, <1>8, <1>9 DEF Next, Mirror

\* The inductive invariant.
LEMMA AlwaysRemembered == ASSUME SafeUse PROVE Spec => [](Typed /\ Remembered)
<1>1. Init => Typed /\ Remembered
  BY InitTyped, InitRemembered
<1>2. Typed /\ Remembered /\ [Next]_vars => (Typed /\ Remembered)'
  BY TypedStep, RememberedStep
<1> QED
  BY <1>1, <1>2, PTL DEF Spec

\* Under such use, a path whose mirror differs from the tree has a notification
\* of its own or of its directory to come, or OPFS refused a request of its own
\* (schedule, syncPath): whatever the order of answers, failures and reloads.
THEOREM NothingIsForgotten == ASSUME SafeUse PROVE Spec => []NothingForgotten
<1>1. Remembered => NothingForgotten
  BY DEF Remembered, Pending, NothingForgotten, Owed, Coming, OwnPending
<1> QED
  BY <1>1, AlwaysRemembered, PTL

\* Under such use, a flush that has come back leaves nothing of before it to be
\* lost by a reload, at whatever moment, but a link whose manifest is being
\* written (flush, persistenceFlusher.ts:15-17).
THEOREM FlushIsDurable == ASSUME SafeUse PROVE Spec => []FlushMeansDurable
<1>1. ASSUME Typed, Remembered, flush.state = "done",
             NEW p \in Paths \ (since \cup unlucky), NEW links \in Readable
      PROVE  Restored(links)[p] = vfs[p] \/ (Saving /\ vfs[p] = Link)
  <2>1. \A q \in Paths : q \notin since => ~OwnPending(q)
    <3>1. \A q \in Paths : q \notin since => Len(chain[q]) = 0
      BY <1>1 DEF Remembered, Flushed
    <3>2. \A q \in Paths : chain[q] \in Seq(BOOLEAN)
      BY <1>1 DEF Typed, MirrorTypes
    <3>3. \A q \in Paths : q \notin since => chain[q] = <<>>
      BY <3>1, <3>2
    <3> QED
      BY <3>3 DEF OwnPending
  <2>2. \A q \in Paths \ (since \cup unlucky) : Mirrored(q)
    <3> SUFFICES ASSUME NEW q \in Paths \ (since \cup unlucky), ~Mirrored(q) PROVE FALSE
      OBVIOUS
    <3>1. ByDir(q) /\ OwnPending(DirOf(q))
      BY <1>1, <2>1 DEF Remembered, Pending, Owed, Coming
    <3>2. DirOf(q) \in Paths
      BY DirFacts
    <3> QED
      BY <2>1, <3>1, <3>2 DEF ByDir
  <2>3. Restored(links)[p] = IF opfs[p] = None /\ p \in links /\ opfs[DirOf(p)] = Dir
                             THEN Link ELSE opfs[p]
    BY DEF Restored
  <2>4. links = manifest \/ (Saving /\ links = {})
    BY DEF Readable
  <2>5. Mirrored(p) /\ vfs[p] \in Contents
    BY <1>1, <2>2, PathFacts
  <2>6. CASE vfs[p].kind \in {"file", "dir"}
    BY <2>3, <2>5, <2>6, Kinds DEF Mirrored
  <2>7. CASE vfs[p].kind = "none"
    BY <2>3, <2>4, <2>5, <2>7, Kinds DEF Mirrored
  <2>8. CASE vfs[p].kind = "link"
    <3>1. vfs[p] = Link /\ opfs[p] = None /\ p \in manifest
      BY <2>5, <2>8, Kinds DEF Mirrored
    <3>2. DirOf(p) \in Paths /\ IsDir(DirOf(p))
      BY DirFacts
    <3>3. Present(DirOf(p)) /\ DirOf(p) \notin since
      BY <1>1, <2>8 DEF Remembered, Trees, Flushed, Present
    <3>4. vfs[DirOf(p)] = Dir
      BY <1>1, <3>2, <3>3, PathFacts, Kinds DEF Remembered, Trees, Present
    <3>5. DirOf(p) \notin unlucky
      BY <1>1, <3>2, <3>4, Kinds DEF Remembered, UnluckyDirs, Once
    <3>6. opfs[DirOf(p)] = Dir
      BY <2>2, <3>2, <3>3, <3>4, <3>5, Kinds DEF Mirrored
    <3> QED
      BY <2>3, <2>4, <3>1, <3>6
  <2> QED
    BY <2>5, <2>6, <2>7, <2>8, Kinds
<1>2. Typed /\ Remembered => FlushMeansDurable
  BY <1>1 DEF FlushMeansDurable
<1> QED
  BY <1>2, AlwaysRemembered, PTL
=============================================================================
