------------------------- MODULE LazyRestoreProofs -------------------------
(***************************************************************************)
(* Proofs about lazy restore, for every set of projects, of names and of   *)
(* clients and every number of requests.                                   *)
(***************************************************************************)
EXTENDS LazyRestore, FiniteSetTheorems, TLAPS

-----------------------------------------------------------------------------
(* What requests do to a tree.                                              *)

\* A request is about projects, and one about a file names it.
LEMMA RequestShape ==
  ASSUME NEW q \in Requests
  PROVE  /\ q.roots \subseteq Roots
         /\ q.kind \in {"read", "write", "unlink", "move", "mkdir", "rmTree"}
         /\ q.kind \in {"read", "write", "unlink", "move"} => q.name \in Names
BY DEF Requests

\* What a request may leave: a move moves one way or the other.
LEMMA MoveResults ==
  ASSUME NEW q \in Requests, q.kind = "move", NEW t, NEW u
  PROVE  u \in Results(q, t) <=>
           \E from \in q.roots, to \in q.roots : from # to /\ u = Moved(t, q.name, from, to)
<1>1. ASSUME u \in Results(q, t)
      PROVE  \E from \in q.roots, to \in q.roots : from # to /\ u = Moved(t, q.name, from, to)
  BY <1>1 DEF Results
<1>2. ASSUME NEW from \in q.roots, NEW to \in q.roots, from # to, u = Moved(t, q.name, from, to)
      PROVE  u \in Results(q, t)
  <2>1. /\ <<from, to>> \in {d \in q.roots \X q.roots : d[1] # d[2]}
        /\ u = Moved(t, q.name, <<from, to>>[1], <<from, to>>[2])
    BY <1>2
  <2>2. u \in {Moved(t, q.name, p[1], p[2]) : p \in {d \in q.roots \X q.roots : d[1] # d[2]}}
    BY <2>1
  <2> QED
    BY <2>2 DEF Results
<1> QED
  BY <1>1, <1>2

\* A move changes two projects that are there, and leaves a tree.
LEMMA MovedTree ==
  ASSUME NEW t \in Trees, NEW name \in Names, NEW from \in Roots, NEW to \in Roots, from # to
  PROVE  /\ Moved(t, name, from, to) \in Trees
         /\ \A r \in Roots : r # from /\ r # to => Moved(t, name, from, to)[r] = t[r]
         /\ \A r \in Roots : t[r] = Gone => Moved(t, name, from, to)[r] = Gone
<1> DEFINE u == [t EXCEPT ![from][name] = "none", ![to][name] = t[from][name]]
<1>1. CASE Gone \in {t[from], t[to]} \/ t[from][name] = "none"
  BY <1>1 DEF Moved
<1>2. CASE ~(Gone \in {t[from], t[to]} \/ t[from][name] = "none")
  <2>1. t[from] \in [Names -> Contents] /\ t[to] \in [Names -> Contents]
    BY <1>2 DEF Trees
  <2>2. /\ u[from] = [t[from] EXCEPT ![name] = "none"]
        /\ u[to] = [t[to] EXCEPT ![name] = t[from][name]]
        /\ \A r \in Roots : r # from /\ r # to => u[r] = t[r]
        /\ DOMAIN u = Roots /\ u = [r \in Roots |-> u[r]]
    BY DEF Trees
  <2>3. u[from] \in [Names -> Contents] /\ u[to] \in [Names -> Contents]
    BY <2>1, <2>2 DEF Contents
  <2>4. u \in Trees
    BY <2>2, <2>3 DEF Trees
  <2> QED
    BY <1>2, <2>2, <2>4 DEF Moved
<1> QED
  BY <1>1, <1>2

\* What any request may leave is a tree again; other projects are as they were;
\* what is gone stays gone unless it is made again; what is removed is gone.
LEMMA ResultsShape ==
  ASSUME NEW q \in Requests, NEW t \in Trees, NEW u \in Results(q, t)
  PROVE  /\ u \in Trees
         /\ \A r \in Roots \ q.roots : u[r] = t[r]
         /\ q.kind # "mkdir" => \A r \in Roots : t[r] = Gone => u[r] = Gone
         /\ q.kind = "rmTree" => \A r \in q.roots : u[r] = Gone
<1>1. CASE q.kind = "read"
  BY <1>1 DEF Results
<1>2. CASE q.kind \in {"write", "unlink"}
  <2>1. \A x \in {"new", "none"}, r \in Roots :
          t[r] # Gone => [t[r] EXCEPT ![q.name] = x] \in [Names -> Contents]
    BY DEF Trees, Contents
  <2> QED
    BY <1>2, <2>1 DEF Results, Trees
<1>3. CASE q.kind = "move"
  BY <1>3, RequestShape, MoveResults, MovedTree
<1>4. CASE q.kind = "mkdir"
  BY <1>4 DEF Results, Trees, Empty, Contents
<1>5. CASE q.kind = "rmTree"
  BY <1>5, RequestShape DEF Results, Trees
<1> QED
  BY <1>1, <1>2, <1>3, <1>4, <1>5, RequestShape

\* A request cannot tell two trees apart that agree on its projects: what it
\* does to one it does to the other, and its answer is the same.
LEMMA ResultsAreLocal ==
  ASSUME NEW q \in Requests, NEW t \in Trees, NEW s \in Trees, NEW u \in Results(q, t),
         \A r \in q.roots : s[r] = t[r]
  PROVE  /\ [r \in Roots |-> IF r \in q.roots THEN u[r] ELSE s[r]] \in Results(q, s)
         /\ Answer(q, s) = Answer(q, t)
<1> DEFINE v == [r \in Roots |-> IF r \in q.roots THEN u[r] ELSE s[r]]
<1>1. q.roots \subseteq Roots /\ s = [r \in Roots |-> s[r]]
  BY RequestShape DEF Trees
<1>2. CASE q.kind = "read"
  <2>1. u = t
    BY <1>2 DEF Results
  <2>2. v = s
    BY <1>1, <2>1
  <2> QED
    BY <1>2, <2>2 DEF Results, Answer
<1>3. CASE q.kind \in {"write", "unlink"}
  <2>1. v = [r \in Roots |-> IF r \notin q.roots \/ s[r] = Gone THEN s[r]
                             ELSE [s[r] EXCEPT ![q.name] =
                                     IF q.kind = "write" THEN "new" ELSE "none"]]
    BY <1>1, <1>3 DEF Results
  <2> QED
    BY <1>3, <2>1 DEF Results, Answer
<1>4. CASE q.kind = "move"
  <2>1. PICK from \in q.roots, to \in q.roots : from # to /\ u = Moved(t, q.name, from, to)
    BY <1>4, MoveResults
  <2>2. q.roots = {from, to}
    BY <1>4, <2>1 DEF Requests
  <2>3. v = Moved(s, q.name, from, to)
    BY <1>1, <2>1, <2>2 DEF Moved, Trees
  <2> QED
    BY <1>4, <2>1, <2>3, MoveResults DEF Answer
<1>5. CASE q.kind = "mkdir"
  <2>1. v = [r \in Roots |-> IF r \in q.roots /\ s[r] = Gone THEN Empty ELSE s[r]]
    BY <1>1, <1>5 DEF Results
  <2> QED
    BY <1>5, <2>1 DEF Results, Answer
<1>6. CASE q.kind = "rmTree"
  <2>1. v = [r \in Roots |-> IF r \in q.roots THEN Gone ELSE s[r]]
    BY <1>1, <1>6 DEF Results
  <2> QED
    BY <1>6, <2>1 DEF Results, Answer
<1> QED
  BY <1>2, <1>3, <1>4, <1>5, <1>6, RequestShape

\* What a read is answered with.
LEMMA AnswerType ==
  ASSUME NEW q \in Requests, NEW t \in Trees
  PROVE  Answer(q, t) \subseteq Contents \cup {"gone"}
<1>1. \A r \in Roots : q.kind = "read" => t[r][q.name] \in Contents \cup {"gone"}
  BY RequestShape DEF Trees, Gone
<1> QED
  BY <1>1, RequestShape DEF Answer

-----------------------------------------------------------------------------
(* Type correctness: the counter of restores is their number.               *)

Restoring == {r \in Roots : Busy(r)}

\* A request that is carried out leaves types.
LEMMA CarryTypes ==
  ASSUME TypeOK, NEW c \in Clients, NEW q \in Requests, Carry(c, q)
  PROVE  /\ vfs' \in Trees
         /\ said' \subseteq Contents \cup {"gone"}
         /\ request' \in [Clients -> {NoRequest} \cup [q : Requests, waits : SUBSET Roots]]
BY ResultsShape, AnswerType DEF Carry, TypeOK

\* Restorations that start leave types, and are counted.
LEMMA MaterializeTypes ==
  ASSUME TypeOK, NEW R \in SUBSET Roots, Materialize(R)
  PROVE  /\ task' \in [Roots -> Stages]
         /\ depth' = Cardinality(Restoring') /\ hook' \in {"real", "none"}
         /\ UNCHANGED <<pending, todo>>
<1> DEFINE begun == {r \in R : ~Busy(r)}
<1>1. IsFiniteSet(Restoring) /\ IsFiniteSet(begun) /\ Restoring \cap begun = {}
  <2>1. Restoring \in SUBSET Roots /\ begun \in SUBSET Roots
    BY DEF Restoring
  <2> QED
    BY <2>1, LazyAssumption, FS_Subset DEF Restoring
<1>2. Restoring' = Restoring \cup begun
  BY DEF Restoring, Busy, Materialize, TypeOK, Stages
<1>3. Cardinality(Restoring') = Cardinality(Restoring) + Cardinality(begun)
  <2>1. Cardinality(Restoring \cup begun) =
          Cardinality(Restoring) + Cardinality(begun) - Cardinality(Restoring \cap begun)
    BY <1>1, FS_Union
  <2>2. Cardinality(Restoring \cap begun) = 0
    BY <1>1, FS_EmptySet
  <2>3. Cardinality(Restoring) \in Nat /\ Cardinality(begun) \in Nat
    BY <1>1, FS_CardinalityType
  <2>4. Cardinality(Restoring') = Cardinality(Restoring \cup begun)
    BY <1>2
  <2> QED
    BY <2>1, <2>2, <2>3, <2>4
<1>4. depth = Cardinality(Restoring)
  BY DEF TypeOK, Restoring
<1> QED
  BY <1>3, <1>4 DEF Materialize, TypeOK, Stages

\* One that ends, restored or rejected, is restoring no more.
LEMMA EndsShape ==
  ASSUME TypeOK, NEW r \in Roots, task[r] \in {"settle", "throw"}, Ended(r)
  PROVE  /\ task' \in [Roots -> Stages]
         /\ Busy(r) /\ ~Busy(r)'
         /\ \A x \in Roots : x # r => task'[x] = task[x]
BY DEF Ended, TypeOK, Stages, Busy

\* The files are there and the types are kept; r is still restoring.
LEMMA DoneShape ==
  ASSUME TypeOK, NEW r \in Roots, Busy(r), FilesDone(r)
  PROVE  /\ task' \in [Roots -> Stages]
         /\ task'[r] \in {"links", "settle"} /\ Restoring' = Restoring
         /\ \A x \in Roots : x # r => task'[x] = task[x]
<1>1. PICK next \in {"settle", "links"} : task' = [task EXCEPT ![r] = next]
  BY DEF FilesDone
<1>2. /\ task' \in [Roots -> Stages] /\ task'[r] = next
      /\ \A x \in Roots : x # r => task'[x] = task[x]
  BY <1>1 DEF TypeOK, Stages
<1>3. Restoring' = Restoring
  BY <1>2 DEF Restoring, Busy
<1> QED
  BY <1>2, <1>3

\* One that settles is counted down.
LEMMA SettleCounts ==
  ASSUME TypeOK, NEW r \in Roots, Settle(r)
  PROVE  depth' = Cardinality(Restoring') /\ depth \in Nat \ {0}
<1>1. Restoring' = Restoring \ {r} /\ r \in Restoring
  BY EndsShape DEF Settle, Restoring, Busy
<1>2. Restoring \in SUBSET Roots
  BY DEF Restoring
<1>3. IsFiniteSet(Restoring)
  BY <1>2, LazyAssumption, FS_Subset
<1>4. depth = Cardinality(Restoring) /\ Cardinality(Restoring) \in Nat
  BY <1>3, FS_CardinalityType DEF TypeOK, Restoring
<1>5. Cardinality(Restoring) # 0
  BY <1>1, <1>3, FS_EmptySet
<1>6. Cardinality(Restoring') = Cardinality(Restoring) - 1
  BY <1>1, <1>3, FS_RemoveElement
<1> QED
  BY <1>4, <1>5, <1>6 DEF Settle

\* A request that comes in.
LEMMA DoorbellTypes ==
  ASSUME TypeOK, NEW c \in Clients, NEW q \in Requests, Doorbell(c, q)
  PROVE  TypeOK'
<1>1. ops' \in 0..MaxOps /\ UNCHANGED <<opfs, echoed>>
  BY LazyAssumption DEF Doorbell, TypeOK
<1>2. CASE Carry(c, q) /\ UNCHANGED <<task, todo, depth, hook>> /\ pending' \subseteq pending
  BY <1>1, <1>2, CarryTypes DEF TypeOK, Busy, opfs
<1>3. CASE /\ Materialize(q.roots \cap pending)
           /\ request' = [request EXCEPT ![c] = [q |-> q, waits |-> q.roots \cap pending]]
           /\ UNCHANGED <<vfs, said>>
  <2>1. q.roots \cap pending \in SUBSET Roots
    BY DEF TypeOK
  <2>2. /\ task' \in [Roots -> Stages]
        /\ depth' = Cardinality(Restoring') /\ hook' \in {"real", "none"}
        /\ UNCHANGED <<pending, todo>>
    BY <1>3, <2>1, MaterializeTypes
  <2>3. request' \in [Clients -> {NoRequest} \cup [q : Requests, waits : SUBSET Roots]]
    BY <1>3, <2>1 DEF TypeOK
  <2> QED
    BY <1>1, <1>3, <2>2, <2>3 DEF TypeOK, Restoring, opfs
<1> QED
  BY <1>2, <1>3 DEF Doorbell, restoreVars

\* A restore that goes on, and a request that waited for it.
LEMMA RestoreTypes ==
  ASSUME TypeOK, Restore
  PROVE  TypeOK'
<1>1. ASSUME NEW r \in Roots, Collect(r) PROVE TypeOK'
  <2>1. task[r] = "collect" /\ Busy(r)
    BY <1>1 DEF Collect, Busy
  <2>2. task' \in [Roots -> Stages] /\ Restoring' = Restoring
    <3>1. CASE FilesDone(r)
      BY <2>1, <3>1, DoneShape
    <3>2. ASSUME NEW x \in {"throw", "files"}, task' = [task EXCEPT ![r] = x]
          PROVE  task' \in [Roots -> Stages] /\ Restoring' = Restoring
      BY <2>1, <3>2 DEF TypeOK, Stages, Restoring, Busy
    <3> QED
      BY <1>1, <3>1, <3>2 DEF Collect
  <2>3. todo' \in [Roots -> SUBSET Names]
    BY <1>1 DEF Collect, TypeOK
  <2> QED
    BY <1>1, <2>2, <2>3 DEF Collect, TypeOK, Restoring, opfs
<1>2. ASSUME NEW r \in Roots, NEW n \in Names, RestoreFile(r, n) PROVE TypeOK'
  <2>1. task[r] = "files" /\ Busy(r)
    BY <1>2 DEF RestoreFile, Busy
  <2>2. task' \in [Roots -> Stages] /\ Restoring' = Restoring
    <3>1. CASE FilesDone(r)
      BY <2>1, <3>1, DoneShape
    <3>2. CASE UNCHANGED task
      BY <3>2 DEF TypeOK, Restoring, Busy
    <3> QED
      BY <1>2, <3>1, <3>2 DEF RestoreFile
  <2>3. todo' \in [Roots -> SUBSET Names] /\ echoed' \subseteq Roots
    BY <1>2 DEF RestoreFile, TypeOK
  <2>4. vfs' \in Trees
    <3>1. CASE vfs[r] # Gone /\ stored[r][n] = "old"
      <4>1. vfs[r] \in [Names -> Contents]
        BY <3>1 DEF TypeOK, Trees
      <4>2. [vfs[r] EXCEPT ![n] = "old"] \in [Names -> Contents]
        BY <4>1 DEF Contents
      <4> QED
        BY <1>2, <3>1, <4>2 DEF RestoreFile, TypeOK, Trees
    <3>2. CASE ~(vfs[r] # Gone /\ stored[r][n] = "old")
      BY <1>2, <3>2 DEF RestoreFile, TypeOK
    <3> QED
      BY <3>1, <3>2
  <2> QED
    BY <1>2, <2>2, <2>3, <2>4 DEF RestoreFile, TypeOK, Restoring, opfs
<1>3. ASSUME NEW r \in Roots, Settle(r) PROVE TypeOK'
  <2>1. task' \in [Roots -> Stages]
    BY <1>3, EndsShape DEF Settle
  <2> QED
    BY <1>3, <2>1, SettleCounts DEF Settle, TypeOK, Restoring, opfs
<1>5. ASSUME NEW r \in Roots, SaveLinks(r) PROVE TypeOK'
  <2>1. task' \in [Roots -> Stages] /\ Restoring' = Restoring
    BY <1>5 DEF SaveLinks, TypeOK, Stages, Restoring, Busy
  <2> QED
    BY <1>5, <2>1 DEF SaveLinks, TypeOK, Restoring, opfs
<1>4. ASSUME NEW c \in Clients, Serve(c) PROVE TypeOK'
  <2>1. request[c].q \in Requests
    BY <1>4 DEF Serve, Asked, TypeOK
  <2> QED
    BY <1>4, <2>1, CarryTypes DEF Serve, TypeOK, restoreVars, Busy, opfs
<1> QED
  BY <1>1, <1>2, <1>3, <1>4, <1>5 DEF Restore

\* No step breaks the types.
LEMMA NextTypes ==
  ASSUME TypeOK, [Next]_vars
  PROVE  TypeOK'
<1>1. CASE UNCHANGED vars
  BY <1>1 DEF vars, opfs, restoreVars, TypeOK, Busy
<1> QED
  BY <1>1, DoorbellTypes, RestoreTypes DEF Next, Guest

\* The types hold at first.
LEMMA InitTypes ==
  ASSUME Init
  PROVE  TypeOK
<1>1. {r \in Roots : Busy(r)} = {}
  BY DEF Init, Busy
<1>2. Cardinality({r \in Roots : Busy(r)}) = 0
  BY <1>1, FS_EmptySet
<1>3. vfs \in Trees
  BY DEF Init, Trees, Empty, Contents
<1> QED
  BY <1>2, <1>3, LazyAssumption DEF Init, TypeOK, Stages

\* Every variable keeps its type, and the counter of restores is their number.
THEOREM LazyTypeCorrect == Spec => []TypeOK
BY InitTypes, NextTypes, PTL DEF Spec

-----------------------------------------------------------------------------
(* What is restored is not reported.                                        *)

\* While a file is written the counter is not zero, so the handler is off.
LEMMA NextIsSilent ==
  ASSUME TypeOK, HandlerOff, RestoreIsSilent, [Next]_vars
  PROVE  HandlerOff' /\ RestoreIsSilent'
<1>1. depth \in Nat /\ \A r \in Roots : Busy(r) => depth # 0
  <2>1. Restoring \in SUBSET Roots
    BY DEF Restoring
  <2>2. IsFiniteSet(Restoring) /\ depth = Cardinality(Restoring)
    BY <2>1, LazyAssumption, FS_Subset DEF TypeOK, Restoring
  <2> QED
    BY <2>2, FS_EmptySet, FS_CardinalityType DEF Restoring
<1>2. ASSUME UNCHANGED <<depth, hook, echoed>> PROVE HandlerOff' /\ RestoreIsSilent'
  BY <1>2 DEF HandlerOff, RestoreIsSilent
<1>3. ASSUME NEW c \in Clients, NEW q \in Requests, Doorbell(c, q)
      PROVE  HandlerOff' /\ RestoreIsSilent'
  <2>1. CASE UNCHANGED <<depth, hook>>
    BY <1>2, <1>3, <2>1 DEF Doorbell
  <2>2. CASE Materialize(q.roots \cap pending)
    <3> DEFINE begun == {r \in q.roots \cap pending : ~Busy(r)}
    <3>1. begun \in SUBSET Roots
      BY DEF TypeOK
    <3>2. Cardinality(begun) \in Nat /\ (begun # {} => Cardinality(begun) # 0)
      BY <3>1, LazyAssumption, FS_Subset, FS_EmptySet, FS_CardinalityType
    <3>3. begun = {} => Cardinality(begun) = 0
      BY FS_EmptySet
    <3>4. depth' = depth + Cardinality(begun) /\ hook' = IF begun # {} THEN "none" ELSE hook
      BY <2>2 DEF Materialize
    <3> HIDE DEF begun
    <3> QED
      BY <1>1, <1>3, <3>2, <3>3, <3>4 DEF HandlerOff, RestoreIsSilent, Doorbell
  <2> QED
    BY <1>3, <2>1, <2>2 DEF Doorbell, restoreVars
<1>4. ASSUME NEW r \in Roots, Settle(r) PROVE HandlerOff' /\ RestoreIsSilent'
  BY <1>1, <1>4, SettleCounts DEF Settle, HandlerOff, RestoreIsSilent
<1>5. ASSUME NEW r \in Roots, NEW n \in Names, RestoreFile(r, n)
      PROVE  HandlerOff' /\ RestoreIsSilent'
  BY <1>1, <1>5 DEF RestoreFile, Busy, HandlerOff, RestoreIsSilent
<1>6. CASE UNCHANGED vars
  BY <1>2, <1>6 DEF vars, restoreVars
<1> QED
  BY <1>2, <1>3, <1>4, <1>5, <1>6 DEF Next, Guest, Restore, Collect, SaveLinks, Serve, restoreVars

\* A restored file is never reported as a change, however restores overlap.
THEOREM RestoredSilently == Spec => []RestoreIsSilent
<1>1. Init => HandlerOff /\ RestoreIsSilent
  BY DEF Init, HandlerOff, RestoreIsSilent
<1>2. TypeOK /\ HandlerOff /\ RestoreIsSilent /\ [Next]_vars => HandlerOff' /\ RestoreIsSilent'
  BY NextIsSilent
<1> QED
  BY <1>1, <1>2, LazyTypeCorrect, PTL DEF Spec

-----------------------------------------------------------------------------
(* Lazy restore implements eager restore.                                   *)

\* The tree the refinement mapping reads, and what is assumed of the requests:
\* not both the removal of a project and its making.
Whole == [r \in Roots |-> IF r \in pending THEN Readable(r) ELSE vfs[r]]
NotMadeAgain == ~({"mkdir", "rmTree"} \subseteq Kinds)

\* The tree with everything in it is a tree.
LEMMA WholeType ==
  ASSUME TypeOK
  PROVE  Whole \in Trees
<1>1. \A r \in Roots : Readable(r) \in [Names -> Contents]
  BY DEF Readable, TypeOK, Held, Contents
<1> QED
  BY <1>1 DEF TypeOK, Whole, Trees

\* What can be read of a project is settled from the start.
LEMMA ReadableStays ==
  ASSUME UNCHANGED opfs
  PROVE  \A r \in Roots : Readable(r)' = Readable(r)
BY DEF opfs, Readable

\* A request that is carried out when none of its projects is pending, or that
\* removes those that are, does to the whole tree what it was asked to.
LEMMA CarryIsServe ==
  ASSUME TypeOK, NEW c \in Clients, NEW q \in Requests, Carry(c, q),
         UNCHANGED opfs, pending' = pending \ q.roots,
         q.roots \cap pending = {} \/ q.kind = "rmTree"
  PROVE  Whole' \in Results(q, Whole) /\ said' = Answer(q, Whole)
<1>1. /\ vfs' \in Results(q, vfs) /\ said' = Answer(q, vfs) /\ vfs \in Trees
      /\ \A r \in Roots \ q.roots : vfs'[r] = vfs[r]
      /\ q.kind = "rmTree" => \A r \in q.roots : vfs'[r] = Gone
      /\ q.roots \subseteq Roots
  BY ResultsShape, RequestShape DEF Carry, TypeOK
<1>2. CASE q.roots \cap pending = {}
  <2>1. \A r \in q.roots : Whole[r] = vfs[r]
    BY <1>1, <1>2 DEF Whole
  <2>2. /\ [r \in Roots |-> IF r \in q.roots THEN vfs'[r] ELSE Whole[r]] \in Results(q, Whole)
        /\ Answer(q, Whole) = Answer(q, vfs)
    BY <1>1, <2>1, WholeType, ResultsAreLocal
  <2>3. Whole' = [r \in Roots |-> IF r \in q.roots THEN vfs'[r] ELSE Whole[r]]
    BY <1>1, <1>2, ReadableStays DEF Whole
  <2> QED
    BY <1>1, <2>2, <2>3
<1>3. CASE q.kind = "rmTree"
  <2>1. Whole' = [r \in Roots |-> IF r \in q.roots THEN Gone ELSE Whole[r]]
    BY <1>1, <1>3, ReadableStays DEF Whole
  <2> QED
    BY <1>1, <1>3, <2>1 DEF Results, Answer
<1> QED
  BY <1>2, <1>3

\* It leaves what is pending, and what was discarded, as it was.
LEMMA CarryKeepsParts ==
  ASSUME NotMadeAgain, TypeOK, PartlyRestored, Waiting,
         NEW c \in Clients, NEW q \in Requests, q.kind \in Kinds, Carry(c, q),
         UNCHANGED <<opfs, task, todo>>, pending' = pending \ q.roots,
         q.roots \cap pending = {} \/ q.kind = "rmTree"
  PROVE  PartlyRestored' /\ Waiting'
<1>1. /\ \A r \in Roots \ q.roots : vfs'[r] = vfs[r]
      /\ q.kind # "mkdir" => \A r \in Roots : vfs[r] = Gone => vfs'[r] = Gone
      /\ q.kind = "rmTree" => \A r \in q.roots : vfs'[r] = Gone
      /\ q.roots \subseteq Roots
  BY ResultsShape, RequestShape DEF Carry, TypeOK
<1>2. ASSUME NEW r \in Roots, r \in pending' PROVE vfs'[r] = [n \in Names |-> SoFar(r, n)']
  BY <1>1, <1>2, ReadableStays DEF PartlyRestored, SoFar, Busy
<1>3. ASSUME NEW r \in Roots, r \notin pending', Busy(r)' PROVE vfs'[r] = Gone /\ "rmTree" \in Kinds
  <2>1. CASE r \in pending
    BY <1>1, <1>3, <2>1
  <2>2. CASE r \notin pending
    <3>1. vfs[r] = Gone /\ "rmTree" \in Kinds
      BY <1>3, <2>2 DEF PartlyRestored, Busy
    <3> QED
      BY <1>1, <3>1 DEF NotMadeAgain
  <2> QED
    BY <2>1, <2>2
<1>4. PartlyRestored'
  <2>1. \A r \in Roots : IF task'[r] = "files" THEN fault'[r] # "entries" ELSE todo'[r] = {}
    BY DEF PartlyRestored, opfs
  <2> QED
    BY <1>2, <1>3, <2>1 DEF PartlyRestored
<1>5. Waiting'
  BY DEF Carry, Waiting, Asked, Busy, TypeOK
<1> QED
  BY <1>4, <1>5

\* A request that has to wait begins what is not begun, and changes no file.
LEMMA MaterializeKeepsParts ==
  ASSUME TypeOK, PartlyRestored, Waiting, NEW c \in Clients, NEW q \in Requests,
         q.kind \in Kinds, Materialize(q.roots \cap pending),
         request' = [request EXCEPT ![c] = [q |-> q, waits |-> q.roots \cap pending]],
         UNCHANGED <<vfs, opfs>>
  PROVE  PartlyRestored' /\ Waiting'
<1>1. /\ UNCHANGED <<pending, todo>>
      /\ \A r \in Roots : task'[r] = IF r \in q.roots \cap pending /\ ~Busy(r)
                                       THEN "collect" ELSE task[r]
  BY DEF Materialize
<1>2. PartlyRestored'
  <2>1. \A r \in Roots, n \in Names : SoFar(r, n)' = SoFar(r, n)
    <3>1. ASSUME NEW r \in Roots, NEW n \in Names, task'[r] # task[r]
          PROVE  SoFar(r, n)' = SoFar(r, n)
      <4>1. task'[r] = "collect" /\ ~Busy(r)
        BY <1>1, <3>1
      <4> QED
        BY <1>1, <4>1 DEF SoFar, Busy
    <3> QED
      BY <1>1, <3>1, ReadableStays DEF SoFar, Busy
  <2> QED
    BY <1>1, <2>1 DEF PartlyRestored, Busy, opfs
<1>3. \A r \in Roots : Busy(r)' <=> Busy(r) \/ r \in q.roots \cap pending
  BY <1>1 DEF Busy
<1>4. pending \subseteq Roots
  BY DEF TypeOK
<1>5. ASSUME NEW d \in Clients, Asked(d)'
      PROVE  /\ request'[d].q.kind \in Kinds
             /\ \A r \in request'[d].q.roots \cap pending' : r \in request'[d].waits /\ Busy(r)'
  <2>1. CASE d = c
    BY <1>1, <1>3, <1>4, <2>1 DEF TypeOK
  <2>2. CASE d # c
    BY <1>1, <1>3, <1>4, <1>5, <2>2 DEF Waiting, Asked
  <2> QED
    BY <2>1, <2>2
<1> QED
  BY <1>2, <1>5 DEF Waiting

\* A request that comes in takes effect on the whole tree at once, or not yet.
LEMMA DoorbellIsServe ==
  ASSUME NotMadeAgain, TypeOK, PartlyRestored, Waiting,
         NEW c \in Clients, NEW q \in Requests, Doorbell(c, q)
  PROVE  /\ PartlyRestored' /\ Waiting'
         /\ \/ Whole' \in Results(q, Whole) /\ said' = Answer(q, Whole)
            \/ UNCHANGED <<Whole, said>>
<1>1. q.kind \in Kinds /\ UNCHANGED opfs
  BY DEF Doorbell
<1>2. CASE /\ q.roots \cap pending = {} \/ q.kind = "rmTree"
           /\ Carry(c, q) /\ pending' = pending \ q.roots
           /\ UNCHANGED <<task, todo>>
  BY <1>1, <1>2, CarryIsServe, CarryKeepsParts
<1>3. CASE /\ Materialize(q.roots \cap pending)
           /\ request' = [request EXCEPT ![c] = [q |-> q, waits |-> q.roots \cap pending]]
           /\ UNCHANGED <<vfs, said>>
  <2>1. UNCHANGED <<Whole, said>>
    BY <1>1, <1>3, ReadableStays DEF Whole, Materialize
  <2> QED
    BY <1>1, <1>3, <2>1, MaterializeKeepsParts
<1>4. pending \ (q.roots \cap pending) = pending \ q.roots
      /\ (q.roots \cap pending = {} => pending = pending \ q.roots)
  OBVIOUS
<1> QED
  BY <1>2, <1>3, <1>4 DEF Doorbell, restoreVars

\* A restore that goes on is about one project: the others keep their stage,
\* their files and what is still to be written of them.
Elsewhere(r) ==
  \A x \in Roots : x # r => task'[x] = task[x] /\ todo'[x] = todo[x] /\ vfs'[x] = vfs[x]

\* If it leaves of r what it should, it has kept what is known of them all, and
\* nobody sees or hears of it.
LEMMA RestoreKeepsParts ==
  ASSUME TypeOK, PartlyRestored, Waiting, NEW r \in Roots, Elsewhere(r),
         UNCHANGED <<opfs, pending, request, said>>, Busy(r), Busy(r)',
         r \in pending => vfs'[r] = [n \in Names |-> SoFar(r, n)'],
         r \notin pending => vfs'[r] = vfs[r],
         IF task'[r] = "files" THEN fault[r] # "entries" ELSE todo'[r] = {}
  PROVE  PartlyRestored' /\ Waiting' /\ UNCHANGED <<Whole, said>>
<1>1. \A x \in Roots : Busy(x)' <=> Busy(x)
  BY DEF Elsewhere, Busy
<1>2. \A x \in Roots, n \in Names : x # r => SoFar(x, n)' = SoFar(x, n)
  BY ReadableStays DEF Elsewhere, SoFar, Busy
<1>3. PartlyRestored'
  <2>1. ASSUME NEW x \in Roots, x # r
        PROVE  /\ x \in pending' => vfs'[x] = [n \in Names |-> SoFar(x, n)']
               /\ x \notin pending' /\ Busy(x)' => vfs'[x] = Gone /\ "rmTree" \in Kinds
               /\ IF task'[x] = "files" THEN fault[x] # "entries" ELSE todo'[x] = {}
    BY <1>1, <1>2, <2>1 DEF PartlyRestored, Elsewhere, opfs
  <2>2. r \notin pending => vfs'[r] = Gone /\ "rmTree" \in Kinds
    BY DEF PartlyRestored
  <2> QED
    BY <2>1, <2>2 DEF PartlyRestored, opfs
<1>4. Waiting'
  BY <1>1 DEF Waiting, Asked, TypeOK
<1>5. \A x \in Roots : x \notin pending => vfs'[x] = vfs[x]
  BY DEF Elsewhere
<1>6. Whole' = Whole
  BY <1>5, ReadableStays DEF Whole
<1> QED
  BY <1>3, <1>4, <1>6

\* The listing of a project, whether it comes or throws.
LEMMA CollectIsSilent ==
  ASSUME TypeOK, PartlyRestored, Waiting, NEW r \in Roots, Collect(r)
  PROVE  PartlyRestored' /\ Waiting' /\ UNCHANGED <<Whole, said>>
<1>1. /\ task[r] = "collect" /\ Busy(r)
      /\ UNCHANGED <<opfs, vfs, pending, request, said>>
  BY DEF Collect, Busy
<1>2. r \in pending => \A n \in Names : vfs[r][n] = "none"
  BY <1>1 DEF PartlyRestored, SoFar
<1>3. r \in pending => vfs[r] = [n \in Names |-> "none"]
  BY <1>1 DEF PartlyRestored, SoFar
<1>4. CASE fault[r] = "entries"
  <2>1. /\ task'[r] = "throw" /\ todo' = todo
        /\ \A x \in Roots : x # r => task'[x] = task[x]
    BY <1>4 DEF Collect, TypeOK
  <2>2. todo[r] = {}
    BY <1>1 DEF PartlyRestored
  <2>3. \A n \in Names : SoFar(r, n)' = "none"
    BY <1>1, <1>4, <2>1 DEF SoFar, Readable, opfs
  <2>4. Elsewhere(r) /\ Busy(r)'
    BY <1>1, <2>1 DEF Elsewhere, Busy
  <2> QED
    BY <1>1, <1>3, <2>1, <2>2, <2>3, <2>4, RestoreKeepsParts
<1>5. CASE fault[r] # "entries"
  <2>1. /\ task'[r] \in {"links", "settle", "files"}
        /\ task'[r] # "files" => todo'[r] = {}
        /\ \A x \in Roots : x # r => task'[x] = task[x]
    <3>1. CASE FilesDone(r) /\ todo'[r] = {}
      BY <1>1, <3>1, DoneShape
    <3>2. CASE task' = [task EXCEPT ![r] = "files"]
      BY <3>2 DEF TypeOK
    <3> QED
      BY <1>5, <3>1, <3>2 DEF Collect
  <2>2. /\ todo'[r] = {n \in Names : stored[r][n] # "none"}
        /\ \A x \in Roots : x # r => todo'[x] = todo[x]
    BY <1>5 DEF Collect, TypeOK
  <2>3. \A n \in Names : SoFar(r, n)' = "none"
    BY <1>1, <2>1, <2>2 DEF SoFar, Readable, opfs
  <2>4. Elsewhere(r) /\ Busy(r)'
    BY <1>1, <2>1, <2>2 DEF Elsewhere, Busy
  <2> QED
    BY <1>1, <1>3, <1>5, <2>1, <2>3, <2>4, RestoreKeepsParts
<1> QED
  BY <1>4, <1>5

\* The save of the links, whether it succeeds or throws.
LEMMA LinksAreSilent ==
  ASSUME TypeOK, PartlyRestored, Waiting, NEW r \in Roots, SaveLinks(r)
  PROVE  PartlyRestored' /\ Waiting' /\ UNCHANGED <<Whole, said>>
<1>1. /\ task[r] = "links" /\ task'[r] \in {"throw", "settle"} /\ todo[r] = {}
      /\ \A x \in Roots : x # r => task'[x] = task[x]
      /\ UNCHANGED <<opfs, vfs, todo, pending, request, said>>
  BY DEF SaveLinks, TypeOK, PartlyRestored
<1>2. \A n \in Names : SoFar(r, n)' = SoFar(r, n)
  BY <1>1, ReadableStays DEF SoFar, Busy
<1>3. Elsewhere(r) /\ Busy(r) /\ Busy(r)'
  BY <1>1 DEF Elsewhere, Busy
<1>4. r \in pending => vfs'[r] = [n \in Names |-> SoFar(r, n)']
  BY <1>1, <1>2 DEF PartlyRestored
<1> QED
  BY <1>1, <1>3, <1>4, RestoreKeepsParts

\* A file that is restored is seen and reported by nobody.
LEMMA FileIsSilent ==
  ASSUME TypeOK, PartlyRestored, Waiting, NEW r \in Roots, NEW n \in Names, RestoreFile(r, n)
  PROVE  PartlyRestored' /\ Waiting' /\ UNCHANGED <<Whole, said>>
<1>1. /\ task[r] = "files" /\ Busy(r) /\ n \in todo[r]
      /\ todo'[r] = todo[r] \ {n}
      /\ \A x \in Roots : x # r => todo'[x] = todo[x]
      /\ UNCHANGED <<opfs, pending, request, said>>
  BY DEF RestoreFile, TypeOK, Busy
<1>2. /\ task'[r] \in {"links", "settle", "files"}
      /\ task'[r] # "files" => todo'[r] = {}
      /\ \A x \in Roots : x # r => task'[x] = task[x]
  BY <1>1, DoneShape DEF RestoreFile
<1>3. /\ vfs' = IF vfs[r] # Gone /\ stored[r][n] = "old"
                  THEN [vfs EXCEPT ![r][n] = "old"] ELSE vfs
      /\ \A x \in Roots : x # r => vfs'[x] = vfs[x]
  BY DEF RestoreFile, TypeOK, Trees
<1>4. Elsewhere(r) /\ Busy(r)' /\ fault[r] # "entries"
  BY <1>1, <1>2, <1>3 DEF Elsewhere, Busy, PartlyRestored
<1>5. CASE r \in pending
  <2>1. vfs[r] = [m \in Names |-> SoFar(r, m)] /\ vfs[r][n] = "none"
    BY <1>1, <1>5 DEF PartlyRestored, SoFar
  <2>2. vfs[r] # Gone
    BY <2>1 DEF Gone
  <2>3. \A m \in Names : SoFar(r, m)' = IF m = n THEN Readable(r)[n] ELSE SoFar(r, m)
    BY <1>1, <1>2, ReadableStays DEF SoFar, Busy
  <2>4. Readable(r)[n] = IF stored[r][n] = "old" THEN "old" ELSE "none"
    BY <1>4 DEF Readable, TypeOK, Held
  <2>5. vfs'[r] = [m \in Names |-> IF m = n THEN Readable(r)[n] ELSE vfs[r][m]]
    <3>1. vfs \in Trees /\ vfs[r] = [m \in Names |-> vfs[r][m]]
      BY <2>1 DEF TypeOK
    <3>2. CASE stored[r][n] = "old"
      <4>1. vfs'[r] = [vfs[r] EXCEPT ![n] = "old"]
        BY <1>3, <2>2, <3>1, <3>2 DEF Trees
      <4> QED
        BY <2>4, <3>1, <3>2, <4>1
    <3>3. CASE stored[r][n] # "old"
      BY <1>3, <2>1, <2>4, <3>1, <3>3
    <3> QED
      BY <3>2, <3>3
  <2>6. vfs'[r] = [m \in Names |-> SoFar(r, m)']
    BY <2>1, <2>3, <2>5
  <2> QED
    BY <1>1, <1>2, <1>4, <1>5, <2>6, RestoreKeepsParts
<1>6. CASE r \notin pending
  <2>1. vfs[r] = Gone /\ vfs'[r] = vfs[r]
    BY <1>1, <1>3, <1>6 DEF PartlyRestored
  <2> QED
    BY <1>1, <1>2, <1>4, <1>6, <2>1, RestoreKeepsParts
<1> QED
  BY <1>5, <1>6

\* The end of a restore: what OPFS gave back is what the Vfs has.
LEMMA SettleIsSilent ==
  ASSUME TypeOK, PartlyRestored, Waiting, NEW r \in Roots, Settle(r)
  PROVE  PartlyRestored' /\ Waiting' /\ UNCHANGED <<Whole, said>>
<1>1. /\ task[r] \in {"settle", "throw"} /\ pending' = pending \ {r}
      /\ Busy(r) /\ ~Busy(r)'
      /\ \A x \in Roots : x # r => task'[x] = task[x]
      /\ UNCHANGED <<opfs, vfs, todo, request, said>>
  BY EndsShape DEF Settle
<1>2. r \in pending => vfs[r] = Readable(r)
  <2>1. r \in pending => vfs[r] = [n \in Names |-> SoFar(r, n)]
    BY DEF PartlyRestored
  <2>2. \A n \in Names : SoFar(r, n) = Readable(r)[n]
    BY <1>1 DEF PartlyRestored, SoFar
  <2>3. Readable(r) = [n \in Names |-> Readable(r)[n]]
    BY DEF Readable
  <2> QED
    BY <2>1, <2>2, <2>3
<1>3. \A x \in Roots : Busy(x)' <=> Busy(x) /\ x # r
  BY <1>1 DEF Busy
<1>4. \A x \in Roots, m \in Names : x # r => SoFar(x, m)' = SoFar(x, m)
  BY <1>1, ReadableStays DEF SoFar, Busy
<1>5. PartlyRestored'
  <2>1. task'[r] # "files" /\ todo'[r] = {}
    BY <1>1 DEF Busy, PartlyRestored
  <2> QED
    BY <1>1, <1>3, <1>4, <2>1 DEF PartlyRestored, opfs
<1>6. Waiting'
  BY <1>1, <1>3 DEF Waiting, Asked, TypeOK
<1>7. Whole' = Whole
  BY <1>1, <1>2, ReadableStays DEF Whole
<1> QED
  BY <1>1, <1>5, <1>6, <1>7

\* A request that has waited finds its projects restored.
LEMMA ServedLate ==
  ASSUME NotMadeAgain, TypeOK, PartlyRestored, Waiting, NEW c \in Clients, Serve(c)
  PROVE  /\ PartlyRestored' /\ Waiting'
         /\ \E q \in Requests : Whole' \in Results(q, Whole) /\ said' = Answer(q, Whole)
<1>1. PICK q \in Requests : q = request[c].q
  BY DEF Serve, Asked, TypeOK
<1>2. q.roots \cap pending = {} /\ q.kind \in Kinds
  BY <1>1 DEF Serve, Restored, Waiting, Busy
<1>3. Carry(c, q) /\ UNCHANGED <<opfs, task, todo>> /\ pending' = pending \ q.roots
  BY <1>1, <1>2 DEF Serve, restoreVars
<1> QED
  BY <1>2, <1>3, CarryIsServe, CarryKeepsParts

\* Every step is one of eager restore or changes nothing that guests can see.
LEMMA NextIsEager ==
  ASSUME NotMadeAgain, TypeOK, PartlyRestored, Waiting, [Next]_vars
  PROVE  /\ PartlyRestored' /\ Waiting'
         /\ \/ \E q \in Requests : Whole' \in Results(q, Whole) /\ said' = Answer(q, Whole)
            \/ UNCHANGED <<Whole, said>>
<1>1. CASE UNCHANGED vars
  BY <1>1, ReadableStays
  DEF vars, opfs, restoreVars, PartlyRestored, Waiting, Whole, SoFar, Busy, Asked
<1> QED
  BY <1>1, DoorbellIsServe, CollectIsSilent, LinksAreSilent, FileIsSilent, SettleIsSilent, ServedLate
  DEF Next, Guest, Restore

\* Nobody can tell that restore is lazy, as long as guests do not make a project
\* again that they have removed while it was being restored.
THEOREM LazyImplementsEager ==
  ASSUME NotMadeAgain
  PROVE  Spec => ImplementsEager
<1>1. Init => PartlyRestored /\ Waiting
  BY DEF Init, PartlyRestored, Waiting, SoFar, Empty, Busy, Asked
<1>2. Init => Whole \in [Roots -> [Names -> {"none", "old"}]] /\ said = {}
  <2>1. Init => \A r \in Roots : Readable(r) \in [Names -> {"none", "old"}]
    BY DEF Init, Readable, Held
  <2> QED
    BY <2>1 DEF Init, Whole
<1>3. TypeOK /\ PartlyRestored /\ Waiting /\ [Next]_vars =>
        /\ PartlyRestored' /\ Waiting'
        /\ [Eager!EagerNext]_<<Whole, said>>
  <2> SUFFICES ASSUME TypeOK, PartlyRestored, Waiting, [Next]_vars
               PROVE  PartlyRestored' /\ Waiting' /\ [Eager!EagerNext]_<<Whole, said>>
    OBVIOUS
  <2>1. ASSUME NEW q \in Requests, Whole' \in Results(q, Whole), said' = Answer(q, Whole)
        PROVE  Eager!EagerNext
    <3>1. q \in Eager!Requests
      BY DEF Eager!Requests, Requests
    <3>2. /\ Whole' \in Eager!Results(q, Whole)
          /\ said' = Eager!Answer(q, Whole)
      BY <2>1 DEF Eager!Results, Eager!Answer, Eager!Moved, Eager!Empty, Eager!Gone,
         Results, Answer, Moved, Empty, Gone
    <3> QED
      BY <3>1, <3>2 DEF Eager!EagerNext, Eager!Serve, Whole
  <2> QED
    BY <2>1, NextIsEager
<1> QED
  BY <1>1, <1>2, <1>3, LazyTypeCorrect, PTL DEF Spec, ImplementsEager, Eager!EagerSpec, Whole
=============================================================================
