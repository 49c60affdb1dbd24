------------------------- MODULE ProcessTableProofs -------------------------
(***************************************************************************)
(* Proofs about the process table, for every set of pids, every number of  *)
(* messages and every part of a spawn that may throw.                      *)
(***************************************************************************)
EXTENDS ProcessTable, FiniteSetTheorems, SequenceTheorems, TLAPS

-----------------------------------------------------------------------------
(* The operators the table is built from.                                   *)

\* `finalize` takes a process and everything below it: the subtree is closed
\* under children, and whatever is in it besides p is alive and a child of a
\* member.
LEMMA SubtreeClosed ==
  ASSUME NEW p \in Pids
  PROVE  /\ Subtree(p) \subseteq Pids
         /\ p \in Subtree(p)
         /\ \A r \in Live : workers[r].parent \in Subtree(p) => r \in Subtree(p)
         /\ \A r \in Subtree(p) : r # p => r \in Live /\ workers[r].parent \in Subtree(p)
<1>1. Subtree(p) \subseteq Pids /\ p \in Subtree(p)
  BY DEF Subtree
<1>2. \A r \in Live : workers[r].parent \in Subtree(p) => r \in Subtree(p)
  BY DEF Subtree, Live
<1>3. ASSUME NEW r \in Subtree(p), r # p, ~(r \in Live /\ workers[r].parent \in Subtree(p))
      PROVE  FALSE
  <2> DEFINE S == Subtree(p) \ {r}
  <2>1. S \in SUBSET Pids /\ p \in S
    BY <1>1, <1>3
  <2>2. \A s \in Live : workers[s].parent \in S => s \in S
    BY <1>2, <1>3
  <2>3. r \in S
    BY <2>1, <2>2, <1>3 DEF Subtree
  <2> QED
    BY <2>3
<1> QED
  BY <1>1, <1>2, <1>3

\* Telling appends to what one receiver has heard.
LEMMA TellTypes ==
  ASSUME NEW ev \in [Receivers -> Seq(Notices)], NEW r \in Receivers, NEW e \in Notices
  PROVE  Tell(ev, r, e) \in [Receivers -> Seq(Notices)]
<1>1. Append(ev[r], e) \in Seq(Notices)
  OBVIOUS
<1> QED
  BY <1>1 DEF Tell

\* A child:spawn names a pid.
LEMMA PidAskedFor ==
  ASSUME TypeOK, NEW p \in Pids, Delivers(p, "child:spawn")
  PROVE  Head(up[p]).pid \in Pids
<1>1. up[p] \in Seq(Messages) /\ up[p] # <<>> /\ Head(up[p]).type = "child:spawn"
  BY DEF Delivers, TypeOK
<1>2. Head(up[p]) \in Messages
  BY <1>1
<1> QED
  BY <1>1, <1>2 DEF Messages

-----------------------------------------------------------------------------
(* Type correctness.                                                        *)

\* What a spawn, a service or an end changes keeps its type.
TableTyped ==
  /\ workers \in [Pids -> Entry]
  /\ thread \in [Pids -> Threads]
  /\ fsClients \subseteq Pids /\ syncClients \subseteq Pids /\ netClients \subseteq Pids

\* A start leaves types.
LEMMA StartsTypes ==
  ASSUME TableTyped, NEW q \in Pids, NEW parent \in Pids \cup {NoPid},
         NEW caller \in Pids \cup {NoPid}, NEW timer \in BOOLEAN,
         Starts(q, parent, caller, timer)
  PROVE  TableTyped'
BY DEF TableTyped, Starts, Entry, Threads

\* A start that fails leaves types, whatever it leaves behind.
LEMMA LeftBehindTypes ==
  ASSUME TableTyped, NEW q \in Pids, NEW stage, NEW th \in [Pids -> Threads],
         LeftBehind(q, stage, th)
  PROVE  TableTyped'
BY DEF TableTyped, LeftBehind, Threads

\* A spawn leaves types.
LEMMA SpawnTypes ==
  ASSUME TypeOK, NEW q \in Pids, NEW parent \in Pids \cup {NoPid},
         NEW reply \in Seq(Notices), Spawn(q, parent, reply)
  PROVE  TableTyped' /\ events' \in [Receivers -> Seq(Notices)]
<1>1. TableTyped /\ events \in [Receivers -> Seq(Notices)]
  BY DEF TypeOK, TableTyped
<1> DEFINE told == [r \in Receivers |-> IF r = parent THEN events[r] \o reply ELSE events[r]]
           failed == Tell(told, Host, Event("exit", q))
<1>2. told \in [Receivers -> Seq(Notices)]
  BY <1>1
<1>3. failed \in [Receivers -> Seq(Notices)]
  BY <1>2, TellTypes DEF Event, Notices, Receivers
<1>4. CASE q \in Live
  BY <1>1, <1>3, <1>4 DEF Spawn, TableTyped, clientVars
<1>5. CASE Starts(q, parent, NoPid, FALSE) /\ events' = told
  BY <1>1, <1>2, <1>5, StartsTypes
<1>6. CASE \E stage \in FailAt : LeftBehind(q, stage, thread) /\ events' = failed
  <2>1. PICK stage \in FailAt : LeftBehind(q, stage, thread) /\ events' = failed
    BY <1>6
  <2>2. TableTyped'
    BY <1>1, <2>1, LeftBehindTypes DEF TableTyped
  <2> QED
    BY <1>3, <2>1, <2>2
<1> QED
  BY <1>4, <1>5, <1>6 DEF Spawn

\* The end of a process leaves types.
LEMMA FinalizeTypes ==
  ASSUME TypeOK, NEW p \in Pids, NEW pending \in [Pids -> Seq(Messages)],
         Finalize(p, pending)
  PROVE  /\ TableTyped' /\ events' \in [Receivers -> Seq(Notices)]
         /\ up' \in [Pids -> Seq(Messages)]
<1>1. events \in [Receivers -> Seq(Notices)]
  BY DEF TypeOK
<1>2. ParentOf(p) \in Receivers
  BY DEF ParentOf, Live, Receivers
<1>3. workers[p].caller \in Pids \cup {NoPid}
  BY DEF TypeOK, Entry
<1>4. events' \in [Receivers -> Seq(Notices)]
  <2>1. Tell(events, ParentOf(p), Event("exit", p)) \in [Receivers -> Seq(Notices)]
    BY <1>1, <1>2, TellTypes DEF Event, Notices
  <2>2. workers[p].caller # NoPid =>
          Tell(events, workers[p].caller, Event("result", p)) \in [Receivers -> Seq(Notices)]
    BY <1>1, <1>3, TellTypes DEF Event, Notices, Receivers
  <2> QED
    BY <1>1, <2>1, <2>2 DEF Finalize, Reports
<1>5. workers' \in [Pids -> Entry]
  BY DEF Finalize, TypeOK, Free, Entry
<1>6. thread' \in [Pids -> Threads]
  BY DEF Finalize, TypeOK, Answer, Threads
<1>7. up' \in [Pids -> Seq(Messages)]
  BY DEF Finalize
<1> QED
  BY <1>4, <1>5, <1>6, <1>7 DEF Finalize, Detaches, TypeOK, TableTyped

\* The actions of a process's own thread.
LEMMA GuestTypes ==
  ASSUME TypeOK, NEW p \in Pids, Guest(p)
  PROVE  TypeOK'
<1>1. ASSUME NEW m \in Messages, Post(p, m)
      PROVE  posts' \in [Pids -> 0..MaxPosts] /\ up' \in [Pids -> Seq(Messages)]
  <2>1. Append(up[p], m) \in Seq(Messages)
    BY DEF TypeOK
  <2>2. posts[p] + 1 \in 0..MaxPosts
    BY <1>1, TableAssumption DEF Post, TypeOK
  <2> QED
    BY <1>1, <2>1, <2>2 DEF Post, TypeOK
<1>2. CASE PostOutput(p)
  BY <1>1, <1>2 DEF PostOutput, TypeOK, clientVars, Message, Messages
<1>3. CASE PostExit(p)
  BY <1>1, <1>3 DEF PostExit, TypeOK, clientVars, Message, Messages
<1>4. CASE PostSpawn(p)
  <2>1. PICK q \in Askable \ {p} :
          /\ Post(p, Message("child:spawn", q))
          /\ owner' = Claim(p, q)
    BY <1>4 DEF PostSpawn
  <2>2. q \in Pids
    BY DEF Askable, Fresh, Live
  <2>3. owner' \in [Pids -> Pids \cup {Host, NoPid}]
    BY <2>1, <2>2 DEF Claim, TypeOK
  <2> QED
    BY <1>1, <1>4, <2>1, <2>2, <2>3 DEF PostSpawn, TypeOK, clientVars, Message, Messages
<1>5. CASE PostThreadSpawn(p)
  BY <1>1, <1>5 DEF PostThreadSpawn, TypeOK, clientVars, Message, Messages
<1>6. CASE PostKill(p)
  BY <1>1, <1>6 DEF PostKill, Fresh, TypeOK, clientVars, Message, Messages
<1>7. CASE CallSync(p)
  BY <1>7, TableAssumption DEF CallSync, TypeOK, Threads, clientVars
<1> QED
  BY <1>2, <1>3, <1>4, <1>5, <1>6, <1>7 DEF Guest

\* The kernel's handlers.
LEMMA KernelTypes ==
  ASSUME TypeOK, NEW p \in Pids, Kernel(p)
  PROVE  TypeOK'
<1>1. TableTyped /\ up \in [Pids -> Seq(Messages)] /\ thread \in [Pids -> Threads]
  BY DEF TypeOK, TableTyped
<1>2. up[p] # <<>> => Rest(p) \in [Pids -> Seq(Messages)] /\ Head(up[p]) \in Messages
  <2>1. up[p] # <<>> => Tail(up[p]) \in Seq(Messages) /\ Head(up[p]) \in Messages
    BY <1>1
  <2> QED
    BY <1>1, <2>1 DEF Rest
<1>3. CASE HostSpawn(p)
  <2>1. <<>> \in Seq(Notices)
    OBVIOUS
  <2>2. TableTyped' /\ events' \in [Receivers -> Seq(Notices)]
    BY <1>3, <2>1, SpawnTypes DEF HostSpawn
  <2> QED
    BY <1>3, <2>2 DEF HostSpawn, TypeOK, TableTyped
<1>4. CASE KernelKill(p) \/ Timeout(p)
  <2>1. TableTyped' /\ events' \in [Receivers -> Seq(Notices)] /\ up' \in [Pids -> Seq(Messages)]
    BY <1>1, <1>4, FinalizeTypes DEF KernelKill, Timeout
  <2> QED
    BY <1>4, <2>1 DEF KernelKill, Timeout, TypeOK, TableTyped
<1>5. CASE SyncService(p)
  <2>1. CASE p \notin syncClients \/ thread[p] # "blocked"
    BY <1>5, <2>1 DEF SyncService, TypeOK, clientVars
  <2>2. CASE p \in syncClients /\ thread[p] = "blocked"
    <3>1. PICK q \in Askable :
            /\ owner' = Claim(p, q)
            /\ \/ \E t \in BOOLEAN : Starts(q, NoPid, p, t)
               \/ \E stage \in FailAt : LeftBehind(q, stage, Answer(thread, p))
               \/ thread' = Answer(thread, p) /\ UNCHANGED <<workers, clientVars>>
            /\ events' = events \/ events' = Tell(events, p, Event("result", q))
      BY <1>5, <2>2 DEF SyncService
    <3>2. q \in Pids
      BY DEF Askable, Fresh, Live
    <3>3. Answer(thread, p) \in [Pids -> Threads]
      BY <1>1 DEF Answer, Threads
    <3>4. Tell(events, p, Event("result", q)) \in [Receivers -> Seq(Notices)]
      BY <3>2, TellTypes DEF TypeOK, Event, Notices, Receivers
    <3>5. TableTyped'
      <4>1. CASE thread' = Answer(thread, p) /\ UNCHANGED <<workers, clientVars>>
        BY <1>1, <3>3, <4>1 DEF TableTyped, clientVars
      <4> QED
        BY <1>1, <3>1, <3>2, <3>3, <4>1, StartsTypes, LeftBehindTypes
    <3>6. owner' \in [Pids -> Pids \cup {Host, NoPid}]
      BY <3>1, <3>2 DEF Claim, TypeOK
    <3>7. events' \in [Receivers -> Seq(Notices)]
      BY <3>1, <3>4 DEF TypeOK
    <3> QED
      BY <1>5, <3>5, <3>6, <3>7 DEF SyncService, TypeOK, TableTyped
  <2> QED
    BY <2>1, <2>2
<1>6. CASE OnExit(p)
  <2>1. TableTyped' /\ events' \in [Receivers -> Seq(Notices)] /\ up' \in [Pids -> Seq(Messages)]
    BY <1>2, <1>6, FinalizeTypes DEF OnExit, Delivers
  <2> QED
    BY <1>6, <2>1 DEF OnExit, Delivers, TypeOK, TableTyped
<1>7. CASE OnOutput(p)
  <2>1. Tell(events, ParentOf(p), Event("output", p)) \in [Receivers -> Seq(Notices)]
    BY TellTypes DEF TypeOK, Event, Notices, Receivers, ParentOf, Live
  <2> QED
    BY <1>2, <1>7, <2>1 DEF OnOutput, Take, Delivers, TypeOK, clientVars
<1>8. CASE OnChildSpawn(p)
  <2>1. Head(up[p]).pid \in Pids
    BY <1>8, PidAskedFor DEF OnChildSpawn, Take
  <2>2. <<>> \in Seq(Notices)
    OBVIOUS
  <2>3. TableTyped' /\ events' \in [Receivers -> Seq(Notices)]
    BY <1>8, <2>1, <2>2, SpawnTypes DEF OnChildSpawn
  <2> QED
    BY <1>2, <1>8, <2>3 DEF OnChildSpawn, Take, Delivers, TypeOK, TableTyped
<1>9. CASE OnThreadSpawn(p)
  <2>1. PICK q \in Askable : /\ owner' = Claim(p, q)
                             /\ Spawn(q, p, <<Event("started", q)>>)
    BY <1>9 DEF OnThreadSpawn
  <2>2. q \in Pids /\ <<Event("started", q)>> \in Seq(Notices)
    BY DEF Askable, Fresh, Live, Event, Notices
  <2>3. TableTyped' /\ events' \in [Receivers -> Seq(Notices)]
    BY <2>1, <2>2, SpawnTypes
  <2>4. owner' \in [Pids -> Pids \cup {Host, NoPid}]
    BY <2>1, <2>2 DEF Claim, TypeOK
  <2> QED
    BY <1>2, <1>9, <2>3, <2>4 DEF OnThreadSpawn, Take, Delivers, TypeOK, TableTyped
<1>10. CASE OnChildKill(p)
  <2>1. CASE Head(up[p]).pid \in Live
    <3>1. TableTyped' /\ events' \in [Receivers -> Seq(Notices)] /\ up' \in [Pids -> Seq(Messages)]
      BY <1>2, <1>10, <2>1, FinalizeTypes DEF OnChildKill, FinalizeIfLive, Delivers, Live, Messages
    <3> QED
      BY <1>10, <3>1 DEF OnChildKill, Delivers, TypeOK, TableTyped
  <2>2. CASE Head(up[p]).pid \notin Live
    BY <1>2, <1>10, <2>2 DEF OnChildKill, FinalizeIfLive, Delivers, TypeOK, clientVars
  <2> QED
    BY <2>1, <2>2
<1> QED
  BY <1>3, <1>4, <1>5, <1>6, <1>7, <1>8, <1>9, <1>10 DEF Kernel

\* Every variable keeps its type.
THEOREM TableTypeCorrect == Spec => []TypeOK
<1>1. Init => TypeOK
  <2>1. <<>> \in Seq(Messages) /\ <<>> \in Seq(Notices) /\ 0 \in 0..MaxPosts
    BY TableAssumption
  <2> QED
    BY <2>1 DEF Init, TypeOK, Entry, Free, Threads
<1>2. TypeOK /\ [Next]_vars => TypeOK'
  <2> SUFFICES ASSUME TypeOK, [Next]_vars PROVE TypeOK'
    OBVIOUS
  <2>1. CASE UNCHANGED vars
    BY <2>1 DEF vars, threadVars, clientVars, TypeOK
  <2>2. ASSUME NEW p \in Pids, Guest(p) \/ Kernel(p) PROVE TypeOK'
    BY <2>2, GuestTypes, KernelTypes
  <2> QED
    BY <2>1, <2>2 DEF Next
<1> QED
  BY <1>1, <1>2, PTL DEF Spec

-----------------------------------------------------------------------------
(* The table is closed under parents.                                       *)

\* What an end does to the table: the subtree leaves, the rest stays as it is.
LEMMA FinalizeTable ==
  ASSUME TypeOK, NEW p \in Pids, NEW pending, Finalize(p, pending)
  PROVE  /\ Live' = Live \ Subtree(p)
         /\ \A q \in Live' : workers'[q] = workers[q]
BY DEF Finalize, Live, Free, TypeOK

\* What a spawn does to it: nothing, or one entry that was not there.
LEMMA SpawnTable ==
  ASSUME TypeOK, NEW q \in Pids, NEW parent, NEW reply, Spawn(q, parent, reply)
  PROVE  \/ workers' = workers
         \/ /\ q \notin Live /\ Live' = Live \cup {q}
            /\ workers'[q].parent = parent /\ workers'[q].caller = NoPid
            /\ \A r \in Live : workers'[r] = workers[r]
<1>1. CASE Starts(q, parent, NoPid, FALSE) /\ q \notin Live
  BY <1>1 DEF Starts, Live, TypeOK
<1>2. CASE q \in Live \/ \E stage \in FailAt : LeftBehind(q, stage, thread)
  BY <1>2 DEF Spawn, LeftBehind
<1> QED
  BY <1>1, <1>2 DEF Spawn

\* Whoever ends takes along everything that has it as its parent.
LEMMA FinalizeKeepsParents ==
  ASSUME TypeOK, ParentsAlive, NEW p \in Pids, NEW pending, Finalize(p, pending)
  PROVE  ParentsAlive'
<1> SUFFICES ASSUME NEW q \in Live', workers'[q].parent # NoPid
             PROVE  workers'[q].parent \in Live'
  BY DEF ParentsAlive
<1>1. q \in Live /\ q \notin Subtree(p) /\ workers'[q] = workers[q]
  BY FinalizeTable
<1>2. workers[q].parent \in Live
  BY <1>1 DEF ParentsAlive
<1>3. workers[q].parent \notin Subtree(p)
  BY <1>1, SubtreeClosed
<1> QED
  BY <1>1, <1>2, <1>3, FinalizeTable

\* A spawned process has a parent that lives.
LEMMA SpawnKeepsParents ==
  ASSUME TypeOK, ParentsAlive, NEW q \in Pids, NEW parent \in Live \cup {NoPid},
         NEW reply, Spawn(q, parent, reply)
  PROVE  ParentsAlive'
BY SpawnTable DEF ParentsAlive, Live

\* No child_process outlives the process it answers to, whatever fails and even
\* when pids collide.
THEOREM ParentsStayAlive == Spec => []ParentsAlive
<1>1. Init => ParentsAlive
  BY DEF Init, ParentsAlive, Live, Free
<1>2. TypeOK /\ ParentsAlive /\ [Next]_vars => ParentsAlive'
  <2> SUFFICES ASSUME TypeOK, ParentsAlive, [Next]_vars PROVE ParentsAlive'
    OBVIOUS
  <2>1. ASSUME UNCHANGED workers PROVE ParentsAlive'
    BY <2>1 DEF ParentsAlive, Live
  <2>2. CASE UNCHANGED vars
    BY <2>1, <2>2 DEF vars
  <2>3. ASSUME NEW p \in Pids, Guest(p) PROVE ParentsAlive'
    BY <2>1, <2>3 DEF Guest, PostOutput, PostExit, PostSpawn, PostThreadSpawn, PostKill, CallSync
  <2>4. ASSUME NEW p \in Pids, Kernel(p) PROVE ParentsAlive'
    <3>1. CASE HostSpawn(p)
      BY <3>1, SpawnKeepsParents DEF HostSpawn
    <3>2. CASE KernelKill(p) \/ Timeout(p) \/ OnExit(p)
      BY <3>2, FinalizeKeepsParents DEF KernelKill, Timeout, OnExit
    <3>3. CASE SyncService(p)
      <4>1. \/ workers' = workers
            \/ \E q \in Pids, t \in BOOLEAN : Starts(q, NoPid, p, t)
        BY <3>3 DEF SyncService, LeftBehind, Askable, Fresh, Live
      <4>2. ASSUME NEW q \in Pids, NEW t \in BOOLEAN, Starts(q, NoPid, p, t)
            PROVE  ParentsAlive'
        BY <4>2 DEF Starts, ParentsAlive, Live, TypeOK
      <4> QED
        BY <2>1, <4>1, <4>2
    <3>4. CASE OnOutput(p)
      BY <2>1, <3>4 DEF OnOutput
    <3>5. CASE OnChildSpawn(p)
      BY <3>5, PidAskedFor, SpawnKeepsParents DEF OnChildSpawn, Take, Delivers
    <3>6. CASE OnThreadSpawn(p)
      BY <3>6, SpawnKeepsParents DEF OnThreadSpawn, Take, Delivers, Askable, Fresh, Live
    <3>7. CASE OnChildKill(p)
      BY <2>1, <3>7, FinalizeKeepsParents DEF OnChildKill, FinalizeIfLive, Live
    <3> QED
      BY <2>4, <3>1, <3>2, <3>3, <3>4, <3>5, <3>6, <3>7 DEF Kernel
  <2> QED
    BY <2>2, <2>3, <2>4 DEF Next
<1> QED
  BY <1>1, <1>2, TableTypeCorrect, PTL DEF Spec

-----------------------------------------------------------------------------
(* Nothing is left behind.                                                  *)

\* An end frees the threads and clients of all it takes along; a caller that is
\* woken was blocked and is still there.
LEMMA FinalizeLeavesNothing ==
  ASSUME TypeOK, NothingLeaks, NEW p \in Pids, NEW pending, Finalize(p, pending)
  PROVE  NothingLeaks'
<1>1. Live' = Live \ Subtree(p)
  BY FinalizeTable
<1>2. \A q \in Pids : thread'[q] \in {"running", "blocked", "stray"} <=> q \in Live'
  BY <1>1 DEF Finalize, Answer, NothingLeaks, TypeOK
<1> QED
  BY <1>1, <1>2 DEF Finalize, Detaches, NothingLeaks

\* A start leaves nothing of a process that is gone.
LEMMA StartLeavesNothing ==
  ASSUME TypeOK, NothingLeaks, NEW q \in Pids, NEW parent, NEW caller, NEW timer,
         Starts(q, parent, caller, timer)
  PROVE  NothingLeaks'
<1>1. Live' = Live \cup {q}
  BY DEF Starts, Live, TypeOK
<1> QED
  BY <1>1 DEF Starts, NothingLeaks, TypeOK

\* A spawn leaves nothing of a process that is gone, unless it fails on the way.
LEMMA SpawnLeavesNothing ==
  ASSUME FailAt \subseteq {"worker"}, TypeOK, NothingLeaks,
         NEW q \in Pids, NEW parent, NEW reply, Spawn(q, parent, reply)
  PROVE  NothingLeaks'
BY StartLeavesNothing DEF Spawn, LeftBehind, NothingLeaks, Live, clientVars

\* Unless attaching a client throws after the worker was made, threads and
\* clients are those of the table.
THEOREM NobodyLeaks ==
  ASSUME FailAt \subseteq {"worker"}
  PROVE  Spec => []NothingLeaks
<1>1. Init => NothingLeaks
  BY DEF Init, NothingLeaks, Live, Free
<1>2. TypeOK /\ NothingLeaks /\ [Next]_vars => NothingLeaks'
  <2> SUFFICES ASSUME TypeOK, NothingLeaks, [Next]_vars PROVE NothingLeaks'
    OBVIOUS
  <2>1. ASSUME UNCHANGED <<workers, thread, clientVars>> PROVE NothingLeaks'
    BY <2>1 DEF NothingLeaks, Live, clientVars
  <2>2. CASE UNCHANGED vars
    BY <2>1, <2>2 DEF vars, threadVars
  <2>3. ASSUME NEW p \in Pids, Guest(p) PROVE NothingLeaks'
    <3>1. CASE CallSync(p)
      BY <3>1 DEF CallSync, NothingLeaks, Live, TypeOK, clientVars
    <3> QED
      BY <2>1, <2>3, <3>1 DEF Guest, PostOutput, PostExit, PostSpawn, PostThreadSpawn, PostKill
  <2>4. ASSUME NEW p \in Pids, Kernel(p) PROVE NothingLeaks'
    <3>1. CASE HostSpawn(p)
      BY <3>1, SpawnLeavesNothing DEF HostSpawn
    <3>2. CASE KernelKill(p) \/ Timeout(p) \/ OnExit(p)
      BY <3>2, FinalizeLeavesNothing DEF KernelKill, Timeout, OnExit
    <3>3. CASE SyncService(p)
      <4>1. CASE UNCHANGED <<workers, thread, clientVars>>
        BY <2>1, <4>1
      <4>2. ASSUME NEW q \in Pids, NEW t \in BOOLEAN, Starts(q, NoPid, p, t)
            PROVE  NothingLeaks'
        BY <4>2, StartLeavesNothing
      <4>3. ASSUME NEW q, LeftBehind(q, "worker", Answer(thread, p)) PROVE NothingLeaks'
        BY <4>3 DEF LeftBehind, Answer, NothingLeaks, Live, TypeOK
      <4>4. CASE thread' = Answer(thread, p) /\ UNCHANGED <<workers, clientVars>>
        BY <4>4 DEF Answer, NothingLeaks, Live, TypeOK, clientVars
      <4> QED
        BY <3>3, <4>1, <4>2, <4>3, <4>4 DEF SyncService, Askable, Fresh, Live
    <3>4. CASE OnOutput(p)
      BY <2>1, <3>4 DEF OnOutput
    <3>5. CASE OnChildSpawn(p)
      BY <3>5, PidAskedFor, SpawnLeavesNothing DEF OnChildSpawn, Take
    <3>6. CASE OnThreadSpawn(p)
      BY <3>6, SpawnLeavesNothing DEF OnThreadSpawn, Askable, Fresh, Live
    <3>7. CASE OnChildKill(p)
      BY <2>1, <3>7, FinalizeLeavesNothing DEF OnChildKill, FinalizeIfLive, Live
    <3> QED
      BY <2>4, <3>1, <3>2, <3>3, <3>4, <3>5, <3>6, <3>7 DEF Kernel
  <2> QED
    BY <2>2, <2>3, <2>4 DEF Next
<1> QED
  BY <1>1, <1>2, TableTypeCorrect, PTL DEF Spec

-----------------------------------------------------------------------------
(* A pid is started once, when pids do not collide.                         *)

\* What the kernel takes or drops from the queues, and a pid once asked for
\* stays asked for.
Shrinks ==
  /\ \A r \in Pids : \/ up'[r] = up[r]
                     \/ up'[r] = <<>>
                     \/ up[r] # <<>> /\ up'[r] = Tail(up[r])
  /\ \A q \in Pids : owner'[q] = NoPid => owner[q] = NoPid

\* Nothing new is asked for.
LEMMA ShrinkAsksLess ==
  ASSUME TypeOK, Shrinks, NEW r \in Pids
  PROVE  \/ \A i \in 1..Len(up'[r]), q \in Pids : Asks(r, i, q)' =>
              i \in 1..Len(up[r]) /\ Asks(r, i, q)
         \/ /\ up[r] # <<>> /\ up'[r] = Tail(up[r])
            /\ \A i \in 1..Len(up'[r]), q \in Pids : Asks(r, i, q)' =>
                 i + 1 \in 1..Len(up[r]) /\ Asks(r, i + 1, q)
<1>1. up[r] \in Seq(Messages)
  BY DEF TypeOK
<1>2. CASE up'[r] = up[r] \/ up'[r] = <<>>
  BY <1>2 DEF Asks
<1>3. CASE up[r] # <<>> /\ up'[r] = Tail(up[r])
  <2>1. /\ Len(up[r]) \in Nat /\ Len(up'[r]) = Len(up[r]) - 1
        /\ \A i \in 1..Len(up'[r]) : up'[r][i] = up[r][i + 1]
    BY <1>1, <1>3, HeadTailProperties, LenProperties
  <2> QED
    BY <1>3, <2>1 DEF Asks
<1> QED
  BY <1>2, <1>3 DEF Shrinks

\* What shrinks makes nobody unborn.
LEMMA ShrinkUnborn ==
  ASSUME TypeOK, Shrinks
  PROVE  \A q \in Pids : Unborn(q)' => Unborn(q)
<1> SUFFICES ASSUME NEW q \in Pids, NEW p \in Pids, NEW i \in 1..Len(up'[p]), Asks(p, i, q)'
             PROVE  Unborn(q)
  BY DEF Unborn, Shrinks
<1> QED
  BY ShrinkAsksLess DEF Unborn

\* Taking requests away leaves each process asked for once.
LEMMA ShrinkKeepsOnce ==
  ASSUME TypeOK, AskedOnce, Shrinks, NEW q \in Pids
  PROVE  /\ (owner[q] = NoPid => \A p \in Pids : \A i \in 1..Len(up[p]) : ~Asks(p, i, q))'
         /\ (\A p1, p2 \in Pids : \A i \in 1..Len(up[p1]), j \in 1..Len(up[p2]) :
               Asks(p1, i, q) /\ Asks(p2, j, q) => p1 = p2 /\ i = j)'
<1>1. ASSUME NEW p \in Pids, NEW i \in 1..Len(up'[p]), Asks(p, i, q)', owner'[q] = NoPid
      PROVE  FALSE
  BY <1>1, ShrinkAsksLess DEF AskedOnce, Shrinks
<1>2. ASSUME NEW p1 \in Pids, NEW p2 \in Pids,
             NEW i \in 1..Len(up'[p1]), NEW j \in 1..Len(up'[p2]),
             Asks(p1, i, q)', Asks(p2, j, q)'
      PROVE  p1 = p2 /\ i = j
  <2>1. p1 = p2
    BY <1>2, ShrinkAsksLess DEF AskedOnce
  <2>2. CASE \A k \in 1..Len(up'[p1]), x \in Pids : Asks(p1, k, x)' =>
               k \in 1..Len(up[p1]) /\ Asks(p1, k, x)
    BY <1>2, <2>1, <2>2 DEF AskedOnce
  <2>3. CASE \A k \in 1..Len(up'[p1]), x \in Pids : Asks(p1, k, x)' =>
               k + 1 \in 1..Len(up[p1]) /\ Asks(p1, k + 1, x)
    <3>1. Asks(p1, i + 1, q) /\ Asks(p1, j + 1, q)
      BY <1>2, <2>1, <2>3
    <3>2. i + 1 = j + 1
      BY <1>2, <2>1, <2>3, <3>1 DEF AskedOnce
    <3> QED
      BY <2>1, <3>2
  <2> QED
    BY <2>1, <2>2, <2>3, ShrinkAsksLess
<1> QED
  BY <1>1, <1>2

\* The spawn that was asked for is asked for no more once it is taken.
LEMMA TakenIsBorn ==
  ASSUME TypeOK, AskedOnce, NEW p \in Pids, NEW q \in Pids, q = Head(up[p]).pid,
         Take(p, "child:spawn"), UNCHANGED owner
  PROVE  Unborn(q) /\ ~Unborn(q)'
<1>1. /\ up[p] \in Seq(Messages) /\ up[p] # <<>> /\ up[p][1].type = "child:spawn"
      /\ up[p][1].pid = q /\ up' = [up EXCEPT ![p] = Tail(@)]
  BY DEF Take, Delivers, Rest, TypeOK
<1>2. Len(up[p]) \in Nat \ {0}
  BY <1>1, EmptySeq
<1>3. 1 \in 1..Len(up[p]) /\ Asks(p, 1, q)
  BY <1>1, <1>2 DEF Asks
<1>4. owner[q] # NoPid
  BY <1>3 DEF AskedOnce
<1>5. ASSUME NEW r \in Pids, NEW i \in 1..Len(up'[r]), Asks(r, i, q)'
      PROVE  FALSE
  <2>1. CASE r = p
    <3>1. up'[p] = Tail(up[p])
      BY <1>1 DEF TypeOK
    <3>2. Len(up'[p]) = Len(up[p]) - 1 /\ \A k \in 1..Len(up'[p]) : up'[p][k] = up[p][k + 1]
      BY <1>1, <3>1, HeadTailProperties
    <3>3. i + 1 \in 1..Len(up[p]) /\ Asks(p, i + 1, q)
      BY <1>2, <1>5, <2>1, <3>2 DEF Asks
    <3>4. i + 1 = 1
      BY <1>3, <3>3 DEF AskedOnce
    <3> QED
      BY <1>5, <3>4
  <2>2. CASE r # p
    <3>1. up'[r] = up[r]
      BY <1>1, <2>2 DEF TypeOK
    <3>2. i \in 1..Len(up[r]) /\ Asks(r, i, q)
      BY <1>5, <3>1 DEF Asks
    <3> QED
      BY <1>3, <2>2, <3>2 DEF AskedOnce
  <2> QED
    BY <2>1, <2>2
<1> QED
  BY <1>3, <1>4, <1>5 DEF Unborn

\* A message that is posted asks for one pid at most.
LEMMA PostAsks ==
  ASSUME TypeOK, NEW p \in Pids, NEW m \in Messages, Post(p, m),
         NEW r \in Pids, NEW i \in 1..Len(up'[r]), NEW q \in Pids, Asks(r, i, q)'
  PROVE  \/ i \in 1..Len(up[r]) /\ Asks(r, i, q)
         \/ r = p /\ i = Len(up[p]) + 1 /\ m.type = "child:spawn" /\ m.pid = q
<1>1. CASE r # p
  BY <1>1 DEF Post, TypeOK, Asks
<1>2. CASE r = p
  <2>1. up[p] \in Seq(Messages) /\ up'[p] = Append(up[p], m)
    BY DEF Post, TypeOK
  <2>2. /\ Len(up'[p]) = Len(up[p]) + 1 /\ Len(up[p]) \in Nat
        /\ up'[p][Len(up[p]) + 1] = m
        /\ \A k \in 1..Len(up[p]) : up'[p][k] = up[p][k]
    BY <2>1, AppendProperties, LenProperties
  <2> QED
    BY <1>2, <2>2 DEF Asks
<1> QED
  BY <1>1, <1>2

\* A guest that asks for nobody, and one that asks for a fresh pid.
LEMMA PostKeepsOnce ==
  ASSUME TypeOK, AskedOnce, NEW p \in Pids, NEW m \in Messages, Post(p, m),
         m.type # "child:spawn", UNCHANGED <<workers, thread, owner>>
  PROVE  AskedOnce' /\ \A q \in Pids : Unborn(q)' => Unborn(q)
<1>1. ASSUME NEW r \in Pids, NEW i \in 1..Len(up'[r]), NEW q \in Pids, Asks(r, i, q)'
      PROVE  i \in 1..Len(up[r]) /\ Asks(r, i, q)
  BY <1>1, PostAsks
<1>2. \A q \in Pids : Unborn(q)' => Unborn(q)
  BY <1>1 DEF Unborn
<1> QED
  BY <1>1, <1>2 DEF AskedOnce, Live

\* A new request asks for a process nobody asked for.
LEMMA PostSpawnKeepsOnce ==
  ASSUME PidsCollide = FALSE, TypeOK, AskedOnce, NEW p \in Pids, PostSpawn(p)
  PROVE  AskedOnce' /\ \A q \in Pids : Unborn(q)' => Unborn(q)
<1>1. PICK x \in Fresh : /\ Post(p, Message("child:spawn", x))
                         /\ owner' = [owner EXCEPT ![x] = p]
  BY DEF PostSpawn, Askable, Claim
<1> DEFINE m == Message("child:spawn", x)
<1>2. /\ x \in Pids /\ owner[x] = NoPid /\ owner'[x] = p
      /\ m \in Messages /\ m.pid = x /\ m.type = "child:spawn"
      /\ \A q \in Pids : q # x => owner'[q] = owner[q]
  BY <1>1 DEF Fresh, Message, Messages, TypeOK
<1>3. ASSUME NEW r \in Pids, NEW i \in 1..Len(up'[r]), NEW q \in Pids, Asks(r, i, q)'
      PROVE  \/ i \in 1..Len(up[r]) /\ Asks(r, i, q)
             \/ r = p /\ i = Len(up[p]) + 1 /\ q = x
  BY <1>1, <1>2, <1>3, PostAsks
<1>4. \A r \in Pids : \A i \in 1..Len(up[r]) : ~Asks(r, i, x)
  BY <1>2 DEF AskedOnce
<1>5. Unborn(x)
  BY <1>2 DEF Unborn
<1>6. \A q \in Pids : Unborn(q)' => Unborn(q)
  BY <1>2, <1>3, <1>5 DEF Unborn
<1>7. p # NoPid
  BY TableAssumption
<1>8. ASSUME NEW q \in Pids, owner'[q] = NoPid,
             NEW r \in Pids, NEW i \in 1..Len(up'[r]), Asks(r, i, q)'
      PROVE  FALSE
  BY <1>2, <1>3, <1>7, <1>8 DEF AskedOnce
<1>9. ASSUME NEW q \in Pids, NEW p1 \in Pids, NEW p2 \in Pids,
             NEW i \in 1..Len(up'[p1]), NEW j \in 1..Len(up'[p2]),
             Asks(p1, i, q)', Asks(p2, j, q)'
      PROVE  p1 = p2 /\ i = j
  BY <1>3, <1>4, <1>9 DEF AskedOnce
<1>10. \A q \in Pids : Unborn(q)' => (thread[q] = "none" /\ q \notin Live)'
  BY <1>6 DEF AskedOnce, PostSpawn, Live
<1> QED
  BY <1>6, <1>8, <1>9, <1>10 DEF AskedOnce

\* Whatever a guest does, each process is asked for once.
LEMMA GuestKeepsOnce ==
  ASSUME PidsCollide = FALSE, TypeOK, AskedOnce, NEW p \in Pids, Guest(p)
  PROVE  AskedOnce' /\ \A q \in Pids : Unborn(q)' => Unborn(q)
<1>1. CASE PostOutput(p)
  BY <1>1, PostKeepsOnce DEF PostOutput, Message, Messages
<1>2. CASE PostExit(p)
  BY <1>2, PostKeepsOnce DEF PostExit, Message, Messages
<1>3. CASE PostThreadSpawn(p)
  BY <1>3, PostKeepsOnce DEF PostThreadSpawn, Message, Messages
<1>4. CASE PostKill(p)
  BY <1>4, PostKeepsOnce DEF PostKill, Message, Messages
<1>5. CASE CallSync(p)
  <2>1. ASSUME NEW q \in Pids, Unborn(q)' PROVE Unborn(q) /\ thread'[q] = "none" /\ q \notin Live'
    BY <1>5, <2>1 DEF CallSync, Unborn, AskedOnce, Asks, Live, TypeOK
  <2> QED
    BY <1>5, <2>1 DEF CallSync, AskedOnce, Asks
<1> QED
  BY <1>1, <1>2, <1>3, <1>4, <1>5, PostSpawnKeepsOnce DEF Guest

\* The kernel starts nobody whose birth is still to come, and asks for nobody.
LEMMA KernelKeepsOnce ==
  ASSUME TypeOK, AskedOnce, Shrinks,
         \A x \in Pids : Unborn(x)' => thread'[x] = thread[x] /\ (x \in Live' => x \in Live)
  PROVE  AskedOnce' /\ \A x \in Pids : Unborn(x)' => Unborn(x)
BY ShrinkUnborn, ShrinkKeepsOnce DEF AskedOnce

\* The end of a process leaves each other asked for once.
LEMMA FinalizeKeepsOnce ==
  ASSUME TypeOK, AskedOnce, NEW p \in Live, NEW pending,
         \A r \in Pids : pending[r] = up[r] \/ (up[r] # <<>> /\ pending[r] = Tail(up[r])),
         Finalize(p, pending), UNCHANGED owner
  PROVE  AskedOnce' /\ \A x \in Pids : Unborn(x)' => Unborn(x)
<1>1. Shrinks
  BY DEF Shrinks, Finalize
<1>2. Live' = Live \ Subtree(p) /\ Subtree(p) \subseteq Live
  BY FinalizeTable, SubtreeClosed DEF Live
<1>3. ASSUME NEW x \in Pids, Unborn(x)' PROVE thread'[x] = thread[x]
  <2>1. thread[x] = "none" /\ x \notin Live
    BY <1>1, <1>3, ShrinkUnborn DEF AskedOnce
  <2> QED
    BY <1>2, <2>1 DEF Finalize, Answer, TypeOK
<1> QED
  BY <1>1, <1>2, <1>3, KernelKeepsOnce

\* A spawn touches nobody but whom it is for.
LEMMA SpawnTouches ==
  ASSUME TypeOK, NEW q \in Pids, NEW parent, NEW reply, Spawn(q, parent, reply),
         NEW x \in Pids, x # q
  PROVE  thread'[x] = thread[x] /\ (x \in Live' => x \in Live)
<1>1. CASE Starts(q, parent, NoPid, FALSE)
  BY <1>1 DEF Starts, Live, TypeOK
<1>2. ASSUME NEW stage, LeftBehind(q, stage, thread)
      PROVE  thread'[x] = thread[x] /\ (x \in Live' => x \in Live)
  BY <1>2 DEF LeftBehind, Live, TypeOK
<1>3. CASE UNCHANGED <<workers, thread, clientVars>>
  BY <1>3 DEF Live
<1> QED
  BY <1>1, <1>2, <1>3 DEF Spawn

\* A spawn uses up the one request for its process.
LEMMA SpawnKeepsOnce ==
  ASSUME TypeOK, AskedOnce, Shrinks, NEW q \in Pids, NEW parent, NEW reply,
         Spawn(q, parent, reply), ~Unborn(q)'
  PROVE  AskedOnce' /\ \A x \in Pids : Unborn(x)' => Unborn(x)
BY KernelKeepsOnce, SpawnTouches

\* A fresh pid is asked for by nobody else.
LEMMA FreshIsBorn ==
  ASSUME TypeOK, AskedOnce, Shrinks, NEW q \in Fresh, NEW p \in Pids \cup {Host},
         owner' = [owner EXCEPT ![q] = p]
  PROVE  Unborn(q) /\ ~Unborn(q)'
<1>1. q \in Pids /\ owner[q] = NoPid /\ owner'[q] # NoPid
  BY TableAssumption DEF Fresh, TypeOK
<1>2. \A r \in Pids : \A i \in 1..Len(up[r]) : ~Asks(r, i, q)
  BY <1>1 DEF AskedOnce
<1> QED
  BY <1>1, <1>2, ShrinkAsksLess DEF Unborn

\* When pids do not collide, the child of a spawnSync is a new one.
LEMMA ServiceStarts ==
  ASSUME PidsCollide = FALSE, AskedOnce, NEW p \in Pids, SyncService(p),
         p \in syncClients, thread[p] = "blocked"
  PROVE  \E q \in Fresh :
           /\ owner' = [owner EXCEPT ![q] = p]
           /\ \/ /\ \E t \in BOOLEAN : Starts(q, NoPid, p, t)
                 /\ UNCHANGED events
              \/ \E stage \in FailAt :
                   /\ LeftBehind(q, stage, Answer(thread, p))
                   /\ events' = Tell(events, p, Event("result", q))
<1>1. \A q \in Askable : q \in Fresh /\ q \notin Live /\ Claim(p, q) = [owner EXCEPT ![q] = p]
  BY DEF Askable, Fresh, AskedOnce, Unborn, Claim
<1> QED
  BY <1>1 DEF SyncService

\* And a worker thread is one.
LEMMA ThreadStarts ==
  ASSUME PidsCollide = FALSE, NEW p \in Pids, OnThreadSpawn(p)
  PROVE  \E q \in Fresh : /\ owner' = [owner EXCEPT ![q] = p]
                          /\ Spawn(q, p, <<Event("started", q)>>)
BY DEF OnThreadSpawn, Askable, Claim

\* Serving a spawnSync leaves each process asked for once.
LEMMA ServiceKeepsOnce ==
  ASSUME PidsCollide = FALSE, TypeOK, AskedOnce, NEW p \in Pids, SyncService(p)
  PROVE  AskedOnce' /\ \A x \in Pids : Unborn(x)' => Unborn(x)
<1>1. CASE p \notin syncClients \/ thread[p] # "blocked"
  <2>1. Shrinks
    BY <1>1 DEF SyncService, Shrinks
  <2> QED
    BY <1>1, <2>1, KernelKeepsOnce DEF SyncService, Live
<1>2. CASE p \in syncClients /\ thread[p] = "blocked"
  <2>1. PICK q \in Fresh :
          /\ owner' = [owner EXCEPT ![q] = p]
          /\ \/ \E t \in BOOLEAN : Starts(q, NoPid, p, t)
             \/ \E stage \in FailAt : LeftBehind(q, stage, Answer(thread, p))
    BY <1>2, ServiceStarts
  <2>2. q \in Pids /\ owner[q] = NoPid
    BY DEF Fresh
  <2>3. Shrinks
    BY <2>1, <2>2, TableAssumption DEF SyncService, Shrinks, TypeOK
  <2>4. Unborn(q) /\ ~Unborn(q)'
    BY <2>1, <2>3, FreshIsBorn
  <2>5. ASSUME NEW x \in Pids, x # q, Unborn(x)'
        PROVE  thread'[x] = thread[x] /\ (x \in Live' => x \in Live)
    <3>1. thread[x] = "none"
      BY <2>3, <2>5, ShrinkUnborn DEF AskedOnce
    <3>2. ASSUME NEW t, Starts(q, NoPid, p, t)
          PROVE  thread'[x] = thread[x] /\ (x \in Live' => x \in Live)
      BY <2>2, <2>5, <3>2 DEF Starts, Live, TypeOK
    <3>3. ASSUME NEW stage, LeftBehind(q, stage, Answer(thread, p))
          PROVE  thread'[x] = thread[x] /\ (x \in Live' => x \in Live)
      BY <2>2, <2>5, <3>1, <3>3 DEF LeftBehind, Answer, Live, TypeOK
    <3> QED
      BY <2>1, <3>2, <3>3
  <2> QED
    BY <2>3, <2>4, <2>5, KernelKeepsOnce
<1> QED
  BY <1>1, <1>2

\* What a handler leaves in the queues.
LEMMA RestOfQueues ==
  ASSUME TypeOK, NEW p \in Pids, up[p] # <<>>
  PROVE  \A r \in Pids : Rest(p)[r] = up[r] \/ (up[r] # <<>> /\ Rest(p)[r] = Tail(up[r]))
BY DEF Rest, TypeOK

\* Nobody is started twice: the step of the proof.
LEMMA NextKeepsOnce ==
  ASSUME PidsCollide = FALSE, TypeOK, AskedOnce, [Next]_vars
  PROVE  AskedOnce' /\ \A x \in Pids : Unborn(x)' => Unborn(x)
<1>1. CASE UNCHANGED vars
  BY <1>1 DEF vars, threadVars, AskedOnce, Unborn, Asks, Live
<1>2. ASSUME NEW p \in Pids, Kernel(p)
      PROVE  AskedOnce' /\ \A x \in Pids : Unborn(x)' => Unborn(x)
  <2>1. CASE HostSpawn(p)
    <3>1. Shrinks
      BY <2>1, TableAssumption DEF HostSpawn, Shrinks, Fresh, TypeOK
    <3>2. ~Unborn(p)'
      BY <2>1, <3>1, FreshIsBorn DEF HostSpawn
    <3> QED
      BY <2>1, <3>1, <3>2, SpawnKeepsOnce DEF HostSpawn
  <2>2. CASE KernelKill(p) \/ Timeout(p)
    BY <2>2, FinalizeKeepsOnce DEF KernelKill, Timeout
  <2>3. CASE OnExit(p)
    BY <2>3, RestOfQueues, FinalizeKeepsOnce DEF OnExit, Delivers
  <2>4. CASE OnOutput(p)
    <3>1. Shrinks
      BY <2>4, RestOfQueues DEF OnOutput, Take, Delivers, Shrinks
    <3> QED
      BY <2>4, <3>1, KernelKeepsOnce DEF OnOutput, Live
  <2>5. CASE OnChildSpawn(p)
    <3>1. PICK q \in Pids : q = Head(up[p]).pid
      BY <2>5, PidAskedFor DEF OnChildSpawn, Take
    <3>2. Shrinks
      BY <2>5, RestOfQueues DEF OnChildSpawn, Take, Delivers, Shrinks
    <3>3. ~Unborn(q)'
      BY <2>5, <3>1, TakenIsBorn DEF OnChildSpawn
    <3> QED
      BY <2>5, <3>1, <3>2, <3>3, SpawnKeepsOnce DEF OnChildSpawn
  <2>6. CASE OnThreadSpawn(p)
    <3>1. PICK q \in Fresh : owner' = [owner EXCEPT ![q] = p] /\ Spawn(q, p, <<Event("started", q)>>)
      BY <2>6, ThreadStarts
    <3>2. q \in Pids
      BY DEF Fresh
    <3>3. Shrinks
      BY <2>6, <3>1, RestOfQueues, TableAssumption DEF OnThreadSpawn, Take, Delivers, Shrinks, Fresh, TypeOK
    <3>4. ~Unborn(q)'
      BY <3>1, <3>3, FreshIsBorn
    <3> QED
      BY <3>1, <3>2, <3>3, <3>4, SpawnKeepsOnce
  <2>7. CASE OnChildKill(p)
    <3>1. CASE Head(up[p]).pid \in Live
      BY <2>7, <3>1, RestOfQueues, FinalizeKeepsOnce DEF OnChildKill, Delivers, FinalizeIfLive
    <3>2. CASE Head(up[p]).pid \notin Live
      <4>1. Shrinks
        BY <2>7, <3>2, RestOfQueues DEF OnChildKill, FinalizeIfLive, Delivers, Shrinks
      <4> QED
        BY <2>7, <3>2, <4>1, KernelKeepsOnce DEF OnChildKill, FinalizeIfLive, Live
    <3> QED
      BY <3>1, <3>2
  <2> QED
    BY <1>2, <2>1, <2>2, <2>3, <2>4, <2>5, <2>6, <2>7, ServiceKeepsOnce DEF Kernel
<1> QED
  BY <1>1, <1>2, GuestKeepsOnce DEF Next

-----------------------------------------------------------------------------
(* An end is the last that is heard.                                        *)

\* Nothing but a "started" follows an end.
EndsLast(ev) ==
  \A r \in Receivers : \A i \in 1..Len(ev[r]), q \in Pids :
    IsEnd(ev[r][i], q) =>
      \A j \in i + 1..Len(ev[r]) : ev[r][j].of = q => ev[r][j].kind = "started"

\* What one more event does to both: it ends its process if it is an end, and
\* must not come after one unless it is a "started".
LEMMA TellEnds ==
  ASSUME NEW ev \in [Receivers -> Seq(Notices)], NEW r \in Receivers, NEW e \in Notices,
         EndsLast(ev), e.kind = "started" \/ ~Ended(ev, e.of)
  PROVE  /\ EndsLast(Tell(ev, r, e))
         /\ \A q \in Pids : Ended(Tell(ev, r, e), q) => Ended(ev, q) \/ IsEnd(e, q)
<1> DEFINE new == Tell(ev, r, e)
<1>1. /\ ev[r] \in Seq(Notices) /\ new[r] = Append(ev[r], e)
      /\ \A x \in Receivers : x # r => new[x] = ev[x]
  BY DEF Tell
<1>2. /\ Len(ev[r]) \in Nat /\ Len(new[r]) = Len(ev[r]) + 1
      /\ new[r][Len(ev[r]) + 1] = e
      /\ \A i \in 1..Len(ev[r]) : new[r][i] = ev[r][i]
  BY <1>1, AppendProperties, LenProperties
<1>3. \A q \in Pids : Ended(new, q) => Ended(ev, q) \/ IsEnd(e, q)
  BY <1>1, <1>2 DEF Ended
<1>4. EndsLast(new)
  <2> SUFFICES ASSUME NEW x \in Receivers, NEW i \in 1..Len(new[x]), NEW q \in Pids,
                      IsEnd(new[x][i], q),
                      NEW j \in i + 1..Len(new[x]), new[x][j].of = q
               PROVE  new[x][j].kind = "started"
    BY DEF EndsLast
  <2>1. CASE x # r
    BY <1>1, <2>1 DEF EndsLast
  <2>2. CASE x = r /\ j \in 1..Len(ev[r])
    <3>1. i \in 1..Len(ev[r]) /\ j \in i + 1..Len(ev[r])
      BY <1>2, <2>2
    <3> QED
      BY <1>2, <2>2, <3>1 DEF EndsLast
  <2>3. CASE x = r /\ j \notin 1..Len(ev[r])
    <3>1. i \in 1..Len(ev[r]) /\ j = Len(ev[r]) + 1
      BY <1>2, <2>3
    <3>2. Ended(ev, q) /\ new[x][j] = e
      BY <1>2, <2>3, <3>1 DEF Ended
    <3> QED
      BY <3>2
  <2> QED
    BY <2>1, <2>2, <2>3
<1> QED
  BY <1>3, <1>4

\* The step of the proof, for whatever is told or not told: whom it reports as
\* ended is not in the table any more and not to be started.
LEMMA EndsKept ==
  ASSUME EndsForGood,
         \A x \in Pids : Unborn(x)' => Unborn(x),
         \A x \in Pids : x \in Live' => x \in Live \/ Unborn(x),
         EndsLast(events'),
         \A x \in Pids : Ended(events', x) => Ended(events, x) \/ (x \notin Live' /\ ~Unborn(x)')
  PROVE  EndsForGood'
<1>1. ASSUME NEW q \in Pids, Ended(events', q) PROVE q \notin Live' /\ ~Unborn(q)'
  BY <1>1 DEF EndsForGood
<1>2. \A q \in Pids : Ended(events, q)' <=> Ended(events', q)
  BY DEF Ended
<1> QED
  BY <1>1, <1>2 DEF EndsForGood, EndsLast

\* Nothing is told.
LEMMA SilenceKeepsEnds ==
  ASSUME EndsForGood, UNCHANGED events,
         \A x \in Pids : Unborn(x)' => Unborn(x),
         \A x \in Pids : x \in Live' => x \in Live \/ Unborn(x)
  PROVE  EndsForGood'
BY EndsKept DEF EndsForGood, EndsLast

\* A process that ends has its end told once, after all else.
LEMMA FinalizeKeepsEnds ==
  ASSUME TypeOK, EndsForGood, NEW p \in Live, NEW pending, Finalize(p, pending),
         \A x \in Pids : Unborn(x)' => Unborn(x),
         \A x \in Pids : Unborn(x) => x \notin Live
  PROVE  EndsForGood'
<1>1. p \in Pids /\ events \in [Receivers -> Seq(Notices)] /\ ParentOf(p) \in Receivers
  BY DEF Live, TypeOK, ParentOf, Receivers
<1>2. Live' = Live \ Subtree(p) /\ p \in Subtree(p)
  BY <1>1, FinalizeTable, SubtreeClosed
<1>3. ~Ended(events, p) /\ p \notin Live' /\ ~Unborn(p)'
  BY <1>1, <1>2 DEF EndsForGood
<1>4. PICK r \in Receivers, kind \in {"exit", "result"} :
        events' = events \/ events' = Tell(events, r, Event(kind, p))
  BY <1>1 DEF Finalize, Reports, TypeOK, Entry, Receivers
<1>5. CASE events' = events
  BY <1>2, <1>5, SilenceKeepsEnds
<1>6. CASE events' = Tell(events, r, Event(kind, p))
  <2>1. Event(kind, p) \in Notices /\ Event(kind, p).of = p
    BY <1>1 DEF Event, Notices
  <2>2. EndsLast(events)
    BY DEF EndsForGood, EndsLast
  <2>3. /\ EndsLast(events')
        /\ \A x \in Pids : Ended(events', x) => Ended(events, x) \/ IsEnd(Event(kind, p), x)
    BY <1>1, <1>3, <1>6, <2>1, <2>2, TellEnds
  <2> QED
    BY <1>2, <1>3, <2>1, <2>3, EndsKept DEF IsEnd
<1> QED
  BY <1>4, <1>5, <1>6

\* A spawn tells its parent that it started and the host if it failed.
LEMMA SpawnKeepsEnds ==
  ASSUME TypeOK, EndsForGood, NEW q \in Pids, NEW parent \in Pids \cup {NoPid}, NEW reply,
         \/ reply = <<>>
         \/ reply = <<Event("started", q)>> /\ parent \in Pids,
         Spawn(q, parent, reply), Unborn(q), ~Unborn(q)',
         \A x \in Pids : Unborn(x)' => Unborn(x),
         \A x \in Pids : Unborn(x) => x \notin Live
  PROVE  EndsForGood'
<1> DEFINE told == [r \in Receivers |-> IF r = parent THEN events[r] \o reply ELSE events[r]]
           failed == Tell(told, Host, Event("exit", q))
<1>1. events \in [Receivers -> Seq(Notices)] /\ Host \in Receivers /\ EndsLast(events)
  BY DEF TypeOK, Receivers, EndsForGood, EndsLast
<1>2. told = events \/ (parent \in Receivers /\ told = Tell(events, parent, Event("started", q)))
  <2>1. CASE reply = <<>>
    <3>1. \A r \in Receivers : events[r] \o <<>> = events[r]
      BY <1>1, ConcatEmptySeq
    <3>2. \A r \in Receivers : told[r] = events[r]
      BY <2>1, <3>1
    <3> QED
      BY <1>1, <3>2
  <2>2. CASE reply = <<Event("started", q)>> /\ parent \in Pids
    <3>1. Event("started", q) \in Notices
      BY DEF Event, Notices
    <3>2. parent \in Receivers /\ events[parent] \o reply = Append(events[parent], Event("started", q))
      BY <1>1, <2>2, <3>1, AppendIsConcat DEF Receivers
    <3>3. \A r \in Receivers : told[r] = Tell(events, parent, Event("started", q))[r]
      BY <1>1, <3>2 DEF Tell
    <3>4. told \in [Receivers -> Seq(Notices)]
      BY <1>1, <2>2, <3>1
    <3>5. Tell(events, parent, Event("started", q)) \in [Receivers -> Seq(Notices)]
      BY <1>1, <3>1, <3>2, TellTypes
    <3>6. told = Tell(events, parent, Event("started", q))
      BY <3>3, <3>4, <3>5
    <3> QED
      BY <3>2, <3>6
  <2> QED
    BY <2>1, <2>2
<1> HIDE DEF told
<1>3. told \in [Receivers -> Seq(Notices)] /\ EndsLast(told)
      /\ \A x \in Pids : Ended(told, x) => Ended(events, x)
  <2>1. /\ Event("started", q) \in Notices /\ Event("started", q).kind = "started"
        /\ \A x \in Pids : ~IsEnd(Event("started", q), x)
    BY DEF Event, Notices, IsEnd
  <2>2. CASE told = events
    BY <1>1, <2>2
  <2>3. CASE parent \in Receivers /\ told = Tell(events, parent, Event("started", q))
    <3>1. told \in [Receivers -> Seq(Notices)]
      BY <1>1, <2>1, <2>3, TellTypes
    <3>2. /\ EndsLast(told)
          /\ \A x \in Pids : Ended(told, x) => Ended(events, x) \/ IsEnd(Event("started", q), x)
      BY <1>1, <2>1, <2>3, TellEnds
    <3> QED
      BY <2>1, <3>1, <3>2
  <2> QED
    BY <1>2, <2>2, <2>3
<1>4. ~Ended(events, q) /\ q \notin Live
  BY DEF EndsForGood
<1> HIDE DEF failed
<1>5. /\ EndsLast(failed)
      /\ \A x \in Pids : Ended(failed, x) => Ended(events, x) \/ x = q
  <2>1. Event("exit", q) \in Notices /\ Event("exit", q).of = q
    BY DEF Event, Notices
  <2>2. /\ EndsLast(failed)
        /\ \A x \in Pids : Ended(failed, x) => Ended(told, x) \/ IsEnd(Event("exit", q), x)
    BY <1>1, <1>3, <1>4, <2>1, TellEnds DEF failed
  <2> QED
    BY <1>3, <2>1, <2>2 DEF IsEnd
<1>6. CASE events' = told /\ Starts(q, parent, NoPid, FALSE)
  <2>1. \A x \in Pids : x \in Live' => x \in Live \/ Unborn(x)
    BY <1>6 DEF Starts, Live, TypeOK
  <2> QED
    BY <1>3, <1>6, <2>1, EndsKept
<1>7. CASE events' = failed /\ \E stage \in FailAt : LeftBehind(q, stage, thread)
  <2>1. Live' = Live
    BY <1>7 DEF LeftBehind, Live
  <2> QED
    BY <1>4, <1>5, <1>7, <2>1, EndsKept
<1> QED
  BY <1>4, <1>6, <1>7 DEF Spawn, told, failed

\* A spawnSync that is served tells nothing, unless the child cannot start: then
\* it is its end that the caller hears.
LEMMA ServiceKeepsEnds ==
  ASSUME PidsCollide = FALSE, TypeOK, AskedOnce, EndsForGood, NEW p \in Pids, SyncService(p),
         \A x \in Pids : Unborn(x)' => Unborn(x)
  PROVE  EndsForGood'
<1>1. CASE p \notin syncClients \/ thread[p] # "blocked"
  <2>1. UNCHANGED events /\ Live' = Live
    BY <1>1 DEF SyncService, Live
  <2> QED
    BY <2>1, SilenceKeepsEnds
<1>2. CASE p \in syncClients /\ thread[p] = "blocked"
  <2>1. PICK q \in Fresh :
          /\ owner' = [owner EXCEPT ![q] = p]
          /\ \/ /\ \E t \in BOOLEAN : Starts(q, NoPid, p, t)
                /\ UNCHANGED events
             \/ \E stage \in FailAt :
                  /\ LeftBehind(q, stage, Answer(thread, p))
                  /\ events' = Tell(events, p, Event("result", q))
    BY <1>2, ServiceStarts
  <2>2. q \in Pids /\ owner[q] = NoPid
    BY DEF Fresh
  <2>3. Shrinks
    BY <2>1, <2>2, TableAssumption DEF SyncService, Shrinks, TypeOK
  <2>4. Unborn(q) /\ ~Unborn(q)' /\ q \notin Live /\ ~Ended(events, q)
    BY <2>1, <2>2, <2>3, FreshIsBorn DEF AskedOnce, EndsForGood
  <2>5. CASE UNCHANGED events /\ \E t \in BOOLEAN : Starts(q, NoPid, p, t)
    <3>1. \A x \in Pids : x \in Live' => x \in Live \/ Unborn(x)
      BY <2>2, <2>4, <2>5 DEF Starts, Live, TypeOK
    <3> QED
      BY <2>5, <3>1, SilenceKeepsEnds
  <2>6. CASE /\ \E stage \in FailAt : LeftBehind(q, stage, Answer(thread, p))
             /\ events' = Tell(events, p, Event("result", q))
    <3>1. Event("result", q) \in Notices /\ Event("result", q).of = q /\ p \in Receivers
      BY <2>2 DEF Event, Notices, Receivers
    <3>2. events \in [Receivers -> Seq(Notices)] /\ EndsLast(events)
      BY DEF TypeOK, EndsForGood, EndsLast
    <3>3. /\ EndsLast(events')
          /\ \A x \in Pids : Ended(events', x) => Ended(events, x) \/ IsEnd(Event("result", q), x)
      BY <2>4, <2>6, <3>1, <3>2, TellEnds
    <3>4. Live' = Live
      BY <2>6 DEF LeftBehind, Live
    <3> QED
      BY <2>4, <3>1, <3>3, <3>4, EndsKept DEF IsEnd
  <2> QED
    BY <2>1, <2>5, <2>6
<1> QED
  BY <1>1, <1>2

\* Output is told of a process that is in the table.
LEMMA OutputKeepsEnds ==
  ASSUME TypeOK, EndsForGood, NEW p \in Pids, OnOutput(p),
         \A x \in Pids : Unborn(x)' => Unborn(x)
  PROVE  EndsForGood'
<1>1. p \in Live /\ Live' = Live
  BY DEF OnOutput, Take, Delivers, Live
<1>2. CASE events' = events
  BY <1>1, <1>2, SilenceKeepsEnds
<1>3. CASE events' = Tell(events, ParentOf(p), Event("output", p))
  <2>1. /\ Event("output", p) \in Notices /\ Event("output", p).of = p
        /\ \A x \in Pids : ~IsEnd(Event("output", p), x)
        /\ ParentOf(p) \in Receivers
    BY DEF Event, Notices, IsEnd, ParentOf, Receivers, Live
  <2>2. events \in [Receivers -> Seq(Notices)] /\ EndsLast(events) /\ ~Ended(events, p)
    BY <1>1 DEF TypeOK, EndsForGood, EndsLast
  <2>3. /\ EndsLast(events')
        /\ \A x \in Pids : Ended(events', x) => Ended(events, x) \/ IsEnd(Event("output", p), x)
    BY <1>3, <2>1, <2>2, TellEnds
  <2> QED
    BY <1>1, <2>1, <2>3, EndsKept
<1> QED
  BY <1>2, <1>3 DEF OnOutput

\* The step of the proof.
LEMMA NextKeepsEnds ==
  ASSUME PidsCollide = FALSE, TypeOK, AskedOnce, EndsForGood, [Next]_vars
  PROVE  EndsForGood'
<1>1. /\ \A x \in Pids : Unborn(x)' => Unborn(x)
      /\ \A x \in Pids : Unborn(x) => x \notin Live
  BY NextKeepsOnce DEF AskedOnce
<1>2. ASSUME UNCHANGED <<events, workers>> PROVE EndsForGood'
  BY <1>1, <1>2, SilenceKeepsEnds DEF Live
<1>3. CASE UNCHANGED vars
  BY <1>2, <1>3 DEF vars
<1>4. ASSUME NEW p \in Pids, Guest(p) PROVE EndsForGood'
  BY <1>2, <1>4 DEF Guest, PostOutput, PostExit, PostSpawn, PostThreadSpawn, PostKill, CallSync
<1>5. ASSUME NEW p \in Pids, Kernel(p) PROVE EndsForGood'
  <2>1. CASE HostSpawn(p)
    <3>1. Shrinks
      BY <2>1, TableAssumption DEF HostSpawn, Shrinks, Fresh, TypeOK
    <3>2. Unborn(p) /\ ~Unborn(p)'
      BY <2>1, <3>1, FreshIsBorn DEF HostSpawn
    <3> QED
      BY <1>1, <2>1, <3>2, SpawnKeepsEnds DEF HostSpawn
  <2>2. CASE KernelKill(p) \/ Timeout(p)
    BY <1>1, <2>2, FinalizeKeepsEnds DEF KernelKill, Timeout
  <2>3. CASE OnExit(p)
    BY <1>1, <2>3, FinalizeKeepsEnds DEF OnExit, Delivers
  <2>4. CASE OnChildSpawn(p)
    <3>1. PICK q \in Pids : q = Head(up[p]).pid
      BY <2>4, PidAskedFor DEF OnChildSpawn, Take
    <3>2. Unborn(q) /\ ~Unborn(q)'
      BY <2>4, <3>1, TakenIsBorn DEF OnChildSpawn
    <3> QED
      BY <1>1, <2>4, <3>1, <3>2, SpawnKeepsEnds DEF OnChildSpawn
  <2>5. CASE OnThreadSpawn(p)
    <3>1. PICK q \in Fresh : owner' = [owner EXCEPT ![q] = p] /\ Spawn(q, p, <<Event("started", q)>>)
      BY <2>5, ThreadStarts
    <3>2. q \in Pids
      BY DEF Fresh
    <3>3. Shrinks
      BY <2>5, <3>1, RestOfQueues, TableAssumption DEF OnThreadSpawn, Take, Delivers, Shrinks, Fresh, TypeOK
    <3>4. Unborn(q) /\ ~Unborn(q)'
      BY <3>1, <3>3, FreshIsBorn
    <3> QED
      BY <1>1, <3>1, <3>2, <3>4, SpawnKeepsEnds
  <2>6. CASE OnChildKill(p)
    BY <1>1, <1>2, <2>6, FinalizeKeepsEnds DEF OnChildKill, FinalizeIfLive
  <2> QED
    BY <1>1, <1>5, <2>1, <2>2, <2>3, <2>4, <2>5, <2>6, ServiceKeepsEnds, OutputKeepsEnds DEF Kernel
<1> QED
  BY <1>3, <1>4, <1>5 DEF Next

\* A pid is started once, however its birth is asked for.
THEOREM StartedOnce ==
  ASSUME PidsCollide = FALSE
  PROVE  Spec => []AskedOnce
<1>1. Init => AskedOnce
  BY DEF Init, AskedOnce, Unborn, Asks, Live, Free
<1>2. TypeOK /\ AskedOnce /\ [Next]_vars => AskedOnce'
  BY NextKeepsOnce
<1> QED
  BY <1>1, <1>2, TableTypeCorrect, PTL DEF Spec

\* What a receiver hears of a process ends with its exit or result, which comes
\* once and is true.
THEOREM EndIsHeardLast ==
  ASSUME PidsCollide = FALSE
  PROVE  Spec => []EndIsLast
<1>1. Init => EndsForGood
  BY DEF Init, EndsForGood, Ended
<1>2. TypeOK /\ AskedOnce /\ EndsForGood /\ [Next]_vars => EndsForGood'
  BY NextKeepsEnds
<1>3. TypeOK /\ EndsForGood => EndIsLast
  <2> SUFFICES ASSUME TypeOK, EndsForGood, NEW r \in Receivers, NEW i \in 1..Len(events[r]),
                      events[r][i].kind \in {"exit", "result"}
               PROVE  /\ events[r][i].of \notin Live
                      /\ \A j \in i + 1..Len(events[r]) :
                           events[r][j].of = events[r][i].of => events[r][j].kind = "started"
    BY DEF EndIsLast
  <2>1. events[r] \in Seq(Notices)
    BY DEF TypeOK
  <2>2. events[r][i] \in Notices
    BY <2>1
  <2>3. PICK q \in Pids : q = events[r][i].of
    BY <2>2 DEF Notices
  <2>4. IsEnd(events[r][i], q) /\ Ended(events, q)
    BY <2>3 DEF IsEnd, Ended
  <2> QED
    BY <2>3, <2>4 DEF EndsForGood
<1> QED
  BY <1>1, <1>2, <1>3, TableTypeCorrect, StartedOnce, PTL DEF Spec

-----------------------------------------------------------------------------
(* Whoever is parked in spawnSync is awaited.                               *)

\* A process that was not there and starts with no caller is nobody's
\* synchronous child.
LEMMA StartKeepsParked ==
  ASSUME TypeOK, Parked, NEW q \in Pids, NEW parent,
         thread[q] = "none", Starts(q, parent, NoPid, FALSE), UNCHANGED rung
  PROVE  Parked'
<1>1. /\ Live' = Live \cup {q} /\ \A x \in Live : x # q => workers'[x] = workers[x]
      /\ workers'[q].caller = NoPid /\ q \notin Live
      /\ thread'[q] = "running" /\ \A x \in Pids : x # q => thread'[x] = thread[x]
      /\ syncClients' = syncClients \cup {q}
  BY DEF Starts, Live, TypeOK, Parked
<1>2. ASSUME NEW p \in Pids PROVE Callers(p)' = Callers(p)
  BY <1>1, TableAssumption DEF Callers
<1>3. \A p \in Pids : thread'[p] = "blocked" =>
        IF p \in rung' THEN Callers(p)' = {} ELSE \E x \in Pids : Callers(p)' = {x}
  BY <1>1, <1>2 DEF Parked
<1>4. \A p \in Pids : Callers(p)' # {} \/ p \in rung' => thread'[p] \in {"blocked", "terminated"}
  BY <1>1, <1>2 DEF Parked
<1>5. \A p \in Pids : /\ thread'[p] = "terminated" => p \notin syncClients'
                      /\ thread'[p] \in {"running", "blocked"} => p \in Live' \cap syncClients'
                      /\ p \in Live' => thread'[p] \in {"running", "blocked"}
  BY <1>1 DEF Parked
<1>6. \A x \in Live' : workers'[x].caller # NoPid => workers'[x].parent = NoPid
  BY <1>1 DEF Parked
<1>7. Live' \subseteq Pids
  BY DEF Live
<1> QED
  BY <1>3, <1>4, <1>5, <1>6, <1>7 DEF Parked

\* A spawn that throws leaves the table as it was; at most it has given a client
\* to a worker that was not there.
LEMMA FailureKeepsParked ==
  ASSUME TypeOK, Parked, NEW q \in Pids, NEW stage, thread[q] = "none",
         LeftBehind(q, stage, thread), UNCHANGED rung
  PROVE  Parked'
<1>1. /\ Live' = Live /\ workers' = workers
      /\ thread'[q] \in {"none", "stray"} /\ \A x \in Pids : x # q => thread'[x] = thread[x]
      /\ syncClients \subseteq syncClients' /\ syncClients' \subseteq syncClients \cup {q}
  BY DEF LeftBehind, Live, TypeOK
<1>2. \A p \in Pids : Callers(p)' = Callers(p)
  BY <1>1 DEF Callers
<1> QED
  BY <1>1, <1>2 DEF Parked, Live

\* A process that starts parks nobody without a child to wait for.
LEMMA SpawnKeepsParked ==
  ASSUME TypeOK, Parked, AskedOnce, NEW q \in Pids, NEW parent, NEW reply, Unborn(q),
         Spawn(q, parent, reply), UNCHANGED rung
  PROVE  Parked'
<1>1. thread[q] = "none" /\ q \notin Live
  BY DEF AskedOnce
<1> QED
  BY <1>1, StartKeepsParked, FailureKeepsParked DEF Spawn

\* An end wakes the caller of the process that ends, and takes along nobody
\* else's synchronous child: those have no parent.
LEMMA FinalizeKeepsParked ==
  ASSUME TypeOK, Parked, NEW p \in Live, NEW pending, Finalize(p, pending), UNCHANGED rung
  PROVE  Parked'
<1> DEFINE gone == Subtree(p)
           c == workers[p].caller
<1>1. /\ p \in Pids /\ p \in gone /\ gone \subseteq Pids
      /\ Live' = Live \ gone /\ \A x \in Live' : workers'[x] = workers[x]
      /\ syncClients' = syncClients \ gone
  BY FinalizeTable, SubtreeClosed DEF Live, Finalize, Detaches
<1>2. \A x \in gone : x # p => workers[x].caller = NoPid
  BY <1>1, SubtreeClosed, TableAssumption DEF Parked
<1>3. \A x \in Pids : thread'[x] = IF x \in gone THEN "terminated"
                                   ELSE IF c = x /\ thread[x] = "blocked" THEN "running"
                                   ELSE thread[x]
  BY TableAssumption DEF Finalize, Answer, TypeOK
<1> HIDE DEF gone
<1>4. ASSUME NEW x \in Pids, x # c PROVE Callers(x)' = Callers(x)
  BY <1>1, <1>2, <1>4, TableAssumption DEF Callers
<1>5. ASSUME NEW x \in Pids, x = c, thread[x] = "blocked" PROVE Callers(x)' = {} /\ x \notin rung
  <2>1. p \in Callers(x)
    BY <1>5 DEF Callers
  <2>2. x \notin rung /\ Callers(x) = {p}
    BY <1>5, <2>1 DEF Parked
  <2> QED
    BY <1>1, <2>2 DEF Callers
<1>6. ASSUME NEW x \in Pids PROVE Callers(x)' \subseteq Callers(x)
  BY <1>1, <1>6 DEF Callers
<1>7. \A x \in Pids : thread'[x] = "blocked" =>
        IF x \in rung' THEN Callers(x)' = {} ELSE \E y \in Pids : Callers(x)' = {y}
  BY <1>3, <1>4 DEF Parked
<1>8. \A x \in Pids : Callers(x)' # {} \/ x \in rung' => thread'[x] \in {"blocked", "terminated"}
  BY <1>3, <1>5, <1>6 DEF Parked
<1>9. \A x \in Pids : /\ thread'[x] = "terminated" => x \notin syncClients'
                      /\ thread'[x] \in {"running", "blocked"} => x \in Live' \cap syncClients'
                      /\ x \in Live' => thread'[x] \in {"running", "blocked"}
  BY <1>1, <1>3 DEF Parked
<1>10. \A x \in Live' : workers'[x].caller # NoPid => workers'[x].parent = NoPid
  BY <1>1 DEF Parked
<1>11. Live' \subseteq Pids
  BY DEF Live
<1> QED
  BY <1>7, <1>8, <1>9, <1>10, <1>11 DEF Parked

\* The doorbell of whom it was rung for: it is still parked if it still has its
\* client, and then gets one child, or its answer.
LEMMA ServiceKeepsParked ==
  ASSUME PidsCollide = FALSE, TypeOK, Parked, AskedOnce, NEW p \in Pids, SyncService(p)
  PROVE  Parked'
<1>1. p \in rung /\ rung' = rung \ {p} /\ thread[p] \in {"blocked", "terminated"}
  BY DEF SyncService, Parked
<1>2. CASE p \notin syncClients \/ thread[p] # "blocked"
  <2>1. UNCHANGED <<workers, thread, syncClients>> /\ thread[p] # "blocked"
    BY <1>2 DEF SyncService, clientVars, Parked
  <2>2. Live' = Live /\ \A x \in Pids : Callers(x)' = Callers(x)
    BY <2>1 DEF Live, Callers
  <2> QED
    BY <1>1, <2>1, <2>2 DEF Parked
<1>3. CASE p \in syncClients /\ thread[p] = "blocked"
  <2>1. thread[p] = "blocked" /\ Callers(p) = {}
    BY <1>1, <1>3 DEF Parked
  <2>2. PICK q \in Fresh :
          \/ \E t \in BOOLEAN : Starts(q, NoPid, p, t)
          \/ \E stage \in FailAt : LeftBehind(q, stage, Answer(thread, p))
    BY <1>3, ServiceStarts
  <2>3. q \in Pids /\ thread[q] = "none" /\ q \notin Live /\ q # p
    BY <2>1 DEF Fresh, AskedOnce, Unborn
  <2>4. ASSUME NEW t \in BOOLEAN, Starts(q, NoPid, p, t) PROVE Parked'
    <3>1. /\ Live' = Live \cup {q} /\ \A x \in Live : x # q => workers'[x] = workers[x]
          /\ workers'[q].caller = p /\ workers'[q].parent = NoPid
          /\ thread'[q] = "running" /\ \A x \in Pids : x # q => thread'[x] = thread[x]
          /\ syncClients' = syncClients \cup {q}
      BY <2>3, <2>4 DEF Starts, Live, TypeOK
    <3>2. Callers(p)' = {q}
      BY <2>1, <2>3, <3>1 DEF Callers
    <3>3. \A x \in Pids : x # p => Callers(x)' = Callers(x)
      BY <2>3, <3>1 DEF Callers
    <3>4. \A x \in Pids : thread'[x] = "blocked" =>
            IF x \in rung' THEN Callers(x)' = {} ELSE \E y \in Pids : Callers(x)' = {y}
      BY <1>1, <2>3, <3>1, <3>2, <3>3 DEF Parked
    <3>5. \A x \in Pids : Callers(x)' # {} \/ x \in rung' => thread'[x] \in {"blocked", "terminated"}
      BY <1>1, <2>3, <3>1, <3>3 DEF Parked
    <3>6. \A x \in Pids : /\ thread'[x] = "terminated" => x \notin syncClients'
                          /\ thread'[x] \in {"running", "blocked"} => x \in Live' \cap syncClients'
                          /\ x \in Live' => thread'[x] \in {"running", "blocked"}
      BY <3>1 DEF Parked
    <3>7. \A x \in Live' : workers'[x].caller # NoPid => workers'[x].parent = NoPid
      BY <3>1 DEF Parked
    <3>8. Live' \subseteq Pids
      BY DEF Live
    <3> QED
      BY <3>4, <3>5, <3>6, <3>7, <3>8 DEF Parked
  <2>5. ASSUME NEW stage, LeftBehind(q, stage, Answer(thread, p)) PROVE Parked'
    <3>1. /\ Live' = Live /\ workers' = workers
          /\ thread'[p] = "running" /\ thread'[q] \in {"none", "stray"}
          /\ \A x \in Pids : x # q /\ x # p => thread'[x] = thread[x]
          /\ syncClients \subseteq syncClients' /\ syncClients' \subseteq syncClients \cup {q}
      BY <2>1, <2>3, <2>5 DEF LeftBehind, Answer, Live, TypeOK
    <3>2. \A x \in Pids : Callers(x)' = Callers(x)
      BY <3>1 DEF Callers
    <3> QED
      BY <1>1, <2>1, <2>3, <3>1, <3>2 DEF Parked, Live
  <2> QED
    BY <2>2, <2>4, <2>5
<1> QED
  BY <1>2, <1>3

\* A thread that calls spawnSync had no child that reports to it.
LEMMA CallKeepsParked ==
  ASSUME TypeOK, Parked, NEW p \in Pids, CallSync(p)
  PROVE  Parked'
<1>1. /\ thread[p] = "running" /\ thread'[p] = "blocked" /\ rung' = rung \cup {p}
      /\ \A x \in Pids : x # p => thread'[x] = thread[x]
      /\ UNCHANGED <<workers, syncClients>>
  BY DEF CallSync, clientVars, TypeOK
<1>2. Live' = Live /\ \A x \in Pids : Callers(x)' = Callers(x)
  BY <1>1 DEF Live, Callers
<1>3. Callers(p) = {} /\ p \in Live \cap syncClients
  BY <1>1 DEF Parked
<1> QED
  BY <1>1, <1>2, <1>3 DEF Parked, Live

\* No step parks a caller without the one child it waits for, or its doorbell.
LEMMA NextKeepsParked ==
  ASSUME PidsCollide = FALSE, TypeOK, AskedOnce, Parked, [Next]_vars
  PROVE  Parked'
<1>1. ASSUME UNCHANGED <<workers, thread, rung, syncClients>> PROVE Parked'
  <2>1. Live' = Live /\ \A x \in Pids : Callers(x)' = Callers(x)
    BY <1>1 DEF Live, Callers
  <2> QED
    BY <1>1, <2>1 DEF Parked
<1>2. CASE UNCHANGED vars
  BY <1>1, <1>2 DEF vars, threadVars, clientVars
<1>3. ASSUME NEW p \in Pids, Guest(p) PROVE Parked'
  BY <1>1, <1>3, CallKeepsParked
  DEF Guest, PostOutput, PostExit, PostSpawn, PostThreadSpawn, PostKill, clientVars
<1>4. ASSUME NEW q \in Fresh PROVE Unborn(q) /\ q \in Pids
  BY DEF Fresh, Unborn
<1>5. ASSUME NEW p \in Pids, Kernel(p) PROVE Parked'
  <2>1. CASE HostSpawn(p)
    BY <1>4, <2>1, SpawnKeepsParked DEF HostSpawn
  <2>2. CASE KernelKill(p) \/ Timeout(p) \/ OnExit(p)
    BY <2>2, FinalizeKeepsParked DEF KernelKill, Timeout, OnExit, Delivers
  <2>3. CASE OnOutput(p)
    BY <1>1, <2>3 DEF OnOutput, Take, Delivers, clientVars
  <2>4. CASE OnChildSpawn(p)
    <3>1. PICK q \in Pids : q = Head(up[p]).pid
      BY <2>4, PidAskedFor DEF OnChildSpawn, Take
    <3>2. Unborn(q)
      BY <2>4, <3>1, TakenIsBorn DEF OnChildSpawn
    <3> QED
      BY <2>4, <3>1, <3>2, SpawnKeepsParked DEF OnChildSpawn, Take, Delivers
  <2>5. CASE OnThreadSpawn(p)
    BY <1>4, <2>5, ThreadStarts, SpawnKeepsParked DEF OnThreadSpawn, Take, Delivers
  <2>6. CASE OnChildKill(p)
    BY <1>1, <2>6, FinalizeKeepsParked DEF OnChildKill, FinalizeIfLive, Delivers, clientVars
  <2> QED
    BY <1>5, <2>1, <2>2, <2>3, <2>4, <2>5, <2>6, ServiceKeepsParked DEF Kernel
<1> QED
  BY <1>2, <1>3, <1>5 DEF Next

\* A thread parked in spawnSync has its doorbell on its way or exactly one child
\* that reports to it, whatever else is spawned, killed or fails meanwhile.
THEOREM ParkedIsAwaited ==
  ASSUME PidsCollide = FALSE
  PROVE  Spec => []BlockedIsAwaited
<1>1. Init => Parked
  BY DEF Init, Parked, Callers, Live, Free
<1>2. TypeOK /\ AskedOnce /\ Parked /\ [Next]_vars => Parked'
  BY NextKeepsParked
<1>3. Parked => BlockedIsAwaited
  <2>1. ASSUME NEW p \in Pids, NEW q \in Pids, Callers(p) = {q} PROVE Cardinality(Callers(p)) = 1
    BY <2>1, FS_Singleton
  <2> QED
    BY <2>1 DEF Parked, BlockedIsAwaited, Callers
<1> QED
  BY <1>1, <1>2, <1>3, TableTypeCorrect, StartedOnce, PTL DEF Spec
=============================================================================
