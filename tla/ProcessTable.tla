---------------------------- MODULE ProcessTable ----------------------------
(***************************************************************************)
(* The kernel's process table (kernel/processes.ts) together with the      *)
(* servicer of spawnSync (kernel/kernelSyncServer.ts): spawn, kill, exit,  *)
(* output routing, and the teardown of a process and of its subtree.       *)
(*                                                                         *)
(* Every process is a worker thread of its own, which posts messages to    *)
(* the kernel and may be terminated between any two of its steps.  The     *)
(* kernel is one thread: a message, a doorbell, a timer or a worker error  *)
(* is handled to its end before the next one, so each is one action.       *)
(***************************************************************************)
EXTENDS Naturals, Sequences, FiniteSets

CONSTANTS Pids,       \* the pids that can be asked for
          Host,       \* the host page, as a receiver of events
          NoPid,      \* no parent, no caller
          MaxPosts,   \* bound on the messages one worker posts
          FailAt,     \* which part of a spawn may throw
          PidsCollide \* TRUE: a spawn may ask for the pid of a live process

ASSUME TableAssumption ==
  /\ Host \notin Pids /\ NoPid \notin Pids /\ Host # NoPid
  /\ MaxPosts \in Nat
  /\ FailAt \subseteq {"worker", "fs", "sync", "net"}
  /\ PidsCollide \in BOOLEAN

VARIABLES
  workers,     \* the table: [live, parent, caller, timer] for every pid
  thread,      \* thread[p]: what p's worker thread is doing
  posts,       \* posts[p]: messages p's worker has posted so far
  up,          \* up[p]: messages from p's worker the kernel has not handled
  rung,        \* processes whose spawnSync doorbell is on its way
  fsClients,   \* pids with a registered fs client,
  syncClients, \*   kernel sync client,
  netClients,  \*   net client and whatever netServer holds for them
  events,      \* events[r]: what the kernel has posted to r, in order
  owner        \* owner[p]: the process that asked for p, or Host

clientVars == <<fsClients, syncClients, netClients>>
threadVars == <<thread, posts, up, rung>>
vars == <<workers, threadVars, clientVars, events, owner>>

Receivers == Pids \cup {Host}
Free == [live |-> FALSE, parent |-> NoPid, caller |-> NoPid, timer |-> FALSE]
Live == {p \in Pids : workers[p].live}

\* A pid nobody has asked for, and one a spawn may ask for.
Fresh == {p \in Pids : owner[p] = NoPid}
Askable == IF PidsCollide THEN Fresh \cup Live ELSE Fresh

\* q is asked for by p, unless it is somebody's already.
Claim(p, q) == IF q \in Fresh THEN [owner EXCEPT ![q] = p] ELSE owner

Event(kind, of) == [kind |-> kind, of |-> of]
Tell(ev, r, e) == [ev EXCEPT ![r] = Append(@, e)]

Init ==
  /\ workers = [p \in Pids |-> Free]
  /\ thread = [p \in Pids |-> "none"]
  /\ posts = [p \in Pids |-> 0]
  /\ up = [p \in Pids |-> <<>>]
  /\ rung = {}
  /\ fsClients = {} /\ syncClients = {} /\ netClients = {}
  /\ events = [r \in Receivers |-> <<>>]
  /\ owner = [p \in Pids |-> NoPid]

-----------------------------------------------------------------------------
(* What a process's own thread does.                                        *)

Post(p, m) ==
  /\ thread[p] = "running"
  /\ posts[p] < MaxPosts
  /\ posts' = [posts EXCEPT ![p] = @ + 1]
  /\ up' = [up EXCEPT ![p] = Append(@, m)]

Message(type, pid) == [type |-> type, pid |-> pid]

PostOutput(p) ==
  /\ Post(p, Message("stdout", p))
  /\ UNCHANGED <<workers, thread, rung, clientVars, events, owner>>

\* start()'s last act; code that is still scheduled in the worker may run on.
PostExit(p) ==
  /\ Post(p, Message("exit", p))
  /\ UNCHANGED <<workers, thread, rung, clientVars, events, owner>>

\* child_process mints the pid itself; a worker thread's is minted by the
\* kernel when the message arrives (mintWorkerThreadPid).
PostSpawn(p) ==
  /\ \E q \in Askable \ {p} :
       /\ Post(p, Message("child:spawn", q))
       /\ owner' = Claim(p, q)
  /\ UNCHANGED <<workers, thread, rung, clientVars, events>>

PostThreadSpawn(p) ==
  /\ Post(p, Message("workerThread:spawn", NoPid))
  /\ UNCHANGED <<workers, thread, rung, clientVars, events, owner>>

\* ChildProcess.kill names any pid; the kernel does not look who asks.
PostKill(p) ==
  /\ \E q \in Pids \ (Fresh \cup {p}) : Post(p, Message("child:kill", q))
  /\ UNCHANGED <<workers, thread, rung, clientVars, events, owner>>

\* spawnSync: the thread parks until the kernel answers its buffer.
CallSync(p) ==
  /\ thread[p] = "running"
  /\ posts[p] < MaxPosts
  /\ posts' = [posts EXCEPT ![p] = @ + 1]
  /\ thread' = [thread EXCEPT ![p] = "blocked"]
  /\ rung' = rung \cup {p}
  /\ UNCHANGED <<workers, up, clientVars, events, owner>>

Guest(p) == \/ PostOutput(p) \/ PostExit(p) \/ PostSpawn(p)
            \/ PostThreadSpawn(p) \/ PostKill(p) \/ CallSync(p)

-----------------------------------------------------------------------------
(* The kernel.                                                              *)

\* Mutant: a process alone.
SubtreeAlone(p) == {p}

\* p and everything below it by parentPid: the least set with p in it and
\* with every child of its members.
Subtree(p) ==
  {q \in Pids :
     \A S \in SUBSET Pids :
       /\ p \in S
       /\ \A r \in Live : workers[r].parent \in S => r \in S
       => q \in S}

\* Where p's events go: its parent if that one is alive, else the host.
ParentOf(p) == IF workers[p].parent \in Live THEN workers[p].parent ELSE Host

\* Mutant: the caller is forgotten.
AnswerNobody(th, caller) == th

\* A spawnSync's onExit: the answer into the caller's buffer, which wakes it
\* if it is still there.
Answer(th, caller) ==
  [th EXCEPT ![caller] = IF @ = "blocked" THEN "running" ELSE @]

\* Mutant: the network keeps what it has for them.
DetachesHalf(gone) ==
  /\ fsClients' = fsClients \ gone
  /\ syncClients' = syncClients \ gone
  /\ UNCHANGED netClients

\* The calls of `finalize` that give up what others hold for a process.
Detaches(gone) ==
  /\ fsClients' = fsClients \ gone
  /\ syncClients' = syncClients \ gone
  /\ netClients' = netClients \ gone

\* Mutant: the parent is looked up when p has left the table.
ReportsLate(p) ==
  events' = IF workers[p].caller = NoPid THEN Tell(events, Host, Event("exit", p))
            ELSE IF thread[workers[p].caller] # "blocked" THEN events
                 ELSE Tell(events, workers[p].caller, Event("result", p))

\* Whom `finalize` tells of p's end: its caller, if it is there to be woken, or
\* its parent, or the host.
Reports(p) ==
  events' = IF workers[p].caller = NoPid THEN Tell(events, ParentOf(p), Event("exit", p))
            ELSE IF thread[workers[p].caller] # "blocked" THEN events
                 ELSE Tell(events, workers[p].caller, Event("result", p))

\* `finalize`: the whole subtree leaves the table with its threads and its
\* clients, and what their workers still had posted is dropped; p's end is
\* reported once, its descendants' not at all.
Finalize(p, pending) ==
  LET gone   == Subtree(p)
      ended  == [q \in Pids |-> IF q \in gone THEN "terminated" ELSE thread[q]]
      caller == workers[p].caller
  IN /\ workers' = [q \in Pids |-> IF q \in gone THEN Free ELSE workers[q]]
     /\ thread' = IF caller = NoPid THEN ended ELSE Answer(ended, caller)
     /\ up' = [q \in Pids |-> IF q \in gone THEN <<>> ELSE pending[q]]
     /\ Detaches(gone)
     /\ Reports(p)

\* Mutant: the pid is not looked up first.
FinalizeUnchecked(p, pending) == Finalize(p, pending)

\* `kill` and a late `exit`: nothing for a pid that is not in the table.
FinalizeIfLive(p, pending) ==
  IF p \in Live THEN Finalize(p, pending)
  ELSE UNCHANGED <<workers, thread, clientVars, events>> /\ up' = pending

\* What a spawn that throws at `stage` leaves behind: the worker, idle, and
\* the clients that were attached before the throw.
LeftBehind(q, stage, th) ==
  /\ thread' = IF stage = "worker" THEN th ELSE [th EXCEPT ![q] = "stray"]
  /\ fsClients' = IF stage \in {"sync", "net"} THEN fsClients \cup {q} ELSE fsClients
  /\ syncClients' = IF stage = "net" THEN syncClients \cup {q} ELSE syncClients
  /\ UNCHANGED <<workers, netClients>>

\* Mutant: the host, which is no process, is entered as a parent.
StartsUnderHost(q, parent, caller, timer) ==
  /\ workers' = [workers EXCEPT ![q] =
                   [live |-> TRUE, parent |-> IF parent = NoPid THEN Host ELSE parent,
                    caller |-> caller, timer |-> timer]]
  /\ thread' = [thread EXCEPT ![q] = "running"]
  /\ fsClients' = fsClients \cup {q}
  /\ syncClients' = syncClients \cup {q}
  /\ netClients' = netClients \cup {q}

Starts(q, parent, caller, timer) ==
  /\ workers' = [workers EXCEPT ![q] =
                   [live |-> TRUE, parent |-> parent, caller |-> caller, timer |-> timer]]
  /\ thread' = [thread EXCEPT ![q] = "running"]
  /\ fsClients' = fsClients \cup {q}
  /\ syncClients' = syncClients \cup {q}
  /\ netClients' = netClients \cup {q}

\* `spawn` of q for a parent or for the host: reportFailure emits to the host
\* whoever asked.  `reply` is what the caller of spawn posts to p afterwards.
Spawn(q, parent, reply) ==
  LET told == [r \in Receivers |-> IF r = parent THEN events[r] \o reply ELSE events[r]]
      failed == Tell(told, Host, Event("exit", q))
  IN IF q \in Live
       THEN events' = failed /\ UNCHANGED <<workers, thread, clientVars>>
       ELSE \/ Starts(q, parent, NoPid, FALSE) /\ events' = told
            \/ \E stage \in FailAt :
                 LeftBehind(q, stage, thread) /\ events' = failed

\* The host counts its pids up and never asks for one twice.
HostSpawn(q) ==
  /\ q \in Fresh
  /\ Spawn(q, NoPid, <<>>)
  /\ owner' = [owner EXCEPT ![q] = Host]
  /\ UNCHANGED <<posts, up, rung>>

\* process:kill, or a worker that throws outside everything that catches.
KernelKill(p) ==
  /\ p \in Live
  /\ Finalize(p, up)
  /\ UNCHANGED <<posts, rung, owner>>

\* Mutant: the timer is dropped instead of killing the child.
TimeoutDropped(p) ==
  /\ p \in Live /\ workers[p].timer
  /\ workers' = [workers EXCEPT ![p].timer = FALSE]
  /\ UNCHANGED <<threadVars, clientVars, events, owner>>

\* The timer of a spawnSync with a timeout; cleared when its child ends.
Timeout(p) ==
  /\ p \in Live /\ workers[p].timer
  /\ Finalize(p, up)
  /\ UNCHANGED <<posts, rung, owner>>

\* kernelSyncServer.service: the doorbell of a spawnSync, if a request is there.
\* The child gets no parentPid; if it cannot start, or its pid is that of a live
\* process, the caller is answered at once.
SyncService(p) ==
  /\ p \in rung
  /\ rung' = rung \ {p}
  /\ UNCHANGED <<posts, up>>
  /\ IF p \notin syncClients \/ thread[p] # "blocked"
       THEN UNCHANGED <<workers, thread, clientVars, events, owner>>
       ELSE \E q \in Askable :
              /\ owner' = Claim(p, q)
              /\ \/ /\ q \notin Live
                    /\ \E t \in BOOLEAN : Starts(q, NoPid, p, t)
                    /\ UNCHANGED events
                 \/ /\ \/ /\ q \in Live
                          /\ thread' = Answer(thread, p) /\ UNCHANGED <<workers, clientVars>>
                       \/ /\ q \notin Live
                          /\ \E stage \in FailAt : LeftBehind(q, stage, Answer(thread, p))
                    /\ events' = Tell(events, p, Event("result", q))

\* The next message of p's worker.
Delivers(p, type) ==
  /\ p \in Live /\ up[p] # <<>> /\ Head(up[p]).type = type
  /\ UNCHANGED <<posts, rung>>

Rest(p) == [up EXCEPT ![p] = Tail(@)]

Take(p, type) == Delivers(p, type) /\ up' = Rest(p)

OnExit(p) ==
  /\ Delivers(p, "exit")
  /\ Finalize(p, Rest(p))
  /\ UNCHANGED owner

\* forwardOutput: a synchronous child's output is kept for its result.
OnOutput(p) ==
  /\ Take(p, "stdout")
  /\ events' = IF workers[p].caller # NoPid THEN events
               ELSE Tell(events, ParentOf(p), Event("output", p))
  /\ UNCHANGED <<workers, thread, clientVars, owner>>

OnChildSpawn(p) ==
  /\ Take(p, "child:spawn")
  /\ Spawn(Head(up[p]).pid, p, <<>>)
  /\ UNCHANGED owner

\* mintWorkerThreadPid; "started" is posted whether or not the spawn worked.
OnThreadSpawn(p) ==
  /\ Take(p, "workerThread:spawn")
  /\ \E q \in Askable :
       /\ owner' = Claim(p, q)
       /\ Spawn(q, p, <<Event("started", q)>>)

OnChildKill(p) ==
  /\ Delivers(p, "child:kill")
  /\ FinalizeIfLive(Head(up[p]).pid, Rest(p))
  /\ UNCHANGED owner

Kernel(p) == \/ HostSpawn(p) \/ KernelKill(p) \/ Timeout(p) \/ SyncService(p)
             \/ OnExit(p) \/ OnOutput(p) \/ OnChildSpawn(p) \/ OnThreadSpawn(p)
             \/ OnChildKill(p)

Next == \E p \in Pids : Guest(p) \/ Kernel(p)

Spec == Init /\ [][Next]_vars

\* The kernel's event loop takes every message in its turn, timers fire;
\* nothing makes a process post, exit or be killed.
Handled(p) == OnExit(p) \/ OnOutput(p) \/ OnChildSpawn(p) \/ OnThreadSpawn(p) \/ OnChildKill(p)

FairSpec ==
  Spec /\ \A p \in Pids : WF_vars(Handled(p)) /\ WF_vars(SyncService(p)) /\ WF_vars(Timeout(p))

-----------------------------------------------------------------------------
(* Properties.                                                              *)

Entry == [live : BOOLEAN, parent : Pids \cup {NoPid}, caller : Pids \cup {NoPid},
          timer : BOOLEAN]
Threads  == {"none", "running", "blocked", "stray", "terminated"}
Messages == [type : {"stdout", "exit", "child:spawn", "child:kill"}, pid : Pids]
            \cup [type : {"workerThread:spawn"}, pid : {NoPid}]
Notices  == [kind : {"output", "exit", "started", "result"}, of : Pids]

TypeOK ==
  /\ workers \in [Pids -> Entry]
  /\ thread \in [Pids -> Threads]
  /\ posts \in [Pids -> 0..MaxPosts]
  /\ up \in [Pids -> Seq(Messages)]
  /\ rung \subseteq Pids
  /\ fsClients \subseteq Pids /\ syncClients \subseteq Pids /\ netClients \subseteq Pids
  /\ events \in [Receivers -> Seq(Notices)]
  /\ owner \in [Pids -> Pids \cup {Host, NoPid}]

\* No child_process outlives the process it answers to: the parent of every
\* entry is in the table too, whoever exited, was killed, or failed and when.
ParentsAlive ==
  \A p \in Live : workers[p].parent = NoPid \/ workers[p].parent \in Live

\* Worker threads and clients of the file system, of the kernel and of the
\* network exist for the processes of the table and for nobody else.
NothingLeaks ==
  /\ \A p \in Pids : thread[p] \in {"running", "blocked", "stray"} <=> p \in Live
  /\ fsClients = Live /\ syncClients = Live /\ netClients = Live

\* A thread parked in spawnSync has somebody who will answer it: its doorbell
\* is still to be handled, or exactly one child in the table reports to it.
BlockedIsAwaited ==
  \A p \in Pids : thread[p] = "blocked" =>
    IF p \in rung THEN \A q \in Live : workers[q].caller # p
    ELSE Cardinality({q \in Live : workers[q].caller = p}) = 1

\* What a receiver hears of a process ends with its exit, which comes once and
\* is true: no output after it, no second exit, no second result, and the
\* process is not running (any more).
EndIsLast ==
  \A r \in Receivers : \A i \in 1..Len(events[r]) :
    LET end == events[r][i] IN
      end.kind \in {"exit", "result"} =>
        /\ end.of \notin Live
        /\ \A j \in i + 1..Len(events[r]) :
             events[r][j].of = end.of => events[r][j].kind = "started"

\* A pid that may still be started, and what tells of an end.
Asks(p, i, q) ==
  i \in 1..Len(up[p]) /\ up[p][i].type = "child:spawn" /\ up[p][i].pid = q
Unborn(q) == owner[q] = NoPid \/ \E p \in Pids : \E i \in 1..Len(up[p]) : Asks(p, i, q)
IsEnd(e, q) == e.kind \in {"exit", "result"} /\ e.of = q

\* Everything that was asked for and is over is known to be over: whoever asked
\* has heard the end, if it is still there, or the host has, if it was the start
\* that failed.  A descendant that is taken along is told of to nobody, because
\* the process that asked for it is gone too.
Heard(r, q) == \E i \in 1..Len(events[r]) : IsEnd(events[r][i], q)
EveryEndIsTold ==
  \A q \in Pids : ~Unborn(q) /\ q \notin Live =>
    \/ Heard(owner[q], q)
    \/ owner[q] \in Pids \ Live
    \/ thread[q] # "terminated" /\ Heard(Host, q)

\* What these rest on, as long as pids do not collide.  A pid that may still be
\* started was never started before,
AskedOnce ==
  \A q \in Pids :
    /\ owner[q] = NoPid => \A p \in Pids : \A i \in 1..Len(up[p]) : ~Asks(p, i, q)
    /\ \A p1, p2 \in Pids : \A i \in 1..Len(up[p1]), j \in 1..Len(up[p2]) :
         Asks(p1, i, q) /\ Asks(p2, j, q) => p1 = p2 /\ i = j
    /\ Unborn(q) => thread[q] = "none" /\ q \notin Live

\* and nobody has heard of its end.
Ended(ev, q) == \E r \in Receivers : \E i \in 1..Len(ev[r]) : IsEnd(ev[r][i], q)
EndsForGood ==
  /\ \A q \in Pids : Ended(events, q) => q \notin Live /\ ~Unborn(q)
  /\ \A r \in Receivers : \A i \in 1..Len(events[r]), q \in Pids :
       IsEnd(events[r][i], q) =>
         \A j \in i + 1..Len(events[r]) : events[r][j].of = q => events[r][j].kind = "started"

\* Nobody has a synchronous child but who is parked or was killed meanwhile, and
\* a thread that is not parked has no doorbell on its way.
Callers(p) == {q \in Live : workers[q].caller = p}
Parked ==
  /\ \A p \in Pids : thread[p] = "blocked" =>
       IF p \in rung THEN Callers(p) = {} ELSE \E q \in Pids : Callers(p) = {q}
  /\ \A p \in Pids : Callers(p) # {} \/ p \in rung => thread[p] \in {"blocked", "terminated"}
  /\ \A p \in Pids : thread[p] = "terminated" => p \notin syncClients
  /\ \A p \in Pids : thread[p] \in {"running", "blocked"} => p \in Live \cap syncClients
  /\ \A p \in Live : thread[p] \in {"running", "blocked"}
  /\ \A q \in Live : workers[q].caller # NoPid => workers[q].parent = NoPid

\* spawnSync with a timeout comes back: the caller cannot stay parked.
TimeoutFreesCaller ==
  \A p, q \in Pids :
    (q \in Live /\ workers[q].caller = p /\ workers[q].timer /\ thread[p] = "blocked")
      ~> thread[p] # "blocked"
=============================================================================
