----------------------------- MODULE NetServer -----------------------------
(***************************************************************************)
(* The virtual network: the kernel's tables (kernel/netServer.ts), the TCP *)
(* and UDP handles of every process (runtime/bindings/net.ts, udp.ts), and *)
(* the two message queues between each process and the kernel.             *)
(*                                                                         *)
(* The kernel is one thread and a process is one thread; a message or an   *)
(* event is handled to its end before the next.  listen() and bind() are   *)
(* calls through shared memory: the process is parked until the kernel has *)
(* answered.  Their doorbell and the messages of the process travel on     *)
(* different ports, in no order between the two.                           *)
(***************************************************************************)
EXTENDS Naturals, Sequences, FiniteSets

CONSTANTS Procs,          \* the processes
          Nobody,         \* no process
          Protos,         \* "tcp", "udp": two namespaces of ports
          Ports,          \* the ports programs name
          EphemeralStart, \* the ports the kernel chooses from: the first
          EphemeralEnd,   \*   and the last
          MaxConns,       \* bound: connections made
          MaxWrites,      \* bound: writes at each end
          MaxOps          \* bound: what guests do, all together

ASSUME NetAssumption ==
  /\ IsFiniteSet(Procs) /\ Nobody \notin Procs
  /\ "tcp" \in Protos /\ Protos \subseteq {"tcp", "udp"}
  /\ Ports \subseteq Nat \ {0}
  /\ EphemeralStart \in Nat \ {0} /\ EphemeralEnd \in Nat
  /\ EphemeralStart <= EphemeralEnd
  /\ MaxConns \in Nat /\ MaxWrites \in Nat /\ MaxOps \in Nat

VARIABLES
  life,      \* life[p]: running, exiting (exit is posted) or gone
  up,        \* up[p]: messages from p the kernel has not handled
  down,      \* down[p]: events for p, posted to its loop and not dispatched
  asking,    \* asking[p]: the port p is parked for in listen() or bind()
  bound,     \* kernel: listeners and udpBindings, port to process
  nextPort,  \* kernel: nextEphemeralPort and nextUdpEphemeralPort
  conns,     \* kernel: connections, an end's id to its process and its peer
  nextConn,  \* kernel: nextConnId
  servers,   \* servers[p]: the ports of p's listening and bound handles
  pending,   \* pending[p][t]: p's connect with ticket t
  sock,      \* sock[p][id]: p's handle for the end id
  ops        \* guest operations so far

kernel == <<bound, nextPort, conns, nextConn>>
handles == <<servers, pending, sock>>
vars == <<life, up, down, asking, kernel, handles, ops>>

EOF == 0 \* among the chunks, which are numbers
EphemeralPorts == EphemeralStart..EphemeralEnd
AllPorts == Ports \cup EphemeralPorts
Ids == 1..(2 * MaxConns)
Tickets == 1..MaxConns
Chunks == 1..MaxWrites

NotAsking == <<"none", 0>>
NoConn == [pid |-> Nobody, peer |-> 0]
NoSock == [state |-> "none", known |-> FALSE, reading |-> FALSE, ended |-> FALSE,
           fin |-> FALSE, port |-> 0, wrote |-> 0, queue |-> <<>>]

Init ==
  /\ life = [p \in Procs |-> "running"]
  /\ up = [p \in Procs |-> <<>>] /\ down = [p \in Procs |-> <<>>]
  /\ asking = [p \in Procs |-> NotAsking]
  /\ bound = [s \in Protos \X AllPorts |-> Nobody]
  /\ nextPort = [proto \in Protos |-> EphemeralStart]
  /\ conns = [id \in Ids |-> NoConn]
  /\ nextConn = 1
  /\ servers = [p \in Procs |-> {}]
  /\ pending = [p \in Procs |-> [t \in Tickets |-> "none"]]
  /\ sock = [p \in Procs |-> [id \in Ids |-> NoSock]]
  /\ ops = 0

-----------------------------------------------------------------------------
(* A process's own thread.                                                  *)

\* A parked process does nothing, nor does one that has posted its exit
\* anything the kernel would still hear.
Free(p) == life[p] = "running" /\ asking[p] = NotAsking

Act(p) == Free(p) /\ ops < MaxOps /\ ops' = ops + 1

Post(p, msgs) == up' = [up EXCEPT ![p] = @ \o msgs]

\* TCP.listen after bind, UDP.bind: port 0 asks for an ephemeral one.
Listen(p, proto, port) ==
  /\ Act(p)
  /\ asking' = [asking EXCEPT ![p] = <<proto, port>>]
  /\ UNCHANGED <<life, up, down, kernel, handles>>

\* close() of a listening TCP handle or of a bound UDP handle.
CloseServer(p, proto, port) ==
  /\ Act(p)
  /\ <<proto, port>> \in servers[p]
  /\ servers' = [servers EXCEPT ![p] = @ \ {<<proto, port>>}]
  /\ Post(p, <<[type |-> "release", proto |-> proto, port |-> port]>>)
  /\ UNCHANGED <<life, down, asking, kernel, pending, sock>>

\* Connects the kernel has yet to hear of.
Asks(p, t) == \E i \in 1..Len(up[p]) : up[p][i].type = "connect" /\ up[p][i].ticket = t
Asked == {ask \in Procs \X Tickets : Asks(ask[1], ask[2])}

\* The tickets are minted in order.
Connect(p, port) ==
  /\ Act(p)
  /\ nextConn + 2 * Cardinality(Asked) < 2 * MaxConns
  /\ \E t \in Tickets :
       /\ \A u \in Tickets : pending[p][u] = "none" <=> u >= t
       /\ pending' = [pending EXCEPT ![p][t] = "open"]
       /\ Post(p, <<[type |-> "connect", ticket |-> t, port |-> port]>>)
  /\ UNCHANGED <<life, down, asking, kernel, servers, sock>>

\* A socket destroyed while it connects: close() has no connId to post.
CloseConnecting(p, t) ==
  /\ Act(p)
  /\ pending[p][t] = "open"
  /\ pending' = [pending EXCEPT ![p][t] = "closed"]
  /\ UNCHANGED <<life, up, down, asking, kernel, servers, sock>>

Open(p, id) == sock[p][id].state = "open"

\* Handles are written to through streams, which refuse a write after end().
Write(p, id) ==
  /\ Act(p)
  /\ Open(p, id) /\ ~sock[p][id].fin
  /\ sock[p][id].wrote < MaxWrites
  /\ sock' = [sock EXCEPT ![p][id].wrote = @ + 1]
  /\ Post(p, <<[type |-> "data", id |-> id, chunk |-> sock[p][id].wrote + 1]>>)
  /\ UNCHANGED <<life, down, asking, kernel, servers, pending>>

Shutdown(p, id) ==
  /\ Act(p)
  /\ Open(p, id) /\ ~sock[p][id].fin
  /\ sock' = [sock EXCEPT ![p][id].fin = TRUE]
  /\ Post(p, <<[type |-> "shutdown", id |-> id]>>)
  /\ UNCHANGED <<life, down, asking, kernel, servers, pending>>

\* Mutant: any handle with a port releases it.
CloseByPort(p, id) == <<[type |-> "close", id |-> id],
                        [type |-> "release", proto |-> "tcp", port |-> sock[p][id].port]>>

\* What close() tells the kernel.  An accepted handle's port is its server's,
\* but it is not listening.
CloseMessages(p, id) == <<[type |-> "close", id |-> id]>>

Close(p, id) ==
  /\ Act(p)
  /\ Open(p, id)
  /\ sock' = [sock EXCEPT ![p][id] = [@ EXCEPT !.state = "closed", !.known = FALSE,
                                                !.queue = <<>>]]
  /\ Post(p, CloseMessages(p, id))
  /\ UNCHANGED <<life, down, asking, kernel, servers, pending>>

\* Draining hands the whole queue to the stream, end of file included.
Drain(s) == IF s.reading THEN [s EXCEPT !.queue = <<>>] ELSE s

ReadStart(p, id) ==
  /\ Free(p)
  /\ Open(p, id) /\ ~sock[p][id].reading
  /\ sock' = [sock EXCEPT ![p][id] = Drain([@ EXCEPT !.reading = TRUE])]
  /\ UNCHANGED <<life, up, down, asking, kernel, servers, pending, ops>>

ReadStop(p, id) ==
  /\ Free(p)
  /\ Open(p, id) /\ sock[p][id].reading
  /\ sock' = [sock EXCEPT ![p][id].reading = FALSE]
  /\ UNCHANGED <<life, up, down, asking, kernel, servers, pending, ops>>

\* start()'s last act; the kernel lets go of the process when it hears it.
Exit(p) ==
  /\ Act(p)
  /\ life' = [life EXCEPT ![p] = "exiting"]
  /\ Post(p, <<[type |-> "exit"]>>)
  /\ UNCHANGED <<down, asking, kernel, handles>>

\* The ephemeral ports a program can have been told of.
Listening == {port \in AllPorts : \E q \in Procs : <<"tcp", port>> \in servers[q]}

Guest(p) ==
  \/ \E proto \in Protos : \/ \E port \in Ports \cup {0} : Listen(p, proto, port)
                           \/ \E port \in AllPorts : CloseServer(p, proto, port)
  \/ \E port \in Ports \cup Listening : Connect(p, port)
  \/ \E t \in Tickets : CloseConnecting(p, t)
  \/ \E id \in Ids : \/ Write(p, id) \/ Shutdown(p, id) \/ Close(p, id)
                     \/ ReadStart(p, id) \/ ReadStop(p, id)
  \/ Exit(p)

-----------------------------------------------------------------------------
(* The process's event loop dispatches what the kernel sent, in order.      *)

\* Mutant: a handle that is not reading keeps nothing.
PushReading(s, item) ==
  IF s.state # "open" \/ ~s.reading THEN s ELSE [s EXCEPT !.ended = @ \/ item = EOF]

\* push(): ignored by a closed handle, queued and drained by an open one.
Push(s, item) ==
  IF s.state # "open" THEN s
  ELSE Drain([s EXCEPT !.queue = Append(@, item), !.ended = @ \/ item = EOF])

\* connectResult: the handle that asked gets its connection, also when it was
\* closed meanwhile.
DispatchResult(p, e) ==
  /\ e.type = "result"
  /\ sock' = IF e.id = 0 THEN sock
             ELSE [sock EXCEPT ![p][e.id] =
                     [NoSock EXCEPT !.state = pending[p][e.ticket], !.known = TRUE,
                                    !.port = e.port]]
  /\ pending' = [pending EXCEPT ![p][e.ticket] = "done"]

\* incoming: dropped when the server was closed meanwhile.
DispatchIncoming(p, e) ==
  /\ e.type = "incoming"
  /\ sock' = IF <<"tcp", e.port>> \notin servers[p] THEN sock
             ELSE [sock EXCEPT ![p][e.id] =
                     [NoSock EXCEPT !.state = "open", !.known = TRUE, !.port = e.port]]
  /\ UNCHANGED pending

\* data, eof, close: for the handle on record under the id, if any; close
\* takes it off the record.
DispatchItem(p, e) ==
  /\ e.type \in {"data", "eof", "close"}
  /\ sock' = IF ~sock[p][e.id].known THEN sock
             ELSE [sock EXCEPT ![p][e.id] =
                     Push([@ EXCEPT !.known = e.type # "close"],
                          IF e.type = "data" THEN e.chunk ELSE EOF)]
  /\ UNCHANGED pending

Dispatch(p) ==
  /\ Free(p)
  /\ down[p] # <<>>
  /\ down' = [down EXCEPT ![p] = Tail(@)]
  /\ LET e == Head(down[p]) IN
       DispatchResult(p, e) \/ DispatchIncoming(p, e) \/ DispatchItem(p, e)
  /\ UNCHANGED <<life, up, asking, kernel, servers, ops>>

-----------------------------------------------------------------------------
(* The kernel.                                                              *)

\* Mutant: the last port is not the last.
AfterLast(port) == IF port > EphemeralEnd THEN EphemeralStart ELSE port + 1

After(port) == IF port >= EphemeralEnd THEN EphemeralStart ELSE port + 1

\* How many ports allocateEphemeralPort tries before this one.
Tried(proto, port) ==
  IF port >= nextPort[proto] THEN port - nextPort[proto]
  ELSE port - EphemeralStart + EphemeralEnd + 1 - nextPort[proto]

FreePorts(proto) == {port \in EphemeralPorts : bound[<<proto, port>>] = Nobody}

\* The first free port from the next one on, around the range; 0 if none is.
Allocate(proto) ==
  IF FreePorts(proto) = {} THEN 0
  ELSE CHOOSE port \in FreePorts(proto) :
         \A other \in FreePorts(proto) : Tried(proto, port) <= Tried(proto, other)

\* serviceNetListen and serviceUdpBind, with the return of the parked call.
Service(p) ==
  /\ life[p] = "running" /\ asking[p] # NotAsking
  /\ LET proto == asking[p][1]
         asked == asking[p][2]
         port == IF asked = 0 THEN Allocate(proto) ELSE asked
         taken == port = 0 \/ bound[<<proto, port>>] # Nobody
     IN /\ nextPort' = IF asked = 0 /\ port # 0
                       THEN [nextPort EXCEPT ![proto] = After(port)] ELSE nextPort
        /\ bound' = IF taken THEN bound ELSE [bound EXCEPT ![<<proto, port>>] = p]
        /\ servers' = IF taken THEN servers
                      ELSE [servers EXCEPT ![p] = @ \cup {<<proto, port>>}]
  /\ asking' = [asking EXCEPT ![p] = NotAsking]
  /\ UNCHANGED <<life, up, down, conns, nextConn, pending, sock, ops>>

Notify(d, p, e) == IF life[p] = "gone" THEN d ELSE [d EXCEPT ![p] = Append(@, e)]

\* unlisten, udpUnbind: by the owner alone.
RelayRelease(p, m) ==
  /\ m.type = "release"
  /\ bound' = IF bound[<<m.proto, m.port>>] = p
              THEN [bound EXCEPT ![<<m.proto, m.port>>] = Nobody] ELSE bound
  /\ UNCHANGED <<life, down, nextPort, conns, nextConn>>

\* Mutant: both ends go by one id.
SharedId(id) == id

\* The id of the accepting end, given that of the connecting end.
AcceptId(id) == id + 1

RelayConnect(p, m) ==
  /\ m.type = "connect"
  /\ LET q == bound[<<"tcp", m.port>>]
         a == nextConn
         b == AcceptId(nextConn)
         Result(id) == [type |-> "result", ticket |-> m.ticket, port |-> m.port, id |-> id]
     IN IF q = Nobody
        THEN /\ down' = Notify(down, p, Result(0))
             /\ UNCHANGED <<conns, nextConn>>
        ELSE /\ conns' = [conns EXCEPT ![a] = [pid |-> p, peer |-> b],
                                       ![b] = [pid |-> q, peer |-> a]]
             /\ nextConn' = nextConn + 2
             /\ down' = Notify(Notify(down, p, Result(a)),
                               q, [type |-> "incoming", id |-> b, port |-> m.port])
  /\ UNCHANGED <<life, bound, nextPort>>

\* The peer of an end is told, under its own id, while the connection is on
\* record.
ToPeer(id, e) == IF conns[id] = NoConn THEN down
                 ELSE Notify(down, conns[conns[id].peer].pid, e)

RelayItem(p, m) ==
  /\ LET peer == conns[m.id].peer IN
       \/ /\ m.type = "data"
          /\ down' = ToPeer(m.id, [type |-> "data", id |-> peer, chunk |-> m.chunk])
       \/ /\ m.type = "shutdown"
          /\ down' = ToPeer(m.id, [type |-> "eof", id |-> peer])
  /\ UNCHANGED <<life, kernel>>

RelayClose(p, m) ==
  /\ m.type = "close"
  /\ down' = ToPeer(m.id, [type |-> "close", id |-> conns[m.id].peer])
  /\ conns' = IF conns[m.id] = NoConn THEN conns
              ELSE [conns EXCEPT ![m.id] = NoConn, ![conns[m.id].peer] = NoConn]
  /\ UNCHANGED <<life, bound, nextPort, nextConn>>

\* The connections with an end in p, and of those the ends that outlive it.
Held(p) == {id \in Ids : conns[id] # NoConn
                         /\ p \in {conns[id].pid, conns[conns[id].peer].pid}}
Survivors(p) == {id \in Held(p) : conns[id].pid # p}

\* The ids in S in their order, which is the one the connections were made in.
Ordered(S) == CHOOSE ids \in [1..Cardinality(S) -> S] :
                \A i, j \in 1..Cardinality(S) : i < j => ids[i] < ids[j]

\* A "close" for each id in S.
Closes(S) == [i \in 1..Cardinality(S) |-> [type |-> "close", id |-> Ordered(S)[i]]]

\* processes.ts finalize, of p alone, and releasePid and udpReleasePid.
Finalize(p) ==
  /\ life' = [life EXCEPT ![p] = "gone"]
  /\ bound' = [s \in DOMAIN bound |-> IF bound[s] = p THEN Nobody ELSE bound[s]]
  /\ conns' = [id \in Ids |-> IF id \in Held(p) THEN NoConn ELSE conns[id]]
  /\ down' = [q \in Procs |->
               IF q = p THEN <<>>
               ELSE down[q] \o Closes({id \in Survivors(p) : conns[id].pid = q})]
  /\ asking' = [asking EXCEPT ![p] = NotAsking]
  /\ servers' = [servers EXCEPT ![p] = {}]
  /\ pending' = [pending EXCEPT ![p] = [t \in Tickets |-> "none"]]
  /\ sock' = [sock EXCEPT ![p] = [id \in Ids |-> NoSock]]
  /\ UNCHANGED <<nextPort, nextConn, ops>>

RelayExit(p, m) ==
  /\ m.type = "exit"
  /\ Finalize(p)

Relay(p) ==
  /\ up[p] # <<>>
  /\ LET m == Head(up[p]) IN
       \/ /\ RelayRelease(p, m) \/ RelayConnect(p, m) \/ RelayItem(p, m) \/ RelayClose(p, m)
          /\ up' = [up EXCEPT ![p] = Tail(@)]
          /\ UNCHANGED <<asking, handles, ops>>
       \/ /\ RelayExit(p, m)
          /\ up' = [up EXCEPT ![p] = <<>>]

\* What was posted and not handled is never handled: onmessage is taken off.
Kill(p) ==
  /\ life[p] # "gone"
  /\ Finalize(p)
  /\ up' = [up EXCEPT ![p] = <<>>]

Next == \E p \in Procs : Guest(p) \/ Dispatch(p) \/ Service(p) \/ Relay(p) \/ Kill(p)

Spec == Init /\ [][Next]_vars

Fairness == \A p \in Procs : /\ WF_vars(Dispatch(p))
                             /\ WF_vars(Service(p))
                             /\ WF_vars(Relay(p))

FairSpec == Spec /\ Fairness

-----------------------------------------------------------------------------
(* Properties.                                                              *)

Sockets ==
  [state : {"none", "open", "closed"}, known : BOOLEAN, reading : BOOLEAN,
   ended : BOOLEAN, fin : BOOLEAN, port : AllPorts \cup {0},
   wrote : 0..MaxWrites, queue : Seq(Chunks \cup {EOF})]

Messages ==
  [type : {"release"}, proto : Protos, port : AllPorts]
    \cup [type : {"connect"}, ticket : Tickets, port : AllPorts]
    \cup [type : {"data"}, id : Ids, chunk : Chunks]
    \cup [type : {"shutdown", "close"}, id : Ids]
    \cup [type : {"exit"}]

Events ==
  [type : {"result"}, ticket : Tickets, port : AllPorts, id : Ids \cup {0}]
    \cup [type : {"incoming"}, id : Ids, port : AllPorts]
    \cup [type : {"data"}, id : Ids, chunk : Chunks]
    \cup [type : {"eof", "close"}, id : Ids]

\* The variables have the types the code gives them.
TypeOK ==
  /\ life \in [Procs -> {"running", "exiting", "gone"}]
  /\ up \in [Procs -> Seq(Messages)] /\ down \in [Procs -> Seq(Events)]
  /\ asking \in [Procs -> {NotAsking} \cup (Protos \X (Ports \cup {0}))]
  /\ bound \in [Protos \X AllPorts -> Procs \cup {Nobody}]
  /\ nextPort \in [Protos -> EphemeralPorts]
  /\ conns \in [Ids -> [pid : Procs, peer : Ids] \cup {NoConn}]
  /\ nextConn \in Nat
  /\ servers \in [Procs -> SUBSET (Protos \X AllPorts)]
  /\ pending \in [Procs -> [Tickets -> {"none", "open", "closed", "done"}]]
  /\ sock \in [Procs -> [Ids -> Sockets]]
  /\ ops \in 0..MaxOps

Alive(p) == life[p] # "gone"

Releases(p, s) == \E i \in 1..Len(up[p]) :
                    /\ up[p][i].type = "release"
                    /\ <<up[p][i].proto, up[p][i].port>> = s

\* The kernel keeps no listener, binding or connection of a process that is
\* gone, and the two ends of a connection point at each other, whatever order
\* closes, exits and kills come in (releasePid, close).  A port is held exactly
\* as long as a handle listens on it, or its release is on the way: no close
\* of another handle frees it under a server (TCP.close, unlisten).
TablesAgree ==
  /\ \A s \in DOMAIN bound :
       /\ \A p \in Procs : s \in servers[p] => bound[s] = p
       /\ bound[s] # Nobody =>
            Alive(bound[s]) /\ (s \in servers[bound[s]] \/ Releases(bound[s], s))
  /\ \A id \in Ids : conns[id] # NoConn =>
       /\ Alive(conns[id].pid)
       /\ conns[id].peer # id
       /\ conns[conns[id].peer] # NoConn
       /\ conns[conns[id].peer].peer = id

-----------------------------------------------------------------------------
(* What a connection is to its two ends: NetPipe.                           *)

Odd(id) == id % 2 = 1
PeerOf == [id \in Ids |-> IF Odd(id) THEN id + 1 ELSE id - 1]

Announces(e, id) == e.type \in {"result", "incoming"} /\ e.id = id
Waits(p, id) == \E i \in 1..Len(down[p]) : Announces(down[p][i], id)
Holder(id) == CHOOSE p \in Procs : Open(p, id) \/ Waits(p, id)

End(id) ==
  CASE id >= nextConn -> "none"
    [] \E p \in Procs : Waits(p, id) -> "waiting"
    [] \E p \in Procs : Open(p, id) /\ sock[p][id].fin -> "finished"
    [] \E p \in Procs : Open(p, id) /\ ~sock[p][id].fin -> "open"
    [] OTHER -> "gone"

\* The items for id in a queue of messages or events, in order.
IsItem(m, id) == m.type \in {"data", "eof", "shutdown", "close"} /\ m.id = id
Item(m) == IF m.type = "data" THEN m.chunk ELSE EOF

ItemsOf(queue, id) ==
  LET first[k \in 0..Len(queue)] ==
        IF k = 0 THEN <<>>
        ELSE IF IsItem(queue[k], id) THEN Append(first[k - 1], Item(queue[k]))
        ELSE first[k - 1]
  IN first[Len(queue)]

\* What is under way to id: queued at its handle, posted to its process, and
\* posted by its peer to a kernel that has the connection on record.
Flow(id) ==
  IF End(id) \in {"none", "gone"} THEN <<>>
  ELSE LET p == Holder(id) IN
       sock[p][id].queue \o ItemsOf(down[p], id)
         \o (IF conns[id] = NoConn THEN <<>>
             ELSE ItemsOf(up[conns[conns[id].peer].pid], conns[id].peer))

Pipe == INSTANCE NetPipe WITH
  Ends <- Ids, Peer <- PeerOf,
  end <- [id \in Ids |-> End(id)], pipe <- [id \in Ids |-> Flow(id)]

\* Three queues, two processes and the kernel carry each connection as one
\* pipe in each direction: in order, whole, to the right end also when both
\* are in one process, and with nothing after the end of file.
ImplementsPipe == Pipe!Spec

\* An end that was closed or whose process is gone; the kernel has dropped a
\* connection only for one of these.
HungUp(id) == \/ id < nextConn /\ conns[id] = NoConn
              \/ \E p \in Procs : sock[p][id].state = "closed" /\ ~sock[p][id].known

Stranded(id) == \E p \in Procs : Open(p, id) /\ ~sock[p][id].ended

\* Nobody waits for ever.  When one end hangs up, by close or by the death of
\* its process, the other is told (close, releasePid, dispatch); every connect is
\* answered, also when the listener closes or dies (connect, dispatch); and
\* every parked listen or bind returns.
EveryoneHears ==
  /\ \A id \in Ids : []<>~(HungUp(id) /\ Stranded(PeerOf[id]))
  /\ \A p \in Procs : \A t \in Tickets :
       pending[p][t] \in {"open", "closed"} ~> pending[p][t] \in {"none", "done"}
  /\ \A p \in Procs : asking[p] # NotAsking ~> asking[p] = NotAsking
=============================================================================
