--------------------------- MODULE PreviewSocket ---------------------------
(***************************************************************************)
(* A WebSocket of a previewed page.  The page's shim                       *)
(* (workers/preview/webSocketShim.ts) sends commands over a MessagePort to *)
(* the host page (apis/Preview.ts), which relays them to the kernel's      *)
(* tunnel (kernel/previewWebSocket.ts), the client end of a virtual        *)
(* connection to the guest's server.  Events come back the same way.       *)
(*                                                                         *)
(* One socket: sockets share nothing but the tables that tell them apart.  *)
(* The host page keeps order and decides nothing, so its two hops in each  *)
(* direction are one channel.  Frames are whole, one or several of them in *)
(* a chunk: a frame the reader has half of waits for the other half.       *)
(***************************************************************************)
EXTENDS Naturals, Sequences

CONSTANTS MaxUp,    \* bound: messages the page sends
          MaxFrames \* bound: what the server writes after its answer

ASSUME SocketAssumption == MaxUp \in Nat /\ MaxFrames \in Nat

VARIABLES
  page,     \* [state, queue, outcome]: readyState, wcvmQueue, how it ended
  stuck,    \* a link of wcvmQueue has rejected
  sentUp,   \* messages the page has sent
  gotDown,  \* messages its program has been given
  up,       \* page -> host -> kernel
  down,     \* kernel -> host -> page
  tunnel,   \* [state, timer]
  conn,     \* the network knows the connection
  chunk,    \* frames of the chunk the kernel is reading
  toServer, \* what the kernel has posted to the server's process
  toTunnel, \* what the server's process has posted to the kernel
  server,   \* what the server's program is doing
  frames,   \* frames it has written
  sentDown, \* messages it has sent
  gotUp,    \* messages it has been given
  serverEnds \* it began to close

pageVars == <<page, stuck, sentUp, gotDown>>
serverVars == <<server, frames, sentDown, gotUp, serverEnds>>
kernelVars == <<tunnel, conn, chunk>>
vars == <<pageVars, up, down, kernelVars, toServer, toTunnel, serverVars>>

Item(kind, n) == [kind |-> kind, n |-> n]
One(kind) == Item(kind, 0)

Init ==
  /\ page = [state |-> "connecting", queue |-> <<>>, outcome |-> "none"] /\ stuck = FALSE
  /\ sentUp = 0 /\ gotDown = <<>>
  /\ up = <<One("open")>> /\ down = <<>>
  /\ tunnel = [state |-> "none", timer |-> FALSE] /\ conn = FALSE /\ chunk = <<>>
  /\ toServer = <<>> /\ toTunnel = <<>>
  /\ server = "listening" /\ frames = 0 /\ sentDown = 0 /\ gotUp = <<>>
  /\ serverEnds = FALSE

-----------------------------------------------------------------------------
(* The page.                                                                *)

PageUnchanged == UNCHANGED <<kernelVars, toServer, toTunnel, serverVars>>

\* send: while CLOSING or CLOSED it is discarded, while CONNECTING refused.
Send ==
  /\ page.state = "open" /\ sentUp < MaxUp
  /\ sentUp' = sentUp + 1
  /\ page' = [page EXCEPT !.queue = Append(@, Item("send", sentUp'))]
  /\ UNCHANGED <<stuck, gotDown, up, down>> /\ PageUnchanged

\* Mutant: the command is posted at once and overtakes queued messages.
CloseAtOnce ==
  /\ page.state \in {"connecting", "open"}
  /\ page' = [page EXCEPT !.state = "closing"]
  /\ up' = Append(up, One("close"))
  /\ UNCHANGED <<stuck, sentUp, gotDown, down>> /\ PageUnchanged

\* close.
Close ==
  /\ page.state \in {"connecting", "open"}
  /\ page' = [page EXCEPT !.state = "closing", !.queue = Append(@, One("close"))]
  /\ UNCHANGED <<stuck, sentUp, gotDown, up, down>> /\ PageUnchanged

\* The next link of wcvmQueue; a port the shim has closed takes nothing.
Flush ==
  /\ page.queue # <<>> /\ ~stuck
  /\ page' = [page EXCEPT !.queue = Tail(@)]
  /\ up' = IF page.outcome \in {"clean", "failed"} THEN up ELSE Append(up, Head(page.queue))
  /\ UNCHANGED <<stuck, sentUp, gotDown, down>> /\ PageUnchanged

\* A message's link rejects: its Blob cannot be read, or its buffer has been
\* transferred away.  No link behind it runs, that of close included.
FlushFails ==
  /\ page.queue # <<>> /\ ~stuck
  /\ Head(page.queue).kind = "send"
  /\ stuck' = TRUE
  /\ UNCHANGED <<page, sentUp, gotDown, up, down>> /\ PageUnchanged

\* pagehide: the command does not wait for the queue, which may never run.
Abandon ==
  /\ page.state # "closed"
  /\ page' = [page EXCEPT !.state = "closed", !.outcome = "left"]
  /\ up' = Append(up, One("close"))
  /\ UNCHANGED <<stuck, sentUp, gotDown, down>> /\ PageUnchanged

\* wcvmReceive.
Receive ==
  /\ down # <<>>
  /\ down' = Tail(down)
  /\ LET event == Head(down) IN
       \/ /\ page.state = "connecting" /\ event.kind = "open"
          /\ page' = [page EXCEPT !.state = "open"]
          /\ UNCHANGED gotDown
       \/ /\ page.state = "open" /\ event.kind = "message"
          /\ gotDown' = Append(gotDown, event.n)
          /\ UNCHANGED page
       \/ /\ page.state # "closed" /\ event.kind \in {"clean", "failed"}
          /\ page' = [page EXCEPT !.state = "closed", !.outcome = event.kind]
          /\ UNCHANGED gotDown
       \/ /\ \/ page.state = "closed"
             \/ event.kind = "open" /\ page.state # "connecting"
             \/ event.kind = "message" /\ page.state # "open"
          /\ UNCHANGED <<page, gotDown>>
  /\ UNCHANGED <<stuck, sentUp, up>> /\ PageUnchanged

-----------------------------------------------------------------------------
(* The tunnel.  Its net events are calls: the kernel handles one message to  *)
(* the end, frames written and events emitted included, and a chunk frame by *)
(* frame before anything else.                                              *)

Now == [state |-> tunnel.state, timer |-> tunnel.timer, conn |-> conn,
        down |-> down, toServer |-> toServer]

Becomes(k) ==
  /\ tunnel' = [state |-> k.state, timer |-> k.timer]
  /\ conn' = k.conn /\ down' = k.down /\ toServer' = k.toServer

Emit(k, kind, n) == [k EXCEPT !.down = Append(@, Item(kind, n))]

\* writeFrame, writeData: nothing is written to a connection that is gone.
Write(k, kind, n) == IF k.conn THEN [k EXCEPT !.toServer = Append(@, Item(kind, n))] ELSE k

\* Mutant: a socket that has ended ends again.
FinishAgain(k, how) ==
  LET told == IF k.conn THEN Append(k.toServer, One("gone")) ELSE k.toServer IN
    Emit([k EXCEPT !.state = "closed", !.timer = FALSE, !.conn = FALSE, !.toServer = told],
         how, 0)

\* Mutant: the timer stays.
FinishTimed(k, how) ==
  IF k.state = "closed" THEN k
  ELSE LET told == IF k.conn THEN Append(k.toServer, One("gone")) ELSE k.toServer IN
         Emit([k EXCEPT !.state = "closed", !.conn = FALSE, !.toServer = told], how, 0)

\* finish: the timer, the connection, the one close event.
Finish(k, how) ==
  IF k.state = "closed" THEN k
  ELSE LET told == IF k.conn THEN Append(k.toServer, One("gone")) ELSE k.toServer IN
         Emit([k EXCEPT !.state = "closed", !.timer = FALSE, !.conn = FALSE, !.toServer = told],
              how, 0)

Fail(k) == Finish(k, "failed")

\* open, onConnected and the deferred handshake: nothing can come between.
Open(k, heard) ==
  IF heard THEN [k EXCEPT !.state = "handshake", !.conn = TRUE,
                          !.toServer = Append(@, One("get"))]
  ELSE Fail(k)

\* send.
Forward(k, n) == IF k.state = "open" THEN Write(k, "message", n) ELSE k

\* Mutant: no timer is set.
CloseTunnelPatiently(k) ==
  CASE k.state \in {"none", "closing", "closed"} -> k
    [] k.state = "handshake" -> Fail(k)
    [] OTHER -> Write([k EXCEPT !.state = "closing"], "close", 0)

\* closeSocket.
CloseTunnel(k) ==
  CASE k.state \in {"none", "closing", "closed"} -> k
    [] k.state = "handshake" -> Fail(k)
    [] OTHER -> Write([k EXCEPT !.state = "closing", !.timer = TRUE], "close", 0)

\* A message from the host page.
Command ==
  /\ chunk = <<>>
  /\ up # <<>>
  /\ up' = Tail(up)
  /\ LET command == Head(up) IN
       \/ command.kind = "open" /\ Becomes(Open(Now, server = "listening"))
       \/ command.kind = "send" /\ Becomes(Forward(Now, command.n))
       \/ command.kind = "close" /\ Becomes(CloseTunnel(Now))
  /\ UNCHANGED <<pageVars, chunk, toTunnel, serverVars>>

\* onData while the answer to the handshake is awaited.
Answered(k, item) ==
  IF item.kind = "accept" THEN Emit([k EXCEPT !.state = "open"], "open", 0) ELSE Fail(k)

\* onData, a frame: messages count only while open, a close frame is echoed
\* if the server began, what is no frame fails the connection.
Framed(k, item) ==
  CASE item.kind = "message" -> IF k.state = "open" THEN Emit(k, "message", item.n) ELSE k
    [] item.kind = "ping" -> Write(k, "pong", 0)
    [] item.kind = "close" ->
         Finish(IF k.state = "open" THEN Write(k, "close", 0) ELSE k, "clean")
    [] OTHER -> Fail(Write(k, "close", 0))

\* What netServer and onNetEvent make of what the server's process posted.
Handled(k, item) ==
  CASE ~k.conn -> k
    [] k.conn /\ item.kind = "gone" -> Fail([k EXCEPT !.conn = FALSE])
    [] k.conn /\ item.kind = "eof" -> Fail(k)
    [] k.conn /\ item.kind \notin {"gone", "eof"} ->
         IF k.state = "handshake" THEN Answered(k, item) ELSE Framed(k, item)

\* A chunk is as long as the server made it; what its first item is for is
\* decided by the connection's state.
NetEvent ==
  /\ chunk = <<>>
  /\ \E n \in 1..Len(toTunnel) :
       /\ n = 1 \/ \A i \in 1..n : toTunnel[i].kind \notin {"gone", "eof"}
       /\ chunk' = SubSeq(toTunnel, 2, n)
       /\ toTunnel' = SubSeq(toTunnel, n + 1, Len(toTunnel))
  /\ Becomes(Handled(Now, Head(toTunnel)))
  /\ UNCHANGED <<pageVars, up, serverVars>>

\* The reader's loop: the frames are read to the last one though an earlier one
\* has ended the socket.
NextFrame ==
  /\ chunk # <<>>
  /\ chunk' = Tail(chunk)
  /\ Becomes(Framed(Now, Head(chunk)))
  /\ UNCHANGED <<pageVars, up, toTunnel, serverVars>>

\* The close handshake takes too long.
CloseTimeout ==
  /\ chunk = <<>>
  /\ tunnel.timer
  /\ Becomes(Fail(Now))
  /\ UNCHANGED <<pageVars, chunk, up, toTunnel, serverVars>>

-----------------------------------------------------------------------------
(* The server: a program of the guest's that speaks WebSocket.  It may write *)
(* frames, good and bad, leave or die when it likes, but it sends nothing     *)
(* behind a close frame of its own.                                         *)

ServerUnchanged == UNCHANGED <<pageVars, up, down, kernelVars>>

\* What it is given; after a close frame it answers, in its own time.
ServerTakes ==
  /\ toServer # <<>> /\ server # "gone"
  /\ toServer' = Tail(toServer)
  /\ LET item == Head(toServer) IN
       /\ gotUp' = IF item.kind = "message" THEN Append(gotUp, item.n) ELSE gotUp
       /\ server' = CASE item.kind = "get" -> "asked"
                      [] item.kind = "gone" -> "gone"
                      [] item.kind = "close" /\ server = "open" -> "closing"
                      [] OTHER -> server
  /\ UNCHANGED <<toTunnel, frames, sentDown, serverEnds>> /\ ServerUnchanged

ServerAnswers ==
  /\ server = "asked"
  /\ \/ server' = "open" /\ toTunnel' = Append(toTunnel, One("accept"))
     \/ server' = "refused" /\ toTunnel' = Append(toTunnel, One("refuse"))
  /\ UNCHANGED <<toServer, frames, sentDown, gotUp, serverEnds>> /\ ServerUnchanged

ServerWrites ==
  /\ server = "open" /\ ~serverEnds /\ frames < MaxFrames
  /\ frames' = frames + 1
  /\ \/ /\ sentDown' = sentDown + 1
        /\ toTunnel' = Append(toTunnel, Item("message", sentDown'))
        /\ UNCHANGED serverEnds
     \/ \E kind \in {"ping", "bad", "close"} :
          /\ toTunnel' = Append(toTunnel, One(kind))
          /\ serverEnds' = (kind = "close")
          /\ UNCHANGED sentDown
  /\ UNCHANGED <<toServer, server, gotUp>> /\ ServerUnchanged

ServerEchoes ==
  /\ server = "closing"
  /\ server' = "done"
  /\ toTunnel' = Append(toTunnel, One("close"))
  /\ UNCHANGED <<toServer, frames, sentDown, gotUp, serverEnds>> /\ ServerUnchanged

\* It ends its side, or closes.
ServerLeaves ==
  /\ server \notin {"listening", "gone", "half"}
  /\ \/ server' = "half" /\ toTunnel' = Append(toTunnel, One("eof"))
     \/ server' = "gone" /\ toTunnel' = Append(toTunnel, One("gone"))
  /\ UNCHANGED <<toServer, frames, sentDown, gotUp, serverEnds>> /\ ServerUnchanged

\* Its process is killed: what it posted last may be lost, and the network
\* closes what it had.
ServerDies ==
  /\ server # "gone"
  /\ server' = "gone"
  /\ \E k \in 0..Len(toTunnel) :
       toTunnel' = IF conn THEN Append(SubSeq(toTunnel, 1, k), One("gone")) ELSE <<>>
  /\ UNCHANGED <<toServer, frames, sentDown, gotUp, serverEnds>> /\ ServerUnchanged

Next ==
  \/ Send \/ Close \/ Flush \/ FlushFails \/ Abandon \/ Receive
  \/ Command \/ NetEvent \/ NextFrame \/ CloseTimeout
  \/ ServerTakes \/ ServerAnswers \/ ServerWrites \/ ServerEchoes
  \/ ServerLeaves \/ ServerDies

Spec == Init /\ [][Next]_vars

\* Messages are delivered and promises run while there is a page, and time
\* passes.  The server owes nothing.
FairSpec ==
  /\ Spec
  /\ WF_vars(page.state # "closed" /\ Flush)
  /\ WF_vars(Receive) /\ WF_vars(Command) /\ WF_vars(NetEvent)
  /\ WF_vars(NextFrame) /\ WF_vars(CloseTimeout)

-----------------------------------------------------------------------------
(* What should be true.                                                     *)

Kinds == {"open", "send", "close", "message", "clean", "failed", "get", "pong", "gone",
          "accept", "refuse", "ping", "bad", "eof"}
Items == [kind : Kinds, n : 0..(MaxUp + MaxFrames)]

\* Shapes; a connection belongs to a tunnel in use and the timer to its close.
TypeOK ==
  /\ page.state \in {"connecting", "open", "closing", "closed"}
  /\ page.outcome \in {"none", "clean", "failed", "left"}
  /\ stuck \in BOOLEAN
  /\ page.outcome = "none" <=> page.state # "closed"
  /\ \A s \in {page.queue, up, down, toServer, toTunnel, chunk} : s \in Seq(Items)
  /\ tunnel.state \in {"none", "handshake", "open", "closing", "closed"}
  /\ conn => tunnel.state \in {"handshake", "open", "closing"}
  /\ tunnel.timer => tunnel.state = "closing"
  /\ sentUp \in 0..MaxUp /\ frames \in 0..MaxFrames /\ sentDown \in 0..MaxFrames

\* The kernel emits one close event per socket and nothing after it, whichever
\* of the page, the server, the timer and a broken frame ends it (finish).
EventsEndOnce ==
  \A i \in 1..Len(down) : down[i].kind \in {"clean", "failed"} =>
    i = Len(down) /\ tunnel.state = "closed" /\ page.outcome \notin {"clean", "failed"}

\* What these rest on.  A tunnel is opened by the first command, its server
\* knows nothing before, and it has a connection until it is closed; frames are
\* read only once it is open, and what the page hears first is how that went.
Before == tunnel.state \in {"none", "handshake"}
Has(s, kind) == \E i \in 1..Len(s) : s[i].kind = kind
OpensFirst ==
  /\ \A i \in 1..Len(page.queue) : page.queue[i].kind \in {"send", "close"}
  /\ \A i \in 1..Len(up) : up[i].kind = "open" => i = 1 /\ tunnel.state = "none"
  /\ tunnel.state = "none" =>
       toTunnel = <<>> /\ toServer = <<>> /\ server \in {"listening", "gone"}
  /\ Before => chunk = <<>> /\ down = <<>>
  /\ conn <=> tunnel.state \in {"handshake", "open", "closing"}
  /\ page.state = "connecting" /\ ~Before =>
       down # <<>> /\ Head(down).kind \in {"open", "failed"}
  /\ page.outcome \in {"clean", "failed"} => tunnel.state = "closed"

\* The items of a kind in a channel are the messages after lo up to hi, in order.
Carries(s, kind, lo, hi) ==
  /\ \A i \in 1..Len(s) : s[i].kind = kind => s[i].n \in lo + 1..hi
  /\ \A i, j \in 1..Len(s) : i < j /\ s[i].kind = kind /\ s[j].kind = kind => s[i].n < s[j].n
  /\ \A n \in lo + 1..hi : \E i \in 1..Len(s) : s[i].kind = kind /\ s[i].n = n

\* Messages up: there are none until the page has heard, what is under way follows
\* what has come, and nothing is left out while the tunnel takes them.
Telling == tunnel.state \in {"none", "handshake", "open"}
UpInOrder ==
  /\ Before => sentUp = 0 /\ page.state # "open"
  /\ \E f \in Len(gotUp)..sentUp :
       /\ Carries(toServer, "message", Len(gotUp), f)
       /\ Telling =>
            \E g \in f..sentUp :
              Carries(up, "send", f, g) /\ Carries(page.queue, "send", g, sentUp)

\* A page that closes sends nothing behind it, so a server that has read the
\* close frame, and one that has answered it, has read everything.
NoneAfter(s, first, other) ==
  \A i, j \in 1..Len(s) : i < j /\ s[i].kind = first => s[j].kind # other
Answering == Has(chunk, "close") \/ Has(toTunnel, "close")
CloseIsBehind ==
  /\ page.state \in {"connecting", "open"} =>
       Telling \/ tunnel.state = "closed"
  /\ page.state \in {"connecting", "open"} => ~Has(up, "close") /\ ~Has(page.queue, "close")
  /\ page.state = "closing" /\ Telling =>
       /\ NoneAfter(up, "close", "send") /\ NoneAfter(page.queue, "close", "send")
       /\ Has(up, "close") => ~Has(page.queue, "send")
  /\ Telling => /\ ~Has(toServer, "close") /\ server # "closing"
                /\ Answering => serverEnds
  /\ page.state = "closing" /\ tunnel.state = "closing" =>
       /\ Carries(toServer, "message", Len(gotUp), sentUp)
       /\ NoneAfter(toServer, "close", "message")
       /\ server = "closing" \/ (Answering /\ ~serverEnds) => Len(gotUp) = sentUp

\* Messages down: the same, and behind the server's close frame there is nothing.
DownInOrder ==
  /\ Telling => /\ NoneAfter(chunk, "close", "message")
                /\ NoneAfter(toTunnel, "close", "message")
                /\ Has(chunk, "close") => ~Has(toTunnel, "message")
  /\ page.state \in {"connecting", "open"} =>
       \E f \in Len(gotDown)..sentDown :
         /\ Carries(down, "message", Len(gotDown), f)
         /\ Telling =>
              \E g \in f..sentDown : \E h \in g..sentDown :
                /\ Carries(chunk, "message", f, g) /\ Carries(toTunnel, "message", g, h)
                /\ server # "gone" \/ Answering => h = sentDown
         /\ Has(down, "clean") => f = sentDown /\ serverEnds
  /\ page.state = "closing" /\ Has(down, "clean") => serverEnds \/ Len(gotUp) = sentUp

\* The page sees a WebSocket: order, no repetition, nothing lost by a clean
\* close, whatever the server does and however closes cross.
Socket == INSTANCE WebSocket WITH state <- page.state, outcome <- page.outcome
ImplementsWebSocket == Socket!Spec

\* close() comes to an end though the server says nothing, unless a message in
\* front of it could not be read: then the close command is never sent, and
\* nothing but the server ends the socket.  A page that is gone leaves no
\* connection behind in either case.
ClosingEnds ==
  /\ page.state = "closing" ~> page.state = "closed" \/ stuck
  /\ page.state = "closed" ~> ~conn
=============================================================================
