--------------------------- MODULE SyscallBridge ---------------------------
(***************************************************************************)
(* The synchronous syscall bridge between a process worker and the File    *)
(* System Worker: protocols/syscall.ts (the shared buffer's ABI, the       *)
(* blocking caller, the servicer's half), workers/fs/handler.ts (doorbells,*)
(* registration, lazy restore before service) and FsServer.service.        *)
(*                                                                         *)
(* A caller publishes a request into its own SharedArrayBuffer, rings a    *)
(* doorbell and parks on the STATE word with Atomics.wait; the servicer is *)
(* one thread, woken by messages, that answers into the same buffer.  The  *)
(* model has one step per access to shared memory, so that every order of  *)
(* the two threads' loads and stores is explored.                          *)
(*                                                                         *)
(* Data: every cell of the shared buffer carries the number of the call it *)
(* was written for, in place of bytes.  A request or a response assembled  *)
(* from cells of two calls is then visible as such.                        *)
(***************************************************************************)
EXTENDS Naturals, Sequences

CONSTANTS Clients,        \* client ids (process pids, the kernel's own id)
          MaxCalls,       \* bound on the calls one client issues
          LazyRestore,    \* TRUE when boot({persist: {lazyDepth}}) is used
          RestoreMayFail  \* TRUE: ensureRestored may reject

ASSUME BridgeAssumption ==
  /\ MaxCalls \in Nat
  /\ LazyRestore \in BOOLEAN
  /\ RestoreMayFail \in BOOLEAN

\* What an opcode is to the handler: it names a path (the id of OP_WATCH_STOP is
\* taken for one), it names none (an fd), it removes a tree, or no handler knows it.
Ops == {"path", "noPath", "removeTree", "unknown"}

\* What the servicer found: a value that fits the data window, one that does
\* not, an errno thrown by the Vfs.
Outcomes == {"value", "tooBig", "errno"}

Answers == {"value", "EMSGSIZE", "errno", "ENOSYS"}
States  == {"IDLE", "REQUEST", "RESPONSE_OK", "RESPONSE_ERR"}

VARIABLES
  pc,        \* pc[c]: where c's thread is inside `call`
  calls,     \* calls[c]: calls c has begun; also the number of the current one
  op,        \* op[c]: what c's current call asks for
  cState,    \* cState[c], cOpcode[c], cReqLen[c], cResLen[c], cData[c]:
  cOpcode,   \*   the cells of c's shared buffer
  cReqLen,
  cResLen,
  cData,
  got,       \* got[c]: what c's last completed call returned
  control,   \* control[c]: register/unregister messages still on their way
  bells,     \* bells[c]: doorbells queued on c's MessagePort
  clients,   \* FsServer.clients (and the handler's open ports)
  deferred,  \* clients whose service waits for ensureRestored
  job,       \* what the servicer's thread is doing
  served,    \* served[c]: how many of c's requests were carried out
  answer     \* answer[c]: what the last request carried out was answered with

caller == <<pc, calls, op, got>>
buffer == <<cState, cOpcode, cReqLen, cResLen, cData>>
queues == <<control, bells>>
server == <<clients, deferred, job, served, answer>>
vars   == <<caller, buffer, queues, server>>

PCs == {"unborn", "idle", "opcode", "reqLen", "publish", "notify", "check",
        "park", "parked", "take", "reset", "dead"}

JobPCs == {"read", "run", "putData", "putLen", "putState", "wake"}
NoData == [kind |-> "none", call |-> 0, body |-> "none"]
Idle   == [pc |-> "idle"]
Cell   == [op : Ops, call : Nat]

\* Between the STATE = REQUEST store and the load that sees a response the
\* caller's thread touches nothing but STATE and its doorbell.
Waiting == {"notify", "check", "park", "parked"}

Init ==
  /\ pc = [c \in Clients |-> "unborn"]
  /\ calls = [c \in Clients |-> 0]
  /\ op = [c \in Clients |-> "noPath"]
  /\ cState = [c \in Clients |-> "IDLE"]
  /\ cOpcode = [c \in Clients |-> [op |-> "noPath", call |-> 0]]
  /\ cReqLen = [c \in Clients |-> 0]
  /\ cResLen = [c \in Clients |-> 0]
  /\ cData = [c \in Clients |-> NoData]
  /\ got = [c \in Clients |-> [ok |-> TRUE, len |-> 0, data |-> NoData]]
  /\ control = [c \in Clients |-> <<>>]
  /\ bells = [c \in Clients |-> 0]
  /\ clients = {}
  /\ deferred = {}
  /\ job = Idle
  /\ served = [c \in Clients |-> 0]
  /\ answer = [c \in Clients |-> "value"]

-----------------------------------------------------------------------------
(* The kernel: attachFsClient when a process is spawned, terminate and      *)
(* detachFsClient when it is finalized, at whatever point its thread is.    *)

Attach(c) ==
  /\ pc[c] = "unborn"
  /\ pc' = [pc EXCEPT ![c] = "idle"]
  /\ control' = [control EXCEPT ![c] = Append(@, "register")]
  /\ UNCHANGED <<calls, op, got, buffer, bells, server>>

Kill(c) ==
  /\ pc[c] \notin {"unborn", "dead"}
  /\ pc' = [pc EXCEPT ![c] = "dead"]
  /\ control' = [control EXCEPT ![c] = Append(@, "unregister")]
  /\ UNCHANGED <<calls, op, got, buffer, bells, server>>

-----------------------------------------------------------------------------
(* The caller: createSyscallClient's `call`, one shared access per action.  *)
(* An oversize request throws before its first store and is left out.       *)

Step(c, from, to) == pc[c] = from /\ pc' = [pc EXCEPT ![c] = to]

PutRequest(c) ==
  /\ Step(c, "idle", "opcode")
  /\ calls[c] < MaxCalls
  /\ calls' = [calls EXCEPT ![c] = @ + 1]
  /\ \E o \in Ops : op' = [op EXCEPT ![c] = o]
  /\ cData' = [cData EXCEPT ![c] =
                 [kind |-> "request", call |-> calls'[c], body |-> "none"]]
  /\ UNCHANGED <<got, cState, cOpcode, cReqLen, cResLen, queues, server>>

StoreOpcode(c) ==
  /\ Step(c, "opcode", "reqLen")
  /\ cOpcode' = [cOpcode EXCEPT ![c] = [op |-> op[c], call |-> calls[c]]]
  /\ UNCHANGED <<calls, op, got, cState, cReqLen, cResLen, cData, queues, server>>

\* Mutant: the length of the previous request stays.
StoreReqLenForgotten(c) ==
  /\ Step(c, "reqLen", "publish")
  /\ UNCHANGED <<calls, op, got, buffer, queues, server>>

StoreReqLen(c) ==
  /\ Step(c, "reqLen", "publish")
  /\ cReqLen' = [cReqLen EXCEPT ![c] = calls[c]]
  /\ UNCHANGED <<calls, op, got, cState, cOpcode, cResLen, cData, queues, server>>

Publish(c) ==
  /\ Step(c, "publish", "notify")
  /\ cState' = [cState EXCEPT ![c] = "REQUEST"]
  /\ UNCHANGED <<calls, op, got, cOpcode, cReqLen, cResLen, cData, queues, server>>

Ring(c) ==
  /\ Step(c, "notify", "check")
  /\ bells' = [bells EXCEPT ![c] = @ + 1]
  /\ UNCHANGED <<calls, op, got, buffer, control, server>>

\* Mutant: one look at STATE instead of a loop, any wake taken for an answer.
CheckOnce(c) ==
  /\ Step(c, "check", "take")
  /\ UNCHANGED <<calls, op, got, buffer, queues, server>>

\* The loop's condition: another load of STATE on every turn.
Check(c) ==
  /\ Step(c, "check", IF cState[c] = "REQUEST" THEN "park" ELSE "take")
  /\ UNCHANGED <<calls, op, got, buffer, queues, server>>

\* Mutant: go to sleep without comparing STATE again.
ParkBlindly(c) ==
  /\ Step(c, "park", "parked")
  /\ UNCHANGED <<calls, op, got, buffer, queues, server>>

\* Atomics.wait compares STATE and parks in one step; if STATE is no longer
\* REQUEST it returns at once.
Park(c) ==
  /\ Step(c, "park", IF cState[c] = "REQUEST" THEN "parked" ELSE "check")
  /\ UNCHANGED <<calls, op, got, buffer, queues, server>>

\* The three loads after the loop: nobody else writes the buffer by now.
Take(c) ==
  /\ Step(c, "take", "reset")
  /\ got' = [got EXCEPT ![c] = [ok |-> cState[c] # "RESPONSE_ERR",
                                len |-> cResLen[c], data |-> cData[c]]]
  /\ UNCHANGED <<calls, op, buffer, queues, server>>

Reset(c) ==
  /\ Step(c, "reset", "idle")
  /\ cState' = [cState EXCEPT ![c] = "IDLE"]
  /\ UNCHANGED <<calls, op, got, cOpcode, cReqLen, cResLen, cData, queues, server>>

Caller(c) == \/ PutRequest(c) \/ StoreOpcode(c) \/ StoreReqLen(c) \/ Publish(c)
             \/ Ring(c) \/ Check(c) \/ Park(c) \/ Take(c) \/ Reset(c)

-----------------------------------------------------------------------------
(* The servicer's thread.  Each message is handled to its end before the    *)
(* next one: an action that takes a message needs job = Idle.               *)

\* A job is the request it serves, read cell by cell, and its answer.
Job(p, c, o, n, b, l, a) ==
  [pc |-> p, client |-> c, op |-> o, opcodeOf |-> n, dataOf |-> b, lenOf |-> l,
   answer |-> a]

ReadJob(c) == Job("read", c, "noPath", 0, 0, 0, "value")

\* Mutant: the deferred service keeps the buffer it was given instead of
\* looking the client up again.
PendingUnchecked(c) == cState[c] = "REQUEST"

Pending(c) == c \in clients /\ cState[c] = "REQUEST"

\* The handler's "register": the client's doorbells are answered from now on.
Register(c) ==
  /\ job = Idle
  /\ control[c] # <<>> /\ Head(control[c]) = "register"
  /\ control' = [control EXCEPT ![c] = Tail(@)]
  /\ clients' = clients \cup {c}
  /\ UNCHANGED <<caller, buffer, bells, deferred, job, served, answer>>

\* "unregister": the port is closed, with whatever is queued on it.
Unregister(c) ==
  /\ job = Idle
  /\ control[c] # <<>> /\ Head(control[c]) = "unregister"
  /\ control' = [control EXCEPT ![c] = Tail(@)]
  /\ clients' = clients \ {c}
  /\ bells' = [bells EXCEPT ![c] = 0]
  /\ UNCHANGED <<caller, buffer, deferred, job, served, answer>>

\* Mutant: service without a doorbell.
DoorbellUnrung(c) ==
  /\ job = Idle
  /\ c \in clients
  /\ bells' = [bells EXCEPT ![c] = @ - 1]
  /\ job' = IF Pending(c) THEN ReadJob(c) ELSE Idle
  /\ UNCHANGED <<caller, buffer, control, clients, deferred, served, answer>>

\* The handler's `service`: with lazy restore a pending request that names a
\* path waits for its project; a recursive remove, or none, is served at once.
Doorbell(c) ==
  /\ job = Idle
  /\ c \in clients /\ bells[c] > 0
  /\ bells' = [bells EXCEPT ![c] = @ - 1]
  /\ IF Pending(c) /\ LazyRestore /\ cOpcode[c].op = "path"
       THEN deferred' = deferred \cup {c} /\ job' = job
       ELSE /\ deferred' = deferred
            /\ job' = IF Pending(c) THEN ReadJob(c) ELSE Idle
  /\ UNCHANGED <<caller, buffer, control, clients, served, answer>>

\* Mutant: the deferred request is forgotten once its project is restored.
RestoredOnly(c) ==
  /\ job = Idle
  /\ c \in deferred
  /\ deferred' = deferred \ {c}
  /\ UNCHANGED <<caller, buffer, queues, clients, job, served, answer>>

\* ensureRestored settled: FsServer.service looks the client up again.
Restored(c) ==
  /\ job = Idle
  /\ c \in deferred
  /\ deferred' = deferred \ {c}
  /\ job' = IF Pending(c) THEN ReadJob(c) ELSE Idle
  /\ UNCHANGED <<caller, buffer, queues, clients, served, answer>>

\* ensureRestored rejected: `.then(service)` has no rejection handler.
RestoreRejected(c) ==
  /\ RestoreMayFail
  /\ c \in deferred
  /\ deferred' = deferred \ {c}
  /\ UNCHANGED <<caller, buffer, queues, clients, job, served, answer>>

ReadRequest ==
  /\ job.pc = "read"
  /\ LET c == job.client IN
       job' = [job EXCEPT !.pc = "run", !.op = cOpcode[c].op,
                          !.opcodeOf = cOpcode[c].call, !.lenOf = cReqLen[c],
                          !.dataOf = cData[c].call]
  /\ UNCHANGED <<caller, buffer, queues, clients, deferred, served, answer>>

\* The opcode's handler runs, or ENOSYS; a value too big for the window is
\* answered EMSGSIZE (respondOk), an exception its errno (service's catch).
Run ==
  /\ job.pc = "run"
  /\ \E out \in Outcomes :
       LET a == IF job.op = "unknown" THEN "ENOSYS"
                ELSE IF out = "tooBig" THEN "EMSGSIZE" ELSE out
       IN /\ job' = [job EXCEPT !.pc = "putData", !.answer = a]
          /\ answer' = [answer EXCEPT ![job.client] = a]
  /\ served' = [served EXCEPT ![job.client] = @ + 1]
  /\ UNCHANGED <<caller, buffer, queues, clients, deferred>>

\* Mutant: STATE is stored before the payload and its length.
PutDataLate ==
  /\ job.pc = "putData"
  /\ job' = [job EXCEPT !.pc = "putLen"]
  /\ cState' = [cState EXCEPT ![job.client] = "RESPONSE_OK"]
  /\ UNCHANGED <<caller, cOpcode, cReqLen, cResLen, cData, queues,
                 clients, deferred, served, answer>>

\* `finish`: payload, its length, the STATE store, then the wake-up.
PutData ==
  /\ job.pc = "putData"
  /\ job' = [job EXCEPT !.pc = "putLen"]
  /\ cData' = [cData EXCEPT ![job.client] =
                 [kind |-> "response", call |-> job.opcodeOf, body |-> job.answer]]
  /\ UNCHANGED <<caller, cState, cOpcode, cReqLen, cResLen, queues,
                 clients, deferred, served, answer>>

\* Mutant: the length of the previous response stays.
PutLenForgotten ==
  /\ job.pc = "putLen"
  /\ job' = [job EXCEPT !.pc = "putState"]
  /\ UNCHANGED <<caller, buffer, queues, clients, deferred, served, answer>>

PutLen ==
  /\ job.pc = "putLen"
  /\ job' = [job EXCEPT !.pc = "putState"]
  /\ cResLen' = [cResLen EXCEPT ![job.client] = job.opcodeOf]
  /\ UNCHANGED <<caller, cState, cOpcode, cReqLen, cData, queues,
                 clients, deferred, served, answer>>

PutState ==
  /\ job.pc = "putState"
  /\ job' = [job EXCEPT !.pc = "wake"]
  /\ cState' = [cState EXCEPT ![job.client] =
                  IF job.answer = "value" THEN "RESPONSE_OK" ELSE "RESPONSE_ERR"]
  /\ UNCHANGED <<caller, cOpcode, cReqLen, cResLen, cData, queues,
                 clients, deferred, served, answer>>

Wake ==
  /\ job.pc = "wake"
  /\ job' = Idle
  /\ pc' = [pc EXCEPT ![job.client] = IF @ = "parked" THEN "check" ELSE @]
  /\ UNCHANGED <<calls, op, got, buffer, queues, clients, deferred, served, answer>>

\* What the event loop of the servicer's thread may take next.
Message(c) == Register(c) \/ Unregister(c) \/ Doorbell(c) \/ Restored(c)

Servicer ==
  \/ \E c \in Clients : Message(c)
  \/ ReadRequest \/ Run \/ PutData \/ PutLen \/ PutState \/ Wake

-----------------------------------------------------------------------------

Done == \A c \in Clients : pc[c] = "dead" \/ (pc[c] = "idle" /\ calls[c] = MaxCalls)

\* Every call made: the VM waits for input that this model does not have.
Terminated == Done /\ UNCHANGED vars

Next ==
  \/ \E c \in Clients : Attach(c) \/ Kill(c) \/ Caller(c) \/ RestoreRejected(c)
  \/ Servicer
  \/ Terminated

Spec == Init /\ [][Next]_vars

\* Threads that can run do; the servicer's event loop takes every queued
\* message in its turn.  Nothing makes a process start, call or die.
Fairness ==
  /\ \A c \in Clients :
       /\ WF_vars(StoreOpcode(c) \/ StoreReqLen(c) \/ Publish(c) \/ Ring(c)
                  \/ Check(c) \/ Park(c) \/ Take(c) \/ Reset(c))
       /\ SF_vars(Message(c))
  /\ WF_vars(ReadRequest \/ Run \/ PutData \/ PutLen \/ PutState \/ Wake)

FairSpec == Spec /\ Fairness

-----------------------------------------------------------------------------
(* Properties.                                                              *)

Request == [pc : JobPCs, client : Clients, op : Ops, opcodeOf : Nat,
            dataOf : Nat, lenOf : Nat, answer : Answers]

Payload == [kind : {"none", "request", "response"}, call : Nat,
            body : Answers \cup {"none"}]

TypeOK ==
  /\ pc \in [Clients -> PCs]
  /\ calls \in [Clients -> Nat]
  /\ op \in [Clients -> Ops]
  /\ cState \in [Clients -> States]
  /\ cOpcode \in [Clients -> Cell]
  /\ cReqLen \in [Clients -> Nat]
  /\ cResLen \in [Clients -> Nat]
  /\ cData \in [Clients -> Payload]
  /\ got \in [Clients -> [ok : BOOLEAN, len : Nat, data : Payload]]
  /\ control \in [Clients -> Seq({"register", "unregister"})]
  /\ bells \in [Clients -> Nat]
  /\ clients \subseteq Clients
  /\ deferred \subseteq Clients
  /\ job = Idle \/ job \in Request
  /\ served \in [Clients -> Nat]
  /\ answer \in [Clients -> Answers]

\* The servicer writes a live caller's buffer only while that caller is
\* inside its wait: the two halves never touch the data window at once.
Exclusive ==
  \A c \in Clients :
    job # Idle /\ job.client = c /\ job.pc # "wake" /\ pc[c] # "dead"
      => pc[c] \in Waiting /\ cState[c] = "REQUEST"

\* The request the servicer carries out is, cell for cell, the one the caller
\* published last: opcode, length and bytes of the same call.
WholeRequest ==
  job # Idle /\ job.pc = "run" =>
    LET c == job.client IN
      /\ job.opcodeOf = calls[c] /\ job.dataOf = calls[c] /\ job.lenOf = calls[c]
      /\ job.op = op[c]

\* A call that has returned was carried out exactly once, and what it
\* returned is that request's answer, not an earlier call's.
AnswersItsRequest ==
  \A c \in Clients :
    /\ served[c] \in {calls[c], calls[c] - 1}
    /\ pc[c] \in {"reset", "idle"} /\ calls[c] > 0 =>
         /\ served[c] = calls[c]
         /\ got[c].len = calls[c]
         /\ got[c].data = [kind |-> "response", call |-> calls[c], body |-> answer[c]]
         /\ got[c].ok <=> answer[c] = "value"

\* A caller asleep on an answered word has its wake-up still to come: the
\* notify cannot fall between the caller's last look and its going to sleep.
NoLostWakeup ==
  \A c \in Clients :
    pc[c] = "parked" /\ cState[c] # "REQUEST"
      => job # Idle /\ job.client = c /\ job.pc = "wake"

\* A request, once unregister is processed, is carried out no more: a killed
\* process changes no file after the servicer has let go of it.
NoServiceAfterUnregister ==
  [][\A c \in Clients : served'[c] # served[c] => c \in clients]_vars

-----------------------------------------------------------------------------
(* Why the safety properties hold: what is true of one client c at every    *)
(* moment.  STATE says whose turn it is, also after the caller's death.     *)

Answered == {"RESPONSE_OK", "RESPONSE_ERR"}
Writing  == {"opcode", "reqLen", "publish"}

\* The servicer is working for c, at one of the given steps.
Serving(c, steps) == job # Idle /\ job.client = c /\ job.pc \in steps

\* The caller's position agrees with STATE, and the servicer works on a
\* registered client's published request.
Turns(c) ==
  /\ pc[c] \in {"unborn", "idle"} \cup Writing => cState[c] = "IDLE"
  /\ pc[c] \in Waiting => cState[c] # "IDLE"
  /\ pc[c] \in {"take", "reset"} => cState[c] \in Answered
  /\ Serving(c, JobPCs) => c \in clients
  /\ Serving(c, JobPCs \ {"wake"}) => cState[c] = "REQUEST"
  /\ pc[c] = "parked" /\ cState[c] # "REQUEST" => Serving(c, {"wake"})

\* Each cell holds the current call's value from its store on.
RequestCells(c) ==
  /\ pc[c] \in {"reqLen", "publish"} \/ cState[c] = "REQUEST"
       => cOpcode[c] = [op |-> op[c], call |-> calls[c]]
  /\ pc[c] = "publish" \/ cState[c] = "REQUEST" => cReqLen[c] = calls[c]
  /\ \/ pc[c] \in Writing
     \/ cState[c] = "REQUEST" /\ ~Serving(c, {"putLen", "putState"})
     => cData[c].call = calls[c]
  /\ Serving(c, {"run", "putData", "putLen", "putState"})
       => /\ job.opcodeOf = calls[c] /\ job.dataOf = calls[c]
          /\ job.lenOf = calls[c] /\ job.op = op[c]

ResponseCells(c) ==
  /\ cState[c] \in Answered \/ Serving(c, {"putLen", "putState"})
       => cData[c] = [kind |-> "response", call |-> calls[c], body |-> answer[c]]
  /\ cState[c] \in Answered \/ Serving(c, {"putState"}) => cResLen[c] = calls[c]
  /\ cState[c] \in Answered => (cState[c] = "RESPONSE_OK" <=> answer[c] = "value")
  /\ Serving(c, {"putData", "putLen", "putState"}) => job.answer = answer[c]

\* A request is counted when it is carried out, a call when it has returned.
Counts(c) ==
  /\ \/ cState[c] \in Answered
     \/ Serving(c, {"putData", "putLen", "putState"})
     \/ pc[c] \in {"unborn", "idle"}
     => served[c] = calls[c]
  /\ \/ cState[c] = "REQUEST" /\ ~Serving(c, {"putData", "putLen", "putState"})
     \/ pc[c] \in Writing
     => served[c] + 1 = calls[c]
  /\ served[c] = calls[c] \/ served[c] + 1 = calls[c]
  /\ pc[c] = "unborn" => calls[c] = 0
  /\ pc[c] \in {"unborn", "idle", "reset"} => got[c].len = calls[c]
  /\ pc[c] \in Writing \cup Waiting \cup {"take"} => got[c].len + 1 = calls[c]
  /\ pc[c] \in {"idle", "reset"} /\ calls[c] > 0
       => /\ got[c].data = [kind |-> "response", call |-> calls[c], body |-> answer[c]]
          /\ got[c].ok <=> answer[c] = "value"

\* The two threads' half-done call, whole: everything the safety properties
\* follow from, kept by every step.
Handshake ==
  \A c \in Clients : Turns(c) /\ RequestCells(c) /\ ResponseCells(c) /\ Counts(c)

-----------------------------------------------------------------------------
\* The bridge implements the remote procedure call: a call returns when its
\* result has been loaded, a request is carried out when its handler ran.
Rpc == INSTANCE SyscallRpc WITH
         started  <- calls,
         executed <- served,
         answered <- answer,
         returned <- [c \in Clients |-> got[c].len],
         result   <- [c \in Clients |-> got[c].data.body],
         dead     <- {c \in Clients : pc[c] = "dead"}

\* Every behaviour of the bridge is one of the remote procedure call ...
ImplementsRpc == Rpc!RpcSpec

\* ... and, the threads being scheduled, every call of a live client is
\* carried out and returns.
ImplementsFairRpc == Rpc!RpcFairSpec
=============================================================================
