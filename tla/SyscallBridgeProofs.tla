------------------------ MODULE SyscallBridgeProofs ------------------------
(***************************************************************************)
(* Proofs about the syscall bridge, for every set of clients, every number *)
(* of calls, with lazy restore or without it, rejecting or not:            *)
(*   - type correctness;                                                   *)
(*   - the inductive invariant Handshake and the safety properties that    *)
(*     follow from it.                                                     *)
(***************************************************************************)
EXTENDS SyscallBridge, TLAPS

-----------------------------------------------------------------------------
(* Type correctness.                                                        *)

\* The actions of one client's own thread keep every type.
LEMMA CallerTypes ==
  ASSUME TypeOK, NEW c \in Clients, Caller(c)
  PROVE  TypeOK'
<1>1. CASE PutRequest(c)
  BY <1>1 DEF TypeOK, PutRequest, Step, PCs, Payload, server, queues
<1>2. CASE StoreOpcode(c)
  BY <1>2 DEF TypeOK, StoreOpcode, Step, PCs, Cell, server, queues
<1>3. CASE StoreReqLen(c)
  BY <1>3 DEF TypeOK, StoreReqLen, Step, PCs, server, queues
<1>4. CASE Publish(c)
  BY <1>4 DEF TypeOK, Publish, Step, PCs, States, server, queues
<1>5. CASE Ring(c)
  BY <1>5 DEF TypeOK, Ring, Step, PCs, buffer, server
<1>6. CASE Check(c)
  BY <1>6 DEF TypeOK, Check, Step, PCs, buffer, server, queues
<1>7. CASE Park(c)
  BY <1>7 DEF TypeOK, Park, Step, PCs, buffer, server, queues
<1>8. CASE Take(c)
  BY <1>8 DEF TypeOK, Take, Step, PCs, buffer, server, queues
<1>9. CASE Reset(c)
  BY <1>9 DEF TypeOK, Reset, Step, PCs, States, server, queues
<1> QED
  BY <1>1, <1>2, <1>3, <1>4, <1>5, <1>6, <1>7, <1>8, <1>9 DEF Caller

\* So do the messages the servicer's event loop takes, and the kernel's.
LEMMA MessageTypes ==
  ASSUME TypeOK, NEW c \in Clients,
         Attach(c) \/ Kill(c) \/ Message(c) \/ RestoreRejected(c)
  PROVE  TypeOK'
<1> DEFINE Controls == Seq({"register", "unregister"})
<1>1. \A m \in {"register", "unregister"} : Append(control[c], m) \in Controls
  BY DEF TypeOK
<1>2. control[c] # <<>> => Tail(control[c]) \in Controls
  BY DEF TypeOK
<1>3. ReadJob(c) \in Request
  BY DEF ReadJob, Job, Request, JobPCs, Ops, Answers
<1>4. CASE Attach(c)
  BY <1>1, <1>4 DEF TypeOK, Attach, PCs, buffer, server
<1>5. CASE Kill(c)
  BY <1>1, <1>5 DEF TypeOK, Kill, PCs, buffer, server
<1>6. CASE Register(c)
  BY <1>2, <1>6 DEF TypeOK, Register, caller, buffer
<1>7. CASE Unregister(c)
  BY <1>2, <1>7 DEF TypeOK, Unregister, caller, buffer
<1>8. CASE Doorbell(c)
  <2>1. bells' \in [Clients -> Nat]
    BY <1>8 DEF TypeOK, Doorbell
  <2> QED
    BY <1>3, <1>8, <2>1 DEF TypeOK, Doorbell, caller, buffer
<1>9. CASE Restored(c)
  BY <1>3, <1>9 DEF TypeOK, Restored, caller, buffer, queues
<1>10. CASE RestoreRejected(c)
  BY <1>10 DEF TypeOK, RestoreRejected, caller, buffer, queues
<1> QED
  BY <1>4, <1>5, <1>6, <1>7, <1>8, <1>9, <1>10 DEF Message

\* So does the service of a request.
LEMMA ServiceTypes ==
  ASSUME TypeOK,
         ReadRequest \/ Run \/ PutData \/ PutLen \/ PutState \/ Wake
  PROVE  TypeOK'
<1>1. job \in Request
  <2>1. job.pc \in JobPCs
    BY DEF JobPCs, ReadRequest, Run, PutData, PutLen, PutState, Wake
  <2>2. Idle.pc \notin JobPCs
    BY DEF Idle, JobPCs
  <2>3. job # Idle
    BY <2>1, <2>2
  <2> QED
    BY <2>3 DEF TypeOK
<1>2. job.client \in Clients
  BY <1>1 DEF Request
<1>3. CASE ReadRequest
  <2>1. job' \in Request
    BY <1>1, <1>2, <1>3 DEF TypeOK, ReadRequest, Request, JobPCs, Cell, Payload
  <2> QED
    BY <1>3, <2>1 DEF TypeOK, ReadRequest, caller, buffer, queues
<1>4. CASE Run
  <2>1. PICK a \in Answers :
          /\ job' = [job EXCEPT !.pc = "putData", !.answer = a]
          /\ answer' = [answer EXCEPT ![job.client] = a]
    BY <1>4 DEF Run, Outcomes, Answers
  <2>2. job' \in Request
    BY <1>1, <2>1 DEF Request, JobPCs
  <2>3. answer' \in [Clients -> Answers]
    BY <2>1 DEF TypeOK
  <2>4. served' \in [Clients -> Nat]
    <3>1. served' = [served EXCEPT ![job.client] = @ + 1]
      BY <1>4 DEF Run
    <3>2. served \in [Clients -> Nat]
      BY DEF TypeOK
    <3> QED
      BY <1>2, <3>1, <3>2
  <2> QED
    BY <1>4, <2>2, <2>3, <2>4 DEF TypeOK, Run, caller, buffer, queues
<1>5. CASE PutData
  BY <1>1, <1>2, <1>5 DEF TypeOK, PutData, Request, JobPCs, Payload, caller, queues
<1>6. CASE PutLen
  BY <1>1, <1>2, <1>6 DEF TypeOK, PutLen, Request, JobPCs, caller, queues
<1>7. CASE PutState
  BY <1>1, <1>2, <1>7 DEF TypeOK, PutState, Request, JobPCs, States, caller, queues
<1>8. CASE Wake
  BY <1>1, <1>2, <1>8 DEF TypeOK, Wake, PCs, buffer, queues
<1> QED
  BY <1>3, <1>4, <1>5, <1>6, <1>7, <1>8

\* Every variable keeps its type.
THEOREM TypeCorrect == Spec => []TypeOK
<1>1. Init => TypeOK
  BY DEF Init, TypeOK, PCs, States, Ops, Cell, Payload, NoData, Answers
<1>2. TypeOK /\ [Next]_vars => TypeOK'
  <2> SUFFICES ASSUME TypeOK, [Next]_vars PROVE TypeOK'
    OBVIOUS
  <2>1. CASE UNCHANGED vars
    BY <2>1 DEF TypeOK, vars, caller, buffer, queues, server
  <2>2. ASSUME NEW c \in Clients,
               Attach(c) \/ Kill(c) \/ Message(c) \/ RestoreRejected(c)
        PROVE  TypeOK'
    BY <2>2, MessageTypes
  <2>3. ASSUME NEW c \in Clients, Caller(c) PROVE TypeOK'
    BY <2>3, CallerTypes
  <2>4. CASE ReadRequest \/ Run \/ PutData \/ PutLen \/ PutState \/ Wake
    BY <2>4, ServiceTypes
  <2> QED
    BY <2>1, <2>2, <2>3, <2>4 DEF Next, Servicer, Terminated
<1> QED
  BY <1>1, <1>2, PTL DEF Spec

-----------------------------------------------------------------------------
(* The handshake: one lemma for each thread that can move.                  *)

Client(d) == Turns(d) /\ RequestCells(d) /\ ResponseCells(d) /\ Counts(d)

\* What no step touches of d stays true of d.
LEMMA Untouched ==
  ASSUME NEW d \in Clients, Client(d),
         pc'[d] = pc[d], calls'[d] = calls[d], op'[d] = op[d], got'[d] = got[d],
         cState'[d] = cState[d], cOpcode'[d] = cOpcode[d], cReqLen'[d] = cReqLen[d],
         cResLen'[d] = cResLen[d], cData'[d] = cData[d],
         served'[d] = served[d], answer'[d] = answer[d],
         \/ job' = job
         \/ (job = Idle \/ job.client # d) /\ (job' = Idle \/ job'.client # d),
         job' = Idle \/ (d \in clients => d \in clients')
  PROVE  Client(d)'
BY DEF Client, Turns, RequestCells, ResponseCells, Counts, Serving, JobPCs, Idle

\* The caller's own thread: only its own client's conjuncts are touched.
LEMMA CallerHandshake ==
  ASSUME TypeOK, Handshake, NEW c \in Clients, Caller(c), NEW d \in Clients
  PROVE  Client(d)'
<1>0. Client(c) /\ Client(d)
  BY DEF Handshake, Client
<1>1. CASE d # c
  BY <1>0, <1>1, Untouched DEF TypeOK, Caller, PutRequest, StoreOpcode, StoreReqLen,
       Publish, Ring, Check, Park, Take, Reset, Step, buffer, queues, server
<1>2. CASE d = c
  <2>1. Client(c)'
    <3> USE <1>0 DEF Client
    <3>1. CASE PutRequest(c)
      BY <3>1 DEF TypeOK, States, PutRequest, Step, queues, server,
           Turns, RequestCells, ResponseCells, Counts,
           Serving, Answered, Writing, Waiting, JobPCs
    <3>2. CASE StoreOpcode(c)
      <4>1. Turns(c)'
        BY <3>2 DEF TypeOK, States, StoreOpcode, Step, queues, server,
             Turns, RequestCells, ResponseCells, Counts,
             Serving, Answered, Writing, Waiting, JobPCs
      <4>2. RequestCells(c)'
        <5>1. /\ pc[c] = "opcode" /\ pc'[c] = "reqLen" /\ cState[c] = "IDLE"
              /\ cOpcode'[c] = [op |-> op[c], call |-> calls[c]]
          BY <3>2 DEF TypeOK, StoreOpcode, Step, Turns, Writing
        <5>2. UNCHANGED <<calls, op, cState, cReqLen, cData, job>>
          BY <3>2 DEF StoreOpcode, queues, server
        <5> QED
          BY <5>1, <5>2 DEF Turns, RequestCells, Serving, Writing, JobPCs
      <4>3. ResponseCells(c)'
        BY <3>2 DEF TypeOK, States, StoreOpcode, Step, queues, server,
             Turns, RequestCells, ResponseCells, Counts,
             Serving, Answered, Writing, Waiting, JobPCs
      <4>4. Counts(c)'
        BY <3>2 DEF TypeOK, States, StoreOpcode, Step, queues, server,
             Turns, RequestCells, ResponseCells, Counts,
             Serving, Answered, Writing, Waiting, JobPCs
      <4> QED
        BY <4>1, <4>2, <4>3, <4>4
    <3>3. CASE StoreReqLen(c)
      BY <3>3 DEF TypeOK, States, StoreReqLen, Step, queues, server,
           Turns, RequestCells, ResponseCells, Counts,
           Serving, Answered, Writing, Waiting, JobPCs
    <3>4. CASE Publish(c)
      <4>1. Turns(c)'
        BY <3>4 DEF TypeOK, States, Publish, Step, queues, server,
             Turns, RequestCells, ResponseCells, Counts,
             Serving, Answered, Writing, Waiting, JobPCs
      <4>2. RequestCells(c)'
        <5>1. pc[c] = "publish" /\ pc'[c] = "notify" /\ ~Serving(c, JobPCs \ {"wake"})
          BY <3>4 DEF TypeOK, Publish, Step, Turns, Writing, JobPCs
        <5>2. UNCHANGED <<calls, op, cOpcode, cReqLen, cData, job>>
          BY <3>4 DEF Publish, queues, server
        <5>3. /\ cOpcode[c] = [op |-> op[c], call |-> calls[c]]
              /\ cReqLen[c] = calls[c] /\ cData[c].call = calls[c]
          BY <5>1 DEF RequestCells, Writing
        <5> QED
          BY <5>1, <5>2, <5>3 DEF RequestCells, Serving, Writing, JobPCs
      <4>3. ResponseCells(c)'
        BY <3>4 DEF TypeOK, States, Publish, Step, queues, server,
             Turns, RequestCells, ResponseCells, Counts,
             Serving, Answered, Writing, Waiting, JobPCs
      <4>4. Counts(c)'
        BY <3>4 DEF TypeOK, States, Publish, Step, queues, server,
             Turns, RequestCells, ResponseCells, Counts,
             Serving, Answered, Writing, Waiting, JobPCs
      <4> QED
        BY <4>1, <4>2, <4>3, <4>4
    <3>5. CASE Ring(c)
      BY <3>5 DEF TypeOK, States, Ring, Step, buffer, server,
           Turns, RequestCells, ResponseCells, Counts,
           Serving, Answered, Writing, Waiting, JobPCs
    <3>6. CASE Check(c)
      BY <3>6 DEF TypeOK, States, Check, Step, buffer, queues, server,
           Turns, RequestCells, ResponseCells, Counts,
           Serving, Answered, Writing, Waiting, JobPCs
    <3>7. CASE Park(c)
      BY <3>7 DEF TypeOK, States, Park, Step, buffer, queues, server,
           Turns, RequestCells, ResponseCells, Counts,
           Serving, Answered, Writing, Waiting, JobPCs
    <3>8. CASE Take(c)
      <4>1. Turns(c)'
        BY <3>8 DEF TypeOK, States, Take, Step, buffer, queues, server,
             Turns, RequestCells, ResponseCells, Counts,
             Serving, Answered, Writing, Waiting, JobPCs
      <4>2. RequestCells(c)'
        BY <3>8 DEF TypeOK, States, Take, Step, buffer, queues, server,
             Turns, RequestCells, ResponseCells, Counts,
             Serving, Answered, Writing, Waiting, JobPCs
      <4>3. ResponseCells(c)'
        BY <3>8 DEF TypeOK, States, Take, Step, buffer, queues, server,
             Turns, RequestCells, ResponseCells, Counts,
             Serving, Answered, Writing, Waiting, JobPCs
      <4>4. Counts(c)'
        BY <3>8 DEF TypeOK, States, Take, Step, buffer, queues, server,
             Turns, RequestCells, ResponseCells, Counts,
             Serving, Answered, Writing, Waiting, JobPCs
      <4> QED
        BY <4>1, <4>2, <4>3, <4>4
    <3>9. CASE Reset(c)
      <4>1. Turns(c)'
        BY <3>9 DEF TypeOK, States, Reset, Step, queues, server,
             Turns, RequestCells, ResponseCells, Counts,
             Serving, Answered, Writing, Waiting, JobPCs
      <4>2. RequestCells(c)'
        BY <3>9 DEF TypeOK, States, Reset, Step, queues, server,
             Turns, RequestCells, ResponseCells, Counts,
             Serving, Answered, Writing, Waiting, JobPCs
      <4>3. ResponseCells(c)'
        BY <3>9 DEF TypeOK, States, Reset, Step, queues, server,
             Turns, RequestCells, ResponseCells, Counts,
             Serving, Answered, Writing, Waiting, JobPCs
      <4>4. Counts(c)'
        <5>1. /\ pc[c] = "reset" /\ pc'[c] = "idle"
              /\ cState[c] \in Answered /\ cState'[c] = "IDLE"
          BY <3>9 DEF TypeOK, Reset, Step, Turns
        <5>2. UNCHANGED <<calls, got, job, served, answer>>
          BY <3>9 DEF Reset, queues, server
        <5>3. served[c] = calls[c] /\ got[c].len = calls[c]
          BY <5>1 DEF Counts
        <5>4. calls[c] > 0 =>
                /\ got[c].data = [kind |-> "response", call |-> calls[c], body |-> answer[c]]
                /\ got[c].ok <=> answer[c] = "value"
          BY <5>1 DEF Counts
        <5> QED
          BY <5>1, <5>2, <5>3, <5>4 DEF Counts, Writing, Waiting, Answered, Serving
      <4> QED
        BY <4>1, <4>2, <4>3, <4>4
    <3> QED
      BY <3>1, <3>2, <3>3, <3>4, <3>5, <3>6, <3>7, <3>8, <3>9 DEF Caller
  <2> QED
    BY <1>2, <2>1
<1> QED
  BY <1>1, <1>2

\* The kernel's steps and the messages the servicer takes.
LEMMA MessageHandshake ==
  ASSUME TypeOK, Handshake, NEW c \in Clients, NEW d \in Clients,
         Attach(c) \/ Kill(c) \/ Message(c) \/ RestoreRejected(c)
  PROVE  Client(d)'
<1>0. Client(c) /\ Client(d)
  BY DEF Handshake, Client
<1>1. CASE Attach(c)
  <2>1. CASE d = c
    BY <1>0, <1>1, <2>1 DEF TypeOK, Attach, buffer, server, Client,
         Turns, RequestCells, ResponseCells, Counts,
         Serving, Answered, Writing, Waiting, JobPCs
  <2>2. CASE d # c
    BY <1>0, <1>1, <2>2, Untouched DEF TypeOK, Attach, buffer, server
  <2> QED
    BY <2>1, <2>2
<1>2. CASE Kill(c)
  <2>1. CASE d = c
    BY <1>0, <1>2, <2>1 DEF TypeOK, Kill, buffer, server, Client,
         Turns, RequestCells, ResponseCells, Counts,
         Serving, Answered, Writing, Waiting, JobPCs
  <2>2. CASE d # c
    BY <1>0, <1>2, <2>2, Untouched DEF TypeOK, Kill, buffer, server
  <2> QED
    BY <2>1, <2>2
<1>3. CASE Register(c)
  BY <1>0, <1>3, Untouched DEF Register, caller, buffer
<1>4. CASE RestoreRejected(c)
  BY <1>0, <1>4, Untouched DEF RestoreRejected, caller, buffer, queues
<1>5. CASE Unregister(c)
  BY <1>0, <1>5, Untouched DEF Unregister, caller, buffer
<1>6. ASSUME job = Idle, job' = Idle \/ (job' = ReadJob(c) /\ Pending(c)),
             UNCHANGED <<caller, buffer, clients, served, answer>>
      PROVE  Client(d)'
  <2>1. CASE d = c /\ job' = ReadJob(c)
    BY <1>0, <1>6, <2>1 DEF caller, buffer, Pending, ReadJob, Job, Client, Idle,
         Turns, RequestCells, ResponseCells, Counts,
         Serving, Answered, Writing, Waiting, JobPCs
  <2>2. CASE d # c \/ job' = Idle
    BY <1>0, <1>6, <2>2, Untouched DEF caller, buffer, ReadJob, Job
  <2> QED
    BY <1>6, <2>1, <2>2
<1>7. CASE Doorbell(c)
  <2>1. job = Idle /\ (job' = Idle \/ (job' = ReadJob(c) /\ Pending(c)))
    BY <1>7 DEF Doorbell, Pending
  <2>2. UNCHANGED <<caller, buffer, clients, served, answer>>
    BY <1>7 DEF Doorbell
  <2> QED
    BY <1>6, <2>1, <2>2
<1>8. CASE Restored(c)
  <2>1. job = Idle /\ (job' = Idle \/ (job' = ReadJob(c) /\ Pending(c)))
    BY <1>8 DEF Restored, Pending
  <2>2. UNCHANGED <<caller, buffer, clients, served, answer>>
    BY <1>8 DEF Restored
  <2> QED
    BY <1>6, <2>1, <2>2
<1> QED
  BY <1>1, <1>2, <1>3, <1>4, <1>5, <1>7, <1>8 DEF Message

\* The service of a request touches only the client it is for.
LEMMA ServiceHandshake ==
  ASSUME TypeOK, Handshake, NEW d \in Clients,
         ReadRequest \/ Run \/ PutData \/ PutLen \/ PutState \/ Wake
  PROVE  Client(d)'
<1>0. job # Idle /\ job \in Request /\ job.client \in Clients
  <2>1. job.pc \in JobPCs
    BY DEF JobPCs, ReadRequest, Run, PutData, PutLen, PutState, Wake
  <2>2. Idle.pc \notin JobPCs
    BY DEF Idle, JobPCs
  <2>3. job # Idle
    BY <2>1, <2>2
  <2> QED
    BY <2>3 DEF TypeOK, Request
<1>1. job' = Idle \/ job'.client = job.client
  BY <1>0 DEF Request, ReadRequest, Run, PutData, PutLen, PutState, Wake
<1>2. Client(d)
  BY <1>0 DEF Handshake, Client
<1>3. CASE job.client # d
  <2>1. (job = Idle \/ job.client # d) /\ (job' = Idle \/ job'.client # d)
    BY <1>1, <1>3
  <2>2. UNCHANGED <<calls, op, got, cOpcode, cReqLen, clients>>
    BY DEF ReadRequest, Run, PutData, PutLen, PutState, Wake, caller, buffer, queues
  <2>3. CASE ReadRequest
    BY <1>0, <1>2, <1>3, <2>1, <2>2, <2>3, Untouched DEF TypeOK, ReadRequest, caller, buffer, queues
  <2>4. CASE Run
    BY <1>0, <1>2, <1>3, <2>1, <2>2, <2>4, Untouched DEF TypeOK, Run, caller, buffer, queues
  <2>5. CASE PutData
    BY <1>0, <1>2, <1>3, <2>1, <2>2, <2>5, Untouched DEF TypeOK, PutData, caller, buffer, queues
  <2>6. CASE PutLen
    BY <1>0, <1>2, <1>3, <2>1, <2>2, <2>6, Untouched DEF TypeOK, PutLen, caller, buffer, queues
  <2>7. CASE PutState
    BY <1>0, <1>2, <1>3, <2>1, <2>2, <2>7, Untouched DEF TypeOK, PutState, caller, buffer, queues
  <2>8. CASE Wake
    BY <1>0, <1>2, <1>3, <2>1, <2>2, <2>8, Untouched DEF TypeOK, Wake, caller, buffer, queues
  <2> QED
    BY <2>3, <2>4, <2>5, <2>6, <2>7, <2>8
<1>4. CASE job.client = d
  <2>0. TypeOK'
    BY ServiceTypes
  <2> USE <1>0, <1>2, <1>4, <2>0 DEF Client
  <2>1. CASE ReadRequest
    <3>1. Turns(d)'
      BY <2>1 DEF TypeOK, Request, ReadRequest, caller, buffer, queues,
           Turns, RequestCells, ResponseCells, Counts,
           Serving, Answered, Writing, Waiting, JobPCs
    <3>2. RequestCells(d)'
      BY <2>1 DEF TypeOK, Request, ReadRequest, caller, buffer, queues,
           Turns, RequestCells, ResponseCells, Counts,
           Serving, Answered, Writing, Waiting, JobPCs
    <3>3. ResponseCells(d)'
      BY <2>1 DEF TypeOK, Request, ReadRequest, caller, buffer, queues,
           Turns, RequestCells, ResponseCells, Counts,
           Serving, Answered, Writing, Waiting, JobPCs
    <3>4. Counts(d)'
      BY <2>1 DEF TypeOK, Request, ReadRequest, caller, buffer, queues,
           Turns, RequestCells, ResponseCells, Counts,
           Serving, Answered, Writing, Waiting, JobPCs
    <3> QED
      BY <3>1, <3>2, <3>3, <3>4
  <2>2. CASE Run
    <3>1. Turns(d)'
      BY <2>2 DEF TypeOK, Request, Run, caller, buffer, queues,
           Turns, RequestCells, ResponseCells, Counts,
           Serving, Answered, Writing, Waiting, JobPCs
    <3>2. RequestCells(d)'
      BY <2>2 DEF TypeOK, Request, Run, caller, buffer, queues,
           Turns, RequestCells, ResponseCells, Counts,
           Serving, Answered, Writing, Waiting, JobPCs
    <3>3. ResponseCells(d)'
      <4>1. /\ job.pc = "run" /\ job'.pc = "putData"
            /\ job'.client = d /\ job'.answer = answer'[d]
        <5>1. PICK a \in Answers \cup Outcomes :
                /\ job' = [job EXCEPT !.pc = "putData", !.answer = a]
                /\ answer' = [answer EXCEPT ![job.client] = a]
          BY <2>2 DEF Run, Outcomes, Answers
        <5>2. job'.pc = "putData" /\ job'.client = d /\ job'.answer = a
          BY <5>1 DEF Request
        <5>3. answer'[d] = a
          BY <5>1 DEF TypeOK
        <5> QED
          BY <2>2, <5>2, <5>3 DEF Run
      <4>2. cState[d] = "REQUEST"
        BY <4>1 DEF Turns, Serving, JobPCs
      <4>3. UNCHANGED <<calls, cState, cData, cResLen>>
        BY <2>2 DEF Run, caller, buffer
      <4> QED
        BY <4>1, <4>2, <4>3 DEF ResponseCells, Serving, Answered
    <3>4. Counts(d)'
      <4>1. /\ job.pc = "run" /\ job'.pc = "putData"
            /\ job'.client = d /\ job' # Idle
        BY <2>2 DEF Run, TypeOK, Request, Idle
      <4>2. /\ cState[d] = "REQUEST"
            /\ pc[d] \notin {"unborn", "idle", "take", "reset"} \cup Writing
        BY <4>1 DEF Turns, Serving, JobPCs, Answered
      <4>3. served[d] + 1 = calls[d] /\ served'[d] = served[d] + 1
        <5>1. served' = [served EXCEPT ![d] = @ + 1]
          BY <2>2 DEF Run
        <5> QED
          BY <4>1, <4>2, <5>1 DEF Counts, Serving, TypeOK
      <4>4. UNCHANGED <<pc, calls, got, cState>>
        BY <2>2 DEF Run, caller, buffer
      <4> QED
        BY <4>1, <4>2, <4>3, <4>4 DEF Counts, Serving
    <3> QED
      BY <3>1, <3>2, <3>3, <3>4
  <2>3. CASE PutData
    <3>1. Turns(d)'
      BY <2>3 DEF TypeOK, Request, PutData, caller, buffer, queues,
           Turns, RequestCells, ResponseCells, Counts,
           Serving, Answered, Writing, Waiting, JobPCs
    <3>2. RequestCells(d)'
      BY <2>3 DEF TypeOK, Request, PutData, caller, buffer, queues,
           Turns, RequestCells, ResponseCells, Counts,
           Serving, Answered, Writing, Waiting, JobPCs
    <3>3. ResponseCells(d)'
      BY <2>3 DEF TypeOK, Request, PutData, caller, buffer, queues,
           Turns, RequestCells, ResponseCells, Counts,
           Serving, Answered, Writing, Waiting, JobPCs
    <3>4. Counts(d)'
      <4>1. /\ job.pc = "putData" /\ job'.pc = "putLen"
            /\ job'.client = d /\ job' # Idle
        BY <2>3 DEF PutData, TypeOK, Request, Idle
      <4>2. UNCHANGED <<pc, calls, got, cState, served, answer>>
        BY <2>3 DEF PutData, caller
      <4> QED
        BY <4>1, <4>2 DEF Counts, Serving
    <3> QED
      BY <3>1, <3>2, <3>3, <3>4
  <2>4. CASE PutLen
    <3>1. Turns(d)'
      BY <2>4 DEF TypeOK, Request, PutLen, caller, buffer, queues,
           Turns, RequestCells, ResponseCells, Counts,
           Serving, Answered, Writing, Waiting, JobPCs
    <3>2. RequestCells(d)'
      BY <2>4 DEF TypeOK, Request, PutLen, caller, buffer, queues,
           Turns, RequestCells, ResponseCells, Counts,
           Serving, Answered, Writing, Waiting, JobPCs
    <3>3. ResponseCells(d)'
      BY <2>4 DEF TypeOK, Request, PutLen, caller, buffer, queues,
           Turns, RequestCells, ResponseCells, Counts,
           Serving, Answered, Writing, Waiting, JobPCs
    <3>4. Counts(d)'
      <4>1. /\ job.pc = "putLen" /\ job'.pc = "putState"
            /\ job'.client = d /\ job' # Idle
        BY <2>4 DEF PutLen, TypeOK, Request, Idle
      <4>2. UNCHANGED <<pc, calls, got, cState, served, answer>>
        BY <2>4 DEF PutLen, caller
      <4> QED
        BY <4>1, <4>2 DEF Counts, Serving
    <3> QED
      BY <3>1, <3>2, <3>3, <3>4
  <2>5. CASE PutState
    <3>1. Turns(d)'
      <4>1. /\ job.pc = "putState" /\ job'.pc = "wake"
            /\ job'.client = d /\ job' # Idle
        BY <2>5 DEF PutState, TypeOK, Request, Idle
      <4>2. cState'[d] \in Answered /\ UNCHANGED <<pc, clients>>
        BY <2>5 DEF PutState, caller, TypeOK, Answered
      <4>3. d \in clients /\ cState[d] = "REQUEST"
        BY <4>1 DEF Turns, Serving, JobPCs
      <4> QED
        BY <4>1, <4>2, <4>3 DEF Turns, Serving, Answered, Writing, Waiting, JobPCs
    <3>2. RequestCells(d)'
      BY <2>5 DEF TypeOK, Request, PutState, caller, buffer, queues,
           Turns, RequestCells, ResponseCells, Counts,
           Serving, Answered, Writing, Waiting, JobPCs
    <3>3. ResponseCells(d)'
      BY <2>5 DEF TypeOK, Request, PutState, caller, buffer, queues,
           Turns, RequestCells, ResponseCells, Counts,
           Serving, Answered, Writing, Waiting, JobPCs
    <3>4. Counts(d)'
      BY <2>5 DEF TypeOK, Request, PutState, caller, buffer, queues,
           Turns, RequestCells, ResponseCells, Counts,
           Serving, Answered, Writing, Waiting, JobPCs
    <3> QED
      BY <3>1, <3>2, <3>3, <3>4
  <2>6. CASE Wake
    <3>1. Turns(d)'
      BY <2>6 DEF TypeOK, Request, Wake, caller, buffer, queues,
           Turns, RequestCells, ResponseCells, Counts,
           Serving, Answered, Writing, Waiting, JobPCs
    <3>2. RequestCells(d)'
      BY <2>6 DEF TypeOK, Request, Wake, caller, buffer, queues,
           Turns, RequestCells, ResponseCells, Counts,
           Serving, Answered, Writing, Waiting, JobPCs
    <3>3. ResponseCells(d)'
      BY <2>6 DEF TypeOK, Request, Wake, caller, buffer, queues,
           Turns, RequestCells, ResponseCells, Counts,
           Serving, Answered, Writing, Waiting, JobPCs
    <3>4. Counts(d)'
      BY <2>6 DEF TypeOK, Request, Wake, caller, buffer, queues,
           Turns, RequestCells, ResponseCells, Counts,
           Serving, Answered, Writing, Waiting, JobPCs
    <3> QED
      BY <3>1, <3>2, <3>3, <3>4
  <2> QED
    BY <2>1, <2>2, <2>3, <2>4, <2>5, <2>6
<1> QED
  BY <1>3, <1>4

\* The handshake is kept by every step and holds from the start.
THEOREM HandshakeKept == Spec => []Handshake
<1>1. Init => Handshake
  <2> SUFFICES ASSUME Init, NEW c \in Clients
               PROVE  Turns(c) /\ RequestCells(c) /\ ResponseCells(c) /\ Counts(c)
    BY DEF Handshake
  <2>1. /\ pc[c] = "unborn" /\ cState[c] = "IDLE" /\ job = Idle
        /\ calls[c] = 0 /\ served[c] = 0 /\ got[c].len = 0
    BY DEF Init
  <2> QED
    BY <2>1 DEF Turns, RequestCells, ResponseCells, Counts, Serving,
         Answered, Writing, Waiting
<1>2. TypeOK /\ Handshake /\ [Next]_vars => Handshake'
  <2> SUFFICES ASSUME TypeOK, Handshake, [Next]_vars, NEW d \in Clients
               PROVE  Client(d)'
    BY DEF Handshake, Client
  <2>1. CASE UNCHANGED vars
    BY <2>1, Untouched DEF Handshake, Client, vars, caller, buffer, queues, server
  <2>2. ASSUME NEW c \in Clients,
               Attach(c) \/ Kill(c) \/ Message(c) \/ RestoreRejected(c)
        PROVE  Client(d)'
    BY <2>2, MessageHandshake
  <2>3. ASSUME NEW c \in Clients, Caller(c) PROVE Client(d)'
    BY <2>3, CallerHandshake
  <2>4. CASE ReadRequest \/ Run \/ PutData \/ PutLen \/ PutState \/ Wake
    BY <2>4, ServiceHandshake
  <2> QED
    BY <2>1, <2>2, <2>3, <2>4 DEF Next, Servicer, Terminated
<1> QED
  BY <1>1, <1>2, TypeCorrect, PTL DEF Spec

-----------------------------------------------------------------------------
(* What follows from it.                                                    *)

\* The servicer writes a live caller's buffer only inside that caller's wait.
THEOREM ExclusiveAccess == Spec => []Exclusive
<1>1. TypeOK /\ Handshake => Exclusive
  <2> SUFFICES ASSUME TypeOK, Handshake, NEW c \in Clients,
                      job # Idle, job.client = c, job.pc # "wake", pc[c] # "dead"
               PROVE  pc[c] \in Waiting /\ cState[c] = "REQUEST"
    BY DEF Exclusive
  <2>1. Serving(c, JobPCs \ {"wake"})
    BY DEF TypeOK, Request, Serving
  <2>2. cState[c] = "REQUEST"
    BY <2>1 DEF Handshake, Turns
  <2> QED
    BY <2>2 DEF Handshake, Turns, TypeOK, PCs, Writing, Waiting, Answered
<1> QED
  BY <1>1, TypeCorrect, HandshakeKept, PTL

\* What the servicer carries out is one request, whole.
THEOREM RequestsAreWhole == Spec => []WholeRequest
<1>1. TypeOK /\ Handshake => WholeRequest
  BY DEF TypeOK, Request, Handshake, RequestCells, Serving, WholeRequest
<1> QED
  BY <1>1, TypeCorrect, HandshakeKept, PTL

\* A returned call was carried out once and returned its own answer.
THEOREM AnswersMatch == Spec => []AnswersItsRequest
<1>1. TypeOK /\ Handshake => AnswersItsRequest
  <2> SUFFICES ASSUME TypeOK, Handshake, NEW c \in Clients
               PROVE  /\ served[c] \in {calls[c], calls[c] - 1}
                      /\ pc[c] \in {"reset", "idle"} /\ calls[c] > 0 =>
                           /\ served[c] = calls[c]
                           /\ got[c].len = calls[c]
                           /\ got[c].data = [kind |-> "response", call |-> calls[c],
                                             body |-> answer[c]]
                           /\ got[c].ok <=> answer[c] = "value"
    BY DEF AnswersItsRequest
  <2>1. Turns(c) /\ Counts(c)
    BY DEF Handshake
  <2>2. served[c] \in {calls[c], calls[c] - 1}
    BY <2>1 DEF Counts, TypeOK
  <2>3. pc[c] \in {"reset", "idle"} => served[c] = calls[c]
    BY <2>1 DEF Turns, Counts
  <2> QED
    BY <2>1, <2>2, <2>3 DEF Counts
<1> QED
  BY <1>1, TypeCorrect, HandshakeKept, PTL

\* No wake-up falls between a caller's last look and its going to sleep.
THEOREM WakeupsArrive == Spec => []NoLostWakeup
<1>1. Handshake => NoLostWakeup
  BY DEF Handshake, Turns, Serving, NoLostWakeup
<1> QED
  BY <1>1, HandshakeKept, PTL

\* An unregistered client's request is not carried out.
THEOREM UnregisteredIsSilent == Spec => NoServiceAfterUnregister
<1>1. TypeOK /\ Handshake /\ [Next]_vars
        => [\A c \in Clients : served'[c] # served[c] => c \in clients]_vars
  <2> SUFFICES ASSUME TypeOK, Handshake, Next, NEW c \in Clients, served'[c] # served[c]
               PROVE  c \in clients
    OBVIOUS
  <2>1. Run
    BY DEF Next, Caller, Servicer, Message, Terminated, Attach, Kill, RestoreRejected,
           PutRequest, StoreOpcode, StoreReqLen, Publish, Ring, Check, Park, Take, Reset,
           Register, Unregister, Doorbell, Restored, ReadRequest, PutData, PutLen,
           PutState, Wake, vars, server
  <2>2. job.pc = "run" /\ served' = [served EXCEPT ![job.client] = @ + 1]
    BY <2>1 DEF Run
  <2>3. job # Idle /\ job \in Request
    BY <2>2 DEF Idle, TypeOK
  <2>4. job.client = c
    BY <2>2, <2>3 DEF TypeOK, Request
  <2> QED
    BY <2>2, <2>3, <2>4 DEF Handshake, Turns, Serving, JobPCs
<1> QED
  BY <1>1, TypeCorrect, HandshakeKept, PTL DEF Spec, NoServiceAfterUnregister

-----------------------------------------------------------------------------
(* Refinement.  Dead, Returned and Result are what the mapping makes of the *)
(* bridge's variables.                                                      *)

Dead     == {c \in Clients : pc[c] = "dead"}
Returned == [c \in Clients |-> got[c].len]
Result   == [c \in Clients |-> got[c].data.body]

\* A step that starts, carries out, returns and kills nothing is a stutter.
LEMMA Stutters ==
  ASSUME UNCHANGED <<calls, served, answer, got>>, Dead' = Dead
  PROVE  UNCHANGED Rpc!rpcVars
BY DEF Rpc!rpcVars, Dead

\* The caller's thread: its first step is a call, its last load a return.
LEMMA CallerRefines ==
  ASSUME TypeOK, Handshake, NEW c \in Clients, Caller(c)
  PROVE  [Rpc!RpcNext]_Rpc!rpcVars
<1>1. Turns(c) /\ ResponseCells(c) /\ Counts(c)
  BY DEF Handshake
<1>2. pc[c] # "dead" /\ pc'[c] # "dead" /\ Dead' = Dead
  BY DEF TypeOK, Dead, Caller, PutRequest, StoreOpcode, StoreReqLen, Publish, Ring,
         Check, Park, Take, Reset, Step
<1>3. CASE PutRequest(c)
  <2>1. Returned[c] = calls[c]
    BY <1>1, <1>3 DEF PutRequest, Step, Counts, Returned
  <2>2. /\ calls[c] < MaxCalls
        /\ calls' = [calls EXCEPT ![c] = @ + 1]
        /\ UNCHANGED <<served, answer, got>>
    BY <1>3 DEF PutRequest, server
  <2>3. Rpc!Call(c)
    BY <1>2, <2>1, <2>2 DEF Rpc!Call, Dead, Returned
  <2> QED
    BY <2>3 DEF Rpc!RpcNext
<1>4. CASE Take(c)
  <2>1. /\ cResLen[c] = calls[c] /\ cData[c].body = answer[c]
        /\ served[c] = calls[c] /\ got[c].len + 1 = calls[c]
    BY <1>1, <1>4 DEF Take, Step, Turns, ResponseCells, Counts
  <2>2. got' = [got EXCEPT ![c] = [ok |-> cState[c] # "RESPONSE_ERR",
                                   len |-> cResLen[c], data |-> cData[c]]]
    BY <1>4 DEF Take
  <2>3. Returned' = [Returned EXCEPT ![c] = @ + 1]
    BY <2>1, <2>2 DEF TypeOK, Returned
  <2>4. Result' = [Result EXCEPT ![c] = answer[c]]
    BY <2>1, <2>2 DEF TypeOK, Result
  <2>5. Returned[c] < calls[c]
    BY <2>1 DEF TypeOK, Returned
  <2>6. UNCHANGED <<calls, served, answer>>
    BY <1>4 DEF Take, server
  <2>7. Rpc!Return(c)
    BY <1>2, <2>1, <2>3, <2>4, <2>5, <2>6 DEF Rpc!Return, Dead, Returned, Result
  <2> QED
    BY <2>7 DEF Rpc!RpcNext
<1>5. ASSUME ~PutRequest(c), ~Take(c) PROVE UNCHANGED Rpc!rpcVars
  <2>1. UNCHANGED <<calls, served, answer, got>>
    BY <1>5 DEF Caller, StoreOpcode, StoreReqLen, Publish, Ring, Check, Park, Reset,
                server
  <2> QED
    BY <1>2, <2>1, Stutters
<1> QED
  BY <1>3, <1>4, <1>5

\* The servicer's thread: the handler's run is the execution.
LEMMA ServiceRefines ==
  ASSUME TypeOK, Handshake,
         ReadRequest \/ Run \/ PutData \/ PutLen \/ PutState \/ Wake
  PROVE  [Rpc!RpcNext]_Rpc!rpcVars
<1>1. Dead' = Dead
  BY DEF TypeOK, Dead, ReadRequest, Run, PutData, PutLen, PutState, Wake, caller
<1>2. CASE Run
  <2>1. PICK c \in Clients : job.client = c /\ Serving(c, {"run"})
    <3>1. job.pc = "run"
      BY <1>2 DEF Run
    <3>2. job # Idle /\ job \in Request
      BY <3>1 DEF Idle, TypeOK
    <3> QED
      BY <3>1, <3>2 DEF Request, Serving
  <2>2. served[c] < calls[c]
    <3>1. cState[c] = "REQUEST"
      BY <2>1 DEF Handshake, Turns, Serving, JobPCs
    <3>2. ~Serving(c, {"putData", "putLen", "putState"})
      BY <2>1 DEF Serving
    <3>3. served[c] + 1 = calls[c]
      BY <3>1, <3>2 DEF Handshake, Counts
    <3> QED
      BY <3>3 DEF TypeOK
  <2>3. /\ served' = [served EXCEPT ![c] = @ + 1]
        /\ \E a \in Answers : answer' = [answer EXCEPT ![c] = a]
        /\ UNCHANGED <<calls, got>>
    BY <1>2, <2>1 DEF Run, Outcomes, Answers, caller
  <2>4. Rpc!Execute(c)
    BY <1>1, <2>2, <2>3 DEF Rpc!Execute, Dead
  <2> QED
    BY <2>4 DEF Rpc!RpcNext
<1>3. ASSUME ~Run PROVE UNCHANGED Rpc!rpcVars
  <2>1. UNCHANGED <<calls, served, answer, got>>
    BY <1>3 DEF ReadRequest, PutData, PutLen, PutState, Wake, caller
  <2> QED
    BY <1>1, <2>1, Stutters
<1> QED
  BY <1>2, <1>3

\* The kernel and the event loop: a kill is a death, the rest is invisible.
LEMMA MessageRefines ==
  ASSUME TypeOK, NEW c \in Clients,
         Attach(c) \/ Kill(c) \/ Message(c) \/ RestoreRejected(c)
  PROVE  [Rpc!RpcNext]_Rpc!rpcVars
<1>1. UNCHANGED <<calls, served, answer, got>>
  BY DEF Attach, Kill, Message, RestoreRejected, Register, Unregister, Doorbell,
         Restored, caller, server
<1>2. CASE Kill(c) /\ pc[c] # "dead"
  <2>1. Dead' = Dead \cup {c} /\ c \notin Dead
    BY <1>2 DEF TypeOK, Kill, Dead
  <2>2. Rpc!Die(c)
    BY <1>1, <2>1 DEF Rpc!Die, Dead
  <2> QED
    BY <2>2 DEF Rpc!RpcNext
<1>3. ASSUME ~Kill(c) PROVE Dead' = Dead
  BY <1>3 DEF TypeOK, Dead, Attach, Message, RestoreRejected, Register, Unregister,
       Doorbell, Restored, caller
<1> QED
  BY <1>1, <1>2, <1>3, Stutters DEF Kill

\* The bridge implements the remote procedure call (safety part).
THEOREM BridgeImplementsRpc == Spec => ImplementsRpc
<1>1. Init => Rpc!RpcInit
  BY DEF Init, Rpc!RpcInit, NoData
<1>2. TypeOK /\ Handshake /\ [Next]_vars => [Rpc!RpcNext]_Rpc!rpcVars
  <2> SUFFICES ASSUME TypeOK, Handshake, [Next]_vars
               PROVE  [Rpc!RpcNext]_Rpc!rpcVars
    OBVIOUS
  <2>1. CASE UNCHANGED vars
    BY <2>1, Stutters DEF vars, caller, server, Dead
  <2>2. ASSUME NEW c \in Clients,
               Attach(c) \/ Kill(c) \/ Message(c) \/ RestoreRejected(c)
        PROVE  [Rpc!RpcNext]_Rpc!rpcVars
    BY <2>2, MessageRefines
  <2>3. ASSUME NEW c \in Clients, Caller(c) PROVE [Rpc!RpcNext]_Rpc!rpcVars
    BY <2>3, CallerRefines
  <2>4. CASE ReadRequest \/ Run \/ PutData \/ PutLen \/ PutState \/ Wake
    BY <2>4, ServiceRefines
  <2> QED
    BY <2>1, <2>2, <2>3, <2>4 DEF Next, Servicer, Terminated
<1> QED
  BY <1>1, <1>2, TypeCorrect, HandshakeKept, PTL DEF Spec, ImplementsRpc, Rpc!RpcSpec
=============================================================================
