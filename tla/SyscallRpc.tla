----------------------------- MODULE SyscallRpc -----------------------------
(***************************************************************************)
(* What the bridge promises to guest code: a remote procedure call.  A     *)
(* client has at most one call outstanding, the servicer carries it out    *)
(* once, the call returns that request's answer, and a client may die at   *)
(* any moment.  No buffer, no doorbell, no waiting.                        *)
(***************************************************************************)
EXTENDS Naturals

CONSTANTS Clients, MaxCalls, Answers

VARIABLES started,   \* started[c]: calls begun
          executed,  \* executed[c]: requests carried out
          answered,  \* answered[c]: the last one's answer
          returned,  \* returned[c]: calls that came back
          result,    \* result[c]: what the last of them returned
          dead       \* clients that were killed

rpcVars == <<started, executed, answered, returned, result, dead>>

RpcInit ==
  /\ started = [c \in Clients |-> 0]
  /\ executed = [c \in Clients |-> 0]
  /\ answered = [c \in Clients |-> "value"]
  /\ returned = [c \in Clients |-> 0]
  /\ result = [c \in Clients |-> "none"]
  /\ dead = {}

Call(c) ==
  /\ c \notin dead
  /\ returned[c] = started[c]
  /\ started[c] < MaxCalls
  /\ started' = [started EXCEPT ![c] = @ + 1]
  /\ UNCHANGED <<executed, answered, returned, result, dead>>

Execute(c) ==
  /\ executed[c] < started[c]
  /\ executed' = [executed EXCEPT ![c] = @ + 1]
  /\ \E a \in Answers : answered' = [answered EXCEPT ![c] = a]
  /\ UNCHANGED <<started, returned, result, dead>>

Return(c) ==
  /\ c \notin dead
  /\ returned[c] < started[c] /\ executed[c] = started[c]
  /\ returned' = [returned EXCEPT ![c] = @ + 1]
  /\ result' = [result EXCEPT ![c] = answered[c]]
  /\ UNCHANGED <<started, executed, answered, dead>>

Die(c) ==
  /\ c \notin dead
  /\ dead' = dead \cup {c}
  /\ UNCHANGED <<started, executed, answered, returned, result>>

RpcNext == \E c \in Clients : Call(c) \/ Execute(c) \/ Return(c) \/ Die(c)

RpcSpec == RpcInit /\ [][RpcNext]_rpcVars

RpcFairSpec ==
  /\ RpcSpec
  /\ \A c \in Clients : /\ WF_rpcVars(c \notin dead /\ Execute(c))
                        /\ WF_rpcVars(Return(c))
=============================================================================
