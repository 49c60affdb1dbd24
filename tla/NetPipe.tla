------------------------------ MODULE NetPipe ------------------------------
(***************************************************************************)
(* What a TCP connection promises, whoever carries its bytes: two ends,    *)
(* and towards each end a pipe that keeps the order in which the other end *)
(* wrote.  Nothing is lost but the tail of what a dead writer wrote and    *)
(* nobody has read, nothing is added, and nothing but another end of file  *)
(* follows an end of file.                                                 *)
(***************************************************************************)
EXTENDS Naturals, Sequences

CONSTANTS Ends,   \* the ends of all connections
          Peer,   \* Peer[e]: the end across from e
          Chunks, \* what can be written
          EOF

VARIABLES end,  \* end[e]: none, waiting, open, finished (half-closed) or gone
          pipe  \* pipe[e]: what is on its way to e

vars == <<end, pipe>>

Init == /\ end = [e \in Ends |-> "none"]
        /\ pipe = [e \in Ends |-> <<>>]

\* Nothing is kept for an end that is gone.
Put(e, item) == IF end[e] = "gone" THEN pipe
                ELSE [pipe EXCEPT ![e] = Append(@, item)]

Connect(e) ==
  /\ end[e] = "none" /\ end[Peer[e]] = "none"
  /\ end' = [end EXCEPT ![e] = "waiting", ![Peer[e]] = "waiting"]
  /\ UNCHANGED pipe

Attach(e) ==
  /\ end[e] = "waiting"
  /\ end' = [end EXCEPT ![e] = "open"]
  /\ UNCHANGED pipe

\* An end nobody came for: given up while it waited.
Vanish(e) ==
  /\ end[e] = "waiting"
  /\ end' = [end EXCEPT ![e] = "gone"]
  /\ pipe' = [pipe EXCEPT ![e] = <<>>]

Write(e) ==
  /\ end[e] = "open"
  /\ \E c \in Chunks : pipe' = Put(Peer[e], c)
  /\ UNCHANGED end

Finish(e) ==
  /\ end[e] = "open"
  /\ end' = [end EXCEPT ![e] = "finished"]
  /\ pipe' = Put(Peer[e], EOF)

Leave(e) ==
  /\ end[e] \in {"open", "finished"}
  /\ end' = [end EXCEPT ![e] = "gone"]
  /\ pipe' = [Put(Peer[e], EOF) EXCEPT ![e] = <<>>]

Read(e) ==
  /\ end[e] \in {"open", "finished"}
  /\ \E k \in 1..Len(pipe[e]) :
       pipe' = [pipe EXCEPT ![e] = SubSeq(@, k + 1, Len(@))]
  /\ UNCHANGED end

\* The ends in D die with their process: each survivor that has not been told
\* sees the end of file after what arrives, and that may be any prefix of what
\* was under way (how much was handed over is not said here).
Die(D) ==
  /\ end' = [e \in Ends |-> IF e \in D THEN "gone" ELSE end[e]]
  /\ \A e \in Ends :
       \/ e \in D /\ pipe'[e] = <<>>
       \/ e \notin D /\ pipe'[e] = pipe[e]
       \/ /\ e \notin D /\ Peer[e] \in D
          /\ \E k \in 0..Len(pipe[e]) :
               pipe'[e] = Append(SubSeq(pipe[e], 1, k), EOF)

Next == \/ \E e \in Ends : \/ Connect(e) \/ Attach(e) \/ Vanish(e)
                           \/ Write(e) \/ Finish(e) \/ Leave(e) \/ Read(e)
        \/ \E D \in SUBSET Ends : Die(D)

Spec == Init /\ [][Next]_vars
=============================================================================
