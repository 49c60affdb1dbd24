----------------------------- MODULE WebSocket -----------------------------
(***************************************************************************)
(* What a page may expect of a WebSocket: messages arrive in the order in  *)
(* which they were sent and once, none after the socket has closed; it     *)
(* closes once; and a clean close means that what was sent by whoever      *)
(* began it has arrived.  Messages are numbered in each direction.         *)
(***************************************************************************)
EXTENDS Naturals, Sequences

VARIABLES state,      \* readyState: connecting, open, closing or closed
          outcome,    \* how it closed: none, clean, failed, or the page left
          sentUp,     \* messages the page has sent
          gotUp,      \* what the server has received
          sentDown,   \* messages the server has sent
          gotDown,    \* what the page has received
          serverEnds  \* the server began to close

up == <<sentUp, gotUp>>
down == <<sentDown, gotDown>>
vars == <<state, outcome, up, down, serverEnds>>

Init ==
  /\ state = "connecting" /\ outcome = "none"
  /\ sentUp = 0 /\ sentDown = 0
  /\ gotUp = <<>> /\ gotDown = <<>>
  /\ serverEnds = FALSE

Opens ==
  /\ state = "connecting" /\ state' = "open"
  /\ UNCHANGED <<outcome, up, down, serverEnds>>

PageSends ==
  /\ state = "open"
  /\ sentUp' = sentUp + 1
  /\ UNCHANGED <<state, outcome, gotUp, down, serverEnds>>

ServerGets ==
  /\ Len(gotUp) < sentUp
  /\ gotUp' = Append(gotUp, Len(gotUp) + 1)
  /\ UNCHANGED <<state, outcome, sentUp, down, serverEnds>>

\* It may write before the page knows that the socket is open, and until it
\* knows that it is not.
ServerSends ==
  /\ ~serverEnds
  /\ sentDown' = sentDown + 1
  /\ UNCHANGED <<state, outcome, up, gotDown, serverEnds>>

PageGets ==
  /\ state = "open"
  /\ Len(gotDown) < sentDown
  /\ gotDown' = Append(gotDown, Len(gotDown) + 1)
  /\ UNCHANGED <<state, outcome, up, sentDown, serverEnds>>

ServerBeginsToClose ==
  /\ ~serverEnds /\ serverEnds' = TRUE
  /\ UNCHANGED <<state, outcome, up, down>>

PageCloses ==
  /\ state \in {"connecting", "open"} /\ state' = "closing"
  /\ UNCHANGED <<outcome, up, down, serverEnds>>

Closes(how) ==
  /\ state # "closed" /\ state' = "closed"
  /\ outcome' = how
  /\ UNCHANGED <<up, down, serverEnds>>

\* Whoever began has been heard.
ClosesCleanly ==
  /\ \/ state = "closing" /\ Len(gotUp) = sentUp
     \/ serverEnds /\ (state = "closing" \/ Len(gotDown) = sentDown)
  /\ Closes("clean")

Fails == Closes("failed")

PageLeaves == Closes("left")

Next ==
  \/ Opens \/ PageSends \/ ServerGets \/ ServerSends \/ PageGets
  \/ ServerBeginsToClose \/ PageCloses \/ ClosesCleanly \/ Fails \/ PageLeaves

Spec == Init /\ [][Next]_vars
=============================================================================
