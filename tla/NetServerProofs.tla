-------------------------- MODULE NetServerProofs --------------------------
(***************************************************************************)
(* Proofs about the virtual network, for every finite set of processes,    *)
(* every set of ports and any number of connections and writes.            *)
(***************************************************************************)
EXTENDS NetServer, FiniteSetTheorems, SequenceTheorems, WellFoundedInduction, TLAPS

-----------------------------------------------------------------------------
(* Queues and records.                                                      *)

\* A set of numbers that is not empty has a least one.
LEMMA Least ==
  ASSUME NEW T \in SUBSET Nat, T # {}
  PROVE  \E n \in T : \A m \in T : n <= m
<1> DEFINE below == {pair \in Nat \X Nat : pair[1] < pair[2]}
<1>1. IsWellFoundedOn(below, Nat)
  BY NatLessThanWellFounded DEF OpToRel
<1>2. PICK n \in T : \A m \in T : ~(<<m, n>> \in below)
  BY <1>1, WFMin
<1>3. \A m \in T : ~(m < n)
  BY <1>2
<1>4. \A m \in T : n <= m
  BY <1>3
<1> QED
  BY <1>2, <1>4

\* What a message more does to a queue.
LEMMA AtEnd ==
  ASSUME NEW S, NEW q \in Seq(S), NEW m \in S
  PROVE  /\ q \o <<m>> \in Seq(S) /\ Len(q \o <<m>>) = Len(q) + 1
         /\ \A i \in 1..Len(q) : (q \o <<m>>)[i] = q[i]
         /\ (q \o <<m>>)[Len(q) + 1] = m
         /\ q \o <<m>> = Append(q, m)
OBVIOUS

\* What taking the first message does to a queue.
LEMMA FromFront ==
  ASSUME NEW S, NEW q \in Seq(S), q # <<>>
  PROVE  /\ Tail(q) \in Seq(S) /\ Len(Tail(q)) = Len(q) - 1
         /\ \A i \in 1..Len(q) - 1 : Tail(q)[i] = q[i + 1]
         /\ Head(q) = q[1] /\ Head(q) \in S /\ Len(q) \in Nat \ {0}
OBVIOUS

\* The fields of a message, by its type.
LEMMA MessageFields ==
  ASSUME NEW m \in Messages
  PROVE  /\ m.type \in {"release", "connect", "data", "shutdown", "close", "exit"}
         /\ m.type = "release" => m.proto \in Protos /\ m.port \in AllPorts
         /\ m.type = "connect" => m.ticket \in Tickets /\ m.port \in AllPorts
         /\ m.type = "data" => m.id \in Ids /\ m.chunk \in Chunks
         /\ m.type \in {"shutdown", "close"} => m.id \in Ids
BY DEF Messages

\* The fields of an event, by its type.
LEMMA EventFields ==
  ASSUME NEW e \in Events
  PROVE  /\ e.type \in {"result", "incoming", "data", "eof", "close"}
         /\ e.type = "result" => e.ticket \in Tickets /\ e.port \in AllPorts /\ e.id \in Ids \cup {0}
         /\ e.type = "incoming" => e.id \in Ids /\ e.port \in AllPorts
         /\ e.type = "data" => e.id \in Ids /\ e.chunk \in Chunks
         /\ e.type \in {"eof", "close"} => e.id \in Ids
BY DEF Events

\* What a handle becomes is a handle.
LEMMA SocketMoves ==
  ASSUME NEW s \in Sockets, NEW b \in BOOLEAN, NEW st \in {"none", "open", "closed"},
         NEW port \in AllPorts \cup {0}
  PROVE  /\ [s EXCEPT !.fin = TRUE] \in Sockets
         /\ [s EXCEPT !.reading = b] \in Sockets
         /\ [s EXCEPT !.known = b] \in Sockets
         /\ [s EXCEPT !.state = "closed", !.known = FALSE, !.queue = <<>>] \in Sockets
         /\ s.wrote < MaxWrites => [s EXCEPT !.wrote = @ + 1] \in Sockets
         /\ NoSock \in Sockets
         /\ [NoSock EXCEPT !.state = st, !.known = TRUE, !.port = port] \in Sockets
<1>1. s.wrote < MaxWrites => s.wrote + 1 \in 0..MaxWrites
  BY NetAssumption DEF Sockets
<1>2. 0 \in 0..MaxWrites
  BY NetAssumption
<1>3. <<>> \in Seq(Chunks \cup {EOF})
  OBVIOUS
<1>4. s.wrote < MaxWrites => [s EXCEPT !.wrote = @ + 1] \in Sockets
  BY <1>1 DEF Sockets
<1>5. [s EXCEPT !.fin = TRUE] \in Sockets
  BY DEF Sockets
<1>6. [s EXCEPT !.reading = b] \in Sockets
  BY DEF Sockets
<1>7. [s EXCEPT !.known = b] \in Sockets
  BY DEF Sockets
<1>8. [s EXCEPT !.state = "closed", !.known = FALSE, !.queue = <<>>] \in Sockets
  BY <1>3 DEF Sockets
<1>9. NoSock \in Sockets
  BY <1>2, <1>3 DEF Sockets, NoSock
<1>10. [NoSock EXCEPT !.state = st, !.known = TRUE, !.port = port] \in Sockets
  BY <1>2, <1>3 DEF Sockets, NoSock
<1> QED
  BY <1>4, <1>5, <1>6, <1>7, <1>8, <1>9, <1>10

\* Draining keeps a handle a handle.
LEMMA DrainMoves ==
  ASSUME NEW s \in Sockets
  PROVE  Drain(s) \in Sockets
<1>1. <<>> \in Seq(Chunks \cup {EOF})
  OBVIOUS
<1>2. [s EXCEPT !.queue = <<>>] \in Sockets
  BY <1>1 DEF Sockets
<1> QED
  BY <1>2 DEF Drain

\* So does an item pushed at it.
LEMMA PushMoves ==
  ASSUME NEW s \in Sockets, NEW item \in Chunks \cup {EOF}
  PROVE  Push(s, item) \in Sockets
<1> DEFINE t == [s EXCEPT !.queue = Append(@, item), !.ended = @ \/ item = EOF]
<1>1. Append(s.queue, item) \in Seq(Chunks \cup {EOF})
  BY DEF Sockets
<1>2. (s.ended \/ item = EOF) \in BOOLEAN
  OBVIOUS
<1>3. t \in Sockets
  BY <1>1, <1>2 DEF Sockets
<1> HIDE DEF t
<1>4. Drain(t) \in Sockets
  BY <1>3, DrainMoves
<1> QED
  BY <1>4 DEF Push, t

-----------------------------------------------------------------------------
(* Invariants.                                                              *)

Named(m) == <<m.proto, m.port>>

\* A process that is gone has nothing under way and nothing that listens.
GoneIsGone == \A p \in Procs : ~Alive(p) => up[p] = <<>> /\ servers[p] = {}

HasAsk(u, t) == \E i \in 1..Len(u) : u[i].type = "connect" /\ u[i].ticket = t

\* A ticket under way to the kernel is one of a pending connect, and is under
\* way once.
AskedIn(u, pe) ==
  \A i \in 1..Len(u) : u[i].type = "connect" =>
    /\ pe[u[i].ticket] \in {"open", "closed"}
    /\ \A j \in 1..Len(u) : u[j].type = "connect" /\ u[j].ticket = u[i].ticket => j = i

\* So is one on its way back, and it is not under way to the kernel any more.
AnsweredIn(d, u, pe) ==
  \A i \in 1..Len(d) : d[i].type = "result" =>
    /\ pe[d[i].ticket] \in {"open", "closed"}
    /\ ~HasAsk(u, d[i].ticket)
    /\ \A j \in 1..Len(d) : d[j].type = "result" /\ d[j].ticket = d[i].ticket => j = i

TicketsAsked == \A p \in Procs : AskedIn(up[p], pending[p])
TicketsAnswered == \A p \in Procs : AnsweredIn(down[p], up[p], pending[p])

\* There are ids for every connect under way.
Room == nextConn >= 1 /\ nextConn + 2 * Cardinality(Asked) <= 2 * MaxConns + 1

\* Everything about tickets and types, which is inductive together.
Typed == TypeOK /\ GoneIsGone /\ TicketsAsked /\ TicketsAnswered /\ Room

\* The asks are finitely many.
LEMMA AskedFinite == IsFiniteSet(Asked)
<1>1. IsFiniteSet(Tickets)
  BY FS_Interval, NetAssumption DEF Tickets
<1>2. IsFiniteSet(Procs \X Tickets)
  BY <1>1, FS_Product, NetAssumption
<1>3. Asked \in SUBSET (Procs \X Tickets)
  BY DEF Asked
<1> QED
  BY <1>2, <1>3, FS_Subset

-----------------------------------------------------------------------------
(* What the helpers of the actions do.                                      *)

\* Post puts one message behind the others of one process.
LEMMA PostDoes ==
  ASSUME TypeOK, NEW p \in Procs, NEW m \in Messages, Post(p, <<m>>)
  PROVE  /\ up' \in [Procs -> Seq(Messages)]
         /\ \A q \in Procs : q # p => up'[q] = up[q]
         /\ Len(up[p]) \in Nat /\ Len(up'[p]) = Len(up[p]) + 1
         /\ \A i \in 1..Len(up[p]) : up'[p][i] = up[p][i]
         /\ up'[p][Len(up[p]) + 1] = m
<1>1. up \in [Procs -> Seq(Messages)] /\ up[p] \in Seq(Messages)
  BY DEF TypeOK
<1>2. up[p] \o <<m>> \in Seq(Messages) /\ Len(up[p] \o <<m>>) = Len(up[p]) + 1
      /\ (\A i \in 1..Len(up[p]) : (up[p] \o <<m>>)[i] = up[p][i])
      /\ (up[p] \o <<m>>)[Len(up[p]) + 1] = m
  BY <1>1, AtEnd
<1>3. up'[p] = up[p] \o <<m>> /\ \A q \in Procs : q # p => up'[q] = up[q]
  BY <1>1 DEF Post
<1>4. up' \in [Procs -> Seq(Messages)]
  BY <1>1, <1>2 DEF Post
<1>5. Len(up[p]) \in Nat
  BY <1>1
<1> QED
  BY <1>2, <1>3, <1>4, <1>5

\* The kernel takes the first message of one process.
LEMMA TakeDoes ==
  ASSUME TypeOK, NEW p \in Procs, up[p] # <<>>, up' = [up EXCEPT ![p] = Tail(@)]
  PROVE  /\ up' \in [Procs -> Seq(Messages)]
         /\ \A q \in Procs : q # p => up'[q] = up[q]
         /\ Len(up[p]) \in Nat \ {0} /\ Len(up'[p]) = Len(up[p]) - 1
         /\ \A i \in 1..Len(up[p]) - 1 : up'[p][i] = up[p][i + 1]
         /\ Head(up[p]) = up[p][1] /\ Head(up[p]) \in Messages
<1>1. up \in [Procs -> Seq(Messages)] /\ up[p] \in Seq(Messages)
  BY DEF TypeOK
<1>2. Tail(up[p]) \in Seq(Messages) /\ Len(Tail(up[p])) = Len(up[p]) - 1
      /\ (\A i \in 1..Len(up[p]) - 1 : Tail(up[p])[i] = up[p][i + 1])
      /\ Head(up[p]) = up[p][1] /\ Head(up[p]) \in Messages /\ Len(up[p]) \in Nat \ {0}
  BY <1>1, FromFront
<1>3. up'[p] = Tail(up[p]) /\ \A q \in Procs : q # p => up'[q] = up[q]
  BY <1>1
<1>4. up' \in [Procs -> Seq(Messages)]
  BY <1>1, <1>2
<1> QED
  BY <1>2, <1>3, <1>4

\* d2 is d1 with events behind it that answer no connect, but for processes
\* whose events are dropped.
Told(d1, d2) ==
  /\ d2 \in [Procs -> Seq(Events)]
  /\ \A q \in Procs :
       \/ d2[q] = <<>>
       \/ /\ Len(d1[q]) <= Len(d2[q])
          /\ \A i \in 1..Len(d1[q]) : d2[q][i] = d1[q][i]
          /\ \A i \in 1..Len(d2[q]) : d2[q][i].type = "result" => i <= Len(d1[q])

\* Notify tells one process one thing.
LEMMA NotifyDoes ==
  ASSUME NEW d \in [Procs -> Seq(Events)], NEW p \in Procs, NEW e \in Events
  PROVE  /\ Notify(d, p, e) \in [Procs -> Seq(Events)]
         /\ \A q \in Procs : q # p => Notify(d, p, e)[q] = d[q]
         /\ Len(d[p]) \in Nat
         /\ \/ Notify(d, p, e)[p] = d[p]
            \/ /\ Len(Notify(d, p, e)[p]) = Len(d[p]) + 1
               /\ \A i \in 1..Len(d[p]) : Notify(d, p, e)[p][i] = d[p][i]
               /\ Notify(d, p, e)[p][Len(d[p]) + 1] = e
<1>1. d[p] \in Seq(Events)
  OBVIOUS
<1>2. Append(d[p], e) \in Seq(Events) /\ Len(Append(d[p], e)) = Len(d[p]) + 1
      /\ (\A i \in 1..Len(d[p]) : Append(d[p], e)[i] = d[p][i])
      /\ Append(d[p], e)[Len(d[p]) + 1] = e
  BY <1>1
<1>3. Len(d[p]) \in Nat
  BY <1>1
<1>4. CASE life[p] = "gone"
  BY <1>3, <1>4 DEF Notify
<1>5. CASE life[p] # "gone"
  <2>1. Notify(d, p, e) = [d EXCEPT ![p] = Append(@, e)]
    BY <1>5 DEF Notify
  <2> QED
    BY <2>1, <1>2, <1>3
<1> QED
  BY <1>4, <1>5

\* What is no result tells of no connect.
LEMMA NotifyTold ==
  ASSUME NEW d \in [Procs -> Seq(Events)], NEW p \in Procs, NEW e \in Events, e.type # "result"
  PROVE  Told(d, Notify(d, p, e))
<1>1. /\ Notify(d, p, e) \in [Procs -> Seq(Events)]
      /\ \A q \in Procs : q # p => Notify(d, p, e)[q] = d[q]
      /\ Len(d[p]) \in Nat
      /\ \/ Notify(d, p, e)[p] = d[p]
         \/ /\ Len(Notify(d, p, e)[p]) = Len(d[p]) + 1
            /\ \A i \in 1..Len(d[p]) : Notify(d, p, e)[p][i] = d[p][i]
            /\ Notify(d, p, e)[p][Len(d[p]) + 1] = e
  BY NotifyDoes
<1>2. \A q \in Procs : Len(d[q]) \in Nat
  OBVIOUS
<1> HIDE DEF Notify
<1>3. ASSUME NEW q \in Procs
      PROVE  /\ Len(d[q]) <= Len(Notify(d, p, e)[q])
             /\ \A i \in 1..Len(d[q]) : Notify(d, p, e)[q][i] = d[q][i]
             /\ \A i \in 1..Len(Notify(d, p, e)[q]) :
                  Notify(d, p, e)[q][i].type = "result" => i <= Len(d[q])
  <2>1. CASE Notify(d, p, e)[q] = d[q]
    BY <2>1, <1>2
  <2>2. CASE Notify(d, p, e)[q] # d[q]
    <3>1. q = p
      BY <2>2, <1>1
    <3>2. Len(Notify(d, p, e)[p]) = Len(d[p]) + 1
          /\ (\A i \in 1..Len(d[p]) : Notify(d, p, e)[p][i] = d[p][i])
          /\ Notify(d, p, e)[p][Len(d[p]) + 1] = e
      BY <2>2, <3>1, <1>1
    <3>3. \A i \in 1..Len(Notify(d, p, e)[p]) : i <= Len(d[p]) \/ i = Len(d[p]) + 1
      BY <3>2, <1>1
    <3> QED
      BY <3>1, <3>2, <3>3, <1>1
  <2> QED
    BY <2>1, <2>2
<1> QED
  BY <1>1, <1>3 DEF Told

\* A queue that is left alone is told nothing.
LEMMA NothingTold ==
  ASSUME TypeOK
  PROVE  Told(down, down)
<1>1. down \in [Procs -> Seq(Events)]
  BY DEF TypeOK
<1>2. \A q \in Procs : Len(down[q]) \in Nat
  BY <1>1
<1> QED
  BY <1>1, <1>2 DEF Told

-----------------------------------------------------------------------------
(* A set of ids can be put in order.                                        *)

Sorts(f, S, n) == /\ f \in [1..n -> S]
                  /\ \A i, j \in 1..n : i < j => f[i] < f[j]
Sortable(S) == \E f \in [1..Cardinality(S) -> S] : Sorts(f, S, Cardinality(S))

\* Ids are finitely many, and a set of them that is not empty has a greatest.
LEMMA IdSets ==
  ASSUME NEW S \in SUBSET Ids
  PROVE  /\ IsFiniteSet(S) /\ Cardinality(S) \in Nat
         /\ S # {} => \E m \in S : \A o \in S : o <= m
<1>1. 2 * MaxConns \in Nat
  BY NetAssumption
<1>2. IsFiniteSet(Ids)
  BY <1>1, FS_Interval DEF Ids
<1>3. IsFiniteSet(S)
  BY <1>2, FS_Subset
<1>4. Cardinality(S) \in Nat
  BY <1>3, FS_CardinalityType
<1>5. ASSUME S # {} PROVE \E m \in S : \A o \in S : o <= m
  <2> DEFINE T == {n \in Nat : \A o \in S : o <= n}
  <2>1. 2 * MaxConns \in T
    BY <1>1 DEF Ids
  <2>2. PICK n \in T : \A k \in T : n <= k
    BY <2>1, Least
  <2>3. n \in Nat /\ \A o \in S : o <= n /\ o \in Nat /\ o >= 1
    BY <2>2, <1>1 DEF Ids
  <2>4. CASE n \in S
    BY <2>3, <2>4
  <2>5. CASE n \notin S
    <3>1. \A o \in S : o <= n - 1
      BY <2>3, <2>5
    <3>2. n - 1 \in Nat
      BY <1>5, <2>3
    <3>3. n - 1 \in T
      BY <3>1, <3>2
    <3>4. n <= n - 1
      BY <3>3, <2>2
    <3> QED
      BY <3>4, <2>3
  <2> QED
    BY <2>4, <2>5
<1> QED
  BY <1>3, <1>4, <1>5

\* The greatest goes behind the others.
LEMMA SortOneMore ==
  ASSUME NEW S \in SUBSET Ids, NEW m \in S, \A o \in S : o <= m, Sortable(S \ {m})
  PROVE  Sortable(S)
<1> DEFINE n == Cardinality(S)
<1>1. IsFiniteSet(S) /\ n \in Nat
  BY IdSets
<1>2. Cardinality(S \ {m}) = n - 1
  BY <1>1, FS_RemoveElement
<1>3. PICK f \in [1..n - 1 -> S \ {m}] : Sorts(f, S \ {m}, n - 1)
  BY <1>2 DEF Sortable
<1> HIDE DEF n
<1> DEFINE g == [i \in 1..n |-> IF i = n THEN m ELSE f[i]]
<1>4. \A i \in 1..n : g[i] = (IF i = n THEN m ELSE f[i])
  OBVIOUS
<1>5. \A i \in 1..n : i # n => i \in 1..n - 1
  BY <1>1
<1>6. g \in [1..n -> S]
  BY <1>3, <1>5
<1> HIDE DEF g
<1>7. \A i \in 1..n - 1 : f[i] \in S \ {m}
  BY <1>3
<1>8. \A i \in 1..n - 1 : f[i] < m
  <2>1. \A o \in S \ {m} : o <= m /\ o # m /\ o \in Nat /\ m \in Nat
    BY NetAssumption DEF Ids
  <2>2. \A o \in S \ {m} : o < m
    BY <2>1
  <2> QED
    BY <2>2, <1>7
<1>9. ASSUME NEW i \in 1..n, NEW j \in 1..n, i < j PROVE g[i] < g[j]
  <2>1. i # n /\ i \in 1..n - 1
    BY <1>1, <1>9, <1>5
  <2>2. g[i] = f[i]
    BY <2>1, <1>4
  <2>3. CASE j = n
    BY <2>1, <2>2, <2>3, <1>4, <1>8
  <2>4. CASE j # n
    <3>1. j \in 1..n - 1 /\ g[j] = f[j]
      BY <2>4, <1>4, <1>5
    <3>2. f[i] < f[j]
      BY <3>1, <2>1, <1>3, <1>9 DEF Sorts
    <3> QED
      BY <3>1, <3>2, <2>2
  <2> QED
    BY <2>3, <2>4
<1>10. Sorts(g, S, n)
  BY <1>6, <1>9 DEF Sorts
<1> QED
  BY <1>6, <1>10 DEF Sortable, n

\* No least set without an order: every set of ids has one.
LEMMA EverySetSorts ==
  ASSUME NEW S \in SUBSET Ids
  PROVE  Sortable(S)
<1> DEFINE Unsorted == {n \in Nat : \E T \in SUBSET Ids : Cardinality(T) = n /\ ~Sortable(T)}
<1>1. CASE Unsorted = {}
  <2>1. Cardinality(S) \in Nat
    BY IdSets
  <2> QED
    BY <1>1, <2>1
<1>2. CASE Unsorted # {}
  <2>1. PICK n \in Unsorted : \A k \in Unsorted : n <= k
    BY <1>2, Least
  <2>2. PICK T \in SUBSET Ids : Cardinality(T) = n /\ ~Sortable(T)
    BY <2>1
  <2>3. CASE T = {}
    <3>1. Cardinality(T) = 0
      BY <2>3, FS_EmptySet
    <3>2. PICK f \in [1..0 -> T] : TRUE
      <4>1. [i \in 1..0 |-> 0] \in [1..0 -> T]
        OBVIOUS
      <4> QED
        BY <4>1
    <3>3. Sorts(f, T, 0)
      BY DEF Sorts
    <3>4. Sortable(T)
      BY <3>1, <3>3 DEF Sortable
    <3> QED
      BY <3>4, <2>2
  <2>4. CASE T # {}
    <3>1. PICK m \in T : \A o \in T : o <= m
      BY <2>4, IdSets
    <3>2. IsFiniteSet(T) /\ Cardinality(T) \in Nat
      BY IdSets
    <3>3. Cardinality(T \ {m}) = n - 1
      BY <3>2, <2>2, FS_RemoveElement
    <3>4. Cardinality(T \ {m}) \in Nat
      BY IdSets
    <3>5. Sortable(T \ {m})
      <4>1. CASE n - 1 \in Unsorted
        BY <4>1, <2>1, <2>2, <3>2
      <4>2. CASE n - 1 \notin Unsorted
        BY <4>2, <3>3, <3>4
      <4> QED
        BY <4>1, <4>2
    <3>6. Sortable(T)
      BY <3>1, <3>5, SortOneMore
    <3> QED
      BY <3>6, <2>2
  <2> QED
    BY <2>3, <2>4
<1> QED
  BY <1>1, <1>2

\* So Ordered is a sequence of the ids it is given.
LEMMA OrderedIs ==
  ASSUME NEW S \in SUBSET Ids
  PROVE  Cardinality(S) \in Nat /\ Ordered(S) \in [1..Cardinality(S) -> S]
<1>1. PICK f \in [1..Cardinality(S) -> S] : Sorts(f, S, Cardinality(S))
  BY EverySetSorts DEF Sortable
<1>2. \A i, j \in 1..Cardinality(S) : i < j => f[i] < f[j]
  BY <1>1 DEF Sorts
<1>3. Ordered(S) \in [1..Cardinality(S) -> S]
  BY <1>2 DEF Ordered
<1> QED
  BY <1>3, IdSets

\* And Closes is a sequence of events, none of which answers a connect.
LEMMA ClosesAre ==
  ASSUME NEW S \in SUBSET Ids
  PROVE  /\ Closes(S) \in Seq(Events)
         /\ \A i \in 1..Len(Closes(S)) : Closes(S)[i].type = "close"
<1>1. Cardinality(S) \in Nat /\ Ordered(S) \in [1..Cardinality(S) -> S]
  BY OrderedIs
<1>2. \A i \in 1..Cardinality(S) : Ordered(S)[i] \in Ids
  BY <1>1
<1>3. \A i \in 1..Cardinality(S) : [type |-> "close", id |-> Ordered(S)[i]] \in Events
  BY <1>2 DEF Events
<1>4. Closes(S) \in [1..Cardinality(S) -> Events]
  BY <1>3 DEF Closes
<1>5. Closes(S) \in Seq(Events) /\ Len(Closes(S)) = Cardinality(S)
  BY <1>1, <1>4
<1>6. \A i \in 1..Cardinality(S) : Closes(S)[i].type = "close"
  BY DEF Closes
<1> QED
  BY <1>5, <1>6

-----------------------------------------------------------------------------
(* Types, one action at a time.                                             *)

\* The socket of an end, changed to another.
LEMMA SockTyped ==
  ASSUME TypeOK, NEW p \in Procs, NEW id \in Ids, NEW s \in Sockets,
         sock' = [sock EXCEPT ![p][id] = s]
  PROVE  sock' \in [Procs -> [Ids -> Sockets]]
BY DEF TypeOK

\* A process's own steps keep the types.
LEMMA GuestTyped ==
  ASSUME TypeOK, NEW p \in Procs, Guest(p)
  PROVE  TypeOK'
<1> USE DEF kernel, handles
<1>1. ops < MaxOps => ops + 1 \in 0..MaxOps
  BY NetAssumption DEF TypeOK
<1>2. ASSUME NEW proto \in Protos, NEW port \in Ports \cup {0}, Listen(p, proto, port) PROVE TypeOK'
  BY <1>1, <1>2 DEF TypeOK, Listen, Act
<1>3. ASSUME NEW proto \in Protos, NEW port \in AllPorts, CloseServer(p, proto, port) PROVE TypeOK'
  <2>1. [type |-> "release", proto |-> proto, port |-> port] \in Messages
    BY DEF Messages
  <2>2. up' \in [Procs -> Seq(Messages)]
    BY <2>1, <1>3, PostDoes DEF CloseServer
  <2>3. servers' \in [Procs -> SUBSET (Protos \X AllPorts)]
    BY <1>3 DEF TypeOK, CloseServer
  <2> QED
    BY <1>1, <1>3, <2>2, <2>3 DEF TypeOK, CloseServer, Act
<1>4. ASSUME NEW port \in Ports \cup Listening, Connect(p, port) PROVE TypeOK'
  <2>1. port \in AllPorts
    BY DEF Listening, AllPorts
  <2>2. PICK t \in Tickets : /\ pending' = [pending EXCEPT ![p][t] = "open"]
                             /\ Post(p, <<[type |-> "connect", ticket |-> t, port |-> port]>>)
    BY <1>4 DEF Connect
  <2>3. [type |-> "connect", ticket |-> t, port |-> port] \in Messages
    BY <2>1 DEF Messages
  <2>4. up' \in [Procs -> Seq(Messages)]
    BY <2>2, <2>3, PostDoes
  <2>5. pending' \in [Procs -> [Tickets -> {"none", "open", "closed", "done"}]]
    BY <2>2 DEF TypeOK
  <2> QED
    BY <1>1, <1>4, <2>4, <2>5 DEF TypeOK, Connect, Act
<1>5. ASSUME NEW t \in Tickets, CloseConnecting(p, t) PROVE TypeOK'
  <2>1. pending' \in [Procs -> [Tickets -> {"none", "open", "closed", "done"}]]
    BY <1>5 DEF TypeOK, CloseConnecting
  <2> QED
    BY <1>1, <1>5, <2>1 DEF TypeOK, CloseConnecting, Act
<1>6. \A id \in Ids : sock[p][id] \in Sockets
  BY DEF TypeOK
<1>7. ASSUME NEW id \in Ids, Write(p, id) PROVE TypeOK'
  <2> DEFINE s == [sock[p][id] EXCEPT !.wrote = @ + 1]
  <2>1. sock[p][id].wrote < MaxWrites
    BY <1>7 DEF Write
  <2>2. s \in Sockets
    BY <1>6, <2>1, SocketMoves
  <2>3. sock' = [sock EXCEPT ![p][id] = s]
    BY <1>7 DEF Write, TypeOK
  <2> HIDE DEF s
  <2>4. sock' \in [Procs -> [Ids -> Sockets]]
    BY <2>2, <2>3, SockTyped
  <2>5. sock[p][id].wrote + 1 \in Chunks
    BY <1>6, <2>1, NetAssumption DEF Sockets, Chunks
  <2>6. [type |-> "data", id |-> id, chunk |-> sock[p][id].wrote + 1] \in Messages
    BY <2>5 DEF Messages
  <2>7. up' \in [Procs -> Seq(Messages)]
    BY <2>6, <1>7, PostDoes DEF Write
  <2> QED
    BY <1>1, <1>7, <2>4, <2>7 DEF TypeOK, Write, Act
<1>8. ASSUME NEW id \in Ids, Shutdown(p, id) PROVE TypeOK'
  <2> DEFINE s == [sock[p][id] EXCEPT !.fin = TRUE]
  <2>1. s \in Sockets
    BY <1>6, SocketMoves
  <2>2. sock' = [sock EXCEPT ![p][id] = s]
    BY <1>8 DEF Shutdown, TypeOK
  <2> HIDE DEF s
  <2>3. sock' \in [Procs -> [Ids -> Sockets]]
    BY <2>1, <2>2, SockTyped
  <2>4. [type |-> "shutdown", id |-> id] \in Messages
    BY DEF Messages
  <2>5. up' \in [Procs -> Seq(Messages)]
    BY <2>4, <1>8, PostDoes DEF Shutdown
  <2> QED
    BY <1>1, <1>8, <2>3, <2>5 DEF TypeOK, Shutdown, Act
<1>9. ASSUME NEW id \in Ids, Close(p, id) PROVE TypeOK'
  <2> DEFINE s == [sock[p][id] EXCEPT !.state = "closed", !.known = FALSE, !.queue = <<>>]
  <2>1. s \in Sockets
    BY <1>6, SocketMoves
  <2>2. sock' = [sock EXCEPT ![p][id] = s]
    BY <1>9 DEF Close, TypeOK
  <2> HIDE DEF s
  <2>3. sock' \in [Procs -> [Ids -> Sockets]]
    BY <2>1, <2>2, SockTyped
  <2>4. [type |-> "close", id |-> id] \in Messages
    BY DEF Messages
  <2>5. up' \in [Procs -> Seq(Messages)]
    BY <2>4, <1>9, PostDoes DEF Close, CloseMessages
  <2> QED
    BY <1>1, <1>9, <2>3, <2>5 DEF TypeOK, Close, Act
<1>10. ASSUME NEW id \in Ids, ReadStart(p, id) PROVE TypeOK'
  <2> DEFINE s == [sock[p][id] EXCEPT !.reading = TRUE]
  <2>1. s \in Sockets
    BY <1>6, SocketMoves
  <2>2. sock' = [sock EXCEPT ![p][id] = Drain(s)]
    BY <1>10 DEF ReadStart, TypeOK
  <2> HIDE DEF s
  <2>3. Drain(s) \in Sockets
    BY <2>1, DrainMoves
  <2>4. sock' \in [Procs -> [Ids -> Sockets]]
    BY <2>2, <2>3, SockTyped
  <2> QED
    BY <1>10, <2>4 DEF TypeOK, ReadStart
<1>11. ASSUME NEW id \in Ids, ReadStop(p, id) PROVE TypeOK'
  <2> DEFINE s == [sock[p][id] EXCEPT !.reading = FALSE]
  <2>1. s \in Sockets
    BY <1>6, SocketMoves
  <2>2. sock' = [sock EXCEPT ![p][id] = s]
    BY <1>11 DEF ReadStop, TypeOK
  <2> HIDE DEF s
  <2>3. sock' \in [Procs -> [Ids -> Sockets]]
    BY <2>1, <2>2, SockTyped
  <2> QED
    BY <1>11, <2>3 DEF TypeOK, ReadStop
<1>12. ASSUME Exit(p) PROVE TypeOK'
  <2>1. [type |-> "exit"] \in Messages
    BY DEF Messages
  <2>2. up' \in [Procs -> Seq(Messages)]
    BY <2>1, <1>12, PostDoes DEF Exit
  <2>3. life' \in [Procs -> {"running", "exiting", "gone"}]
    BY <1>12 DEF TypeOK, Exit
  <2> QED
    BY <1>1, <1>12, <2>2, <2>3 DEF TypeOK, Exit, Act
<1> QED
  BY <1>2, <1>3, <1>4, <1>5, <1>7, <1>8, <1>9, <1>10, <1>11, <1>12 DEF Guest

\* Dispatch keeps the types: the ticket of a result is one of a pending
\* connect, whose state the connection's handle takes.
LEMMA DispatchTyped ==
  ASSUME TypeOK, TicketsAnswered, NEW p \in Procs, Dispatch(p)
  PROVE  TypeOK'
<1> USE DEF kernel, handles
<1>1. down[p] \in Seq(Events) /\ down[p] # <<>>
  BY DEF TypeOK, Dispatch
<1>2. /\ Tail(down[p]) \in Seq(Events) /\ Head(down[p]) = down[p][1]
      /\ Head(down[p]) \in Events /\ Len(down[p]) \in Nat \ {0}
  BY <1>1, FromFront
<1>3. down' \in [Procs -> Seq(Events)]
  BY <1>2 DEF TypeOK, Dispatch
<1>4. PICK e \in Events : /\ e = Head(down[p])
                          /\ DispatchResult(p, e) \/ DispatchIncoming(p, e) \/ DispatchItem(p, e)
  BY <1>2 DEF Dispatch
<1>5. \A id \in Ids : sock[p][id] \in Sockets
  BY DEF TypeOK
<1>6. CASE DispatchResult(p, e)
  <2>1. e.type = "result" /\ e.ticket \in Tickets /\ e.port \in AllPorts /\ e.id \in Ids \cup {0}
    BY <1>6, EventFields DEF DispatchResult
  <2>2. pending[p][e.ticket] \in {"open", "closed"}
    BY <2>1, <1>2, <1>4 DEF TicketsAnswered, AnsweredIn
  <2> DEFINE s == [NoSock EXCEPT !.state = pending[p][e.ticket], !.known = TRUE, !.port = e.port]
  <2>4. ASSUME NEW id \in Ids PROVE s \in Sockets
    <3>1. sock[p][id] \in Sockets
      BY <1>5
    <3> QED
      BY <2>1, <2>2, <3>1, SocketMoves
  <2>5. sock' = IF e.id = 0 THEN sock ELSE [sock EXCEPT ![p][e.id] = s]
    BY <1>6 DEF DispatchResult
  <2> HIDE DEF s
  <2>6. sock' \in [Procs -> [Ids -> Sockets]]
    <3>1. CASE e.id = 0
      BY <3>1, <2>5 DEF TypeOK
    <3>2. CASE e.id # 0
      <4>1. e.id \in Ids
        BY <3>2, <2>1
      <4>2. s \in Sockets
        BY <4>1, <2>4
      <4> QED
        BY <4>1, <4>2, <3>2, <2>5, SockTyped
    <3> QED
      BY <3>1, <3>2
  <2>7. pending' \in [Procs -> [Tickets -> {"none", "open", "closed", "done"}]]
    BY <1>6 DEF DispatchResult, TypeOK
  <2> QED
    BY <1>3, <2>6, <2>7 DEF TypeOK, Dispatch
<1>7. CASE DispatchIncoming(p, e)
  <2>1. e.id \in Ids /\ e.port \in AllPorts
    BY <1>7, EventFields DEF DispatchIncoming
  <2> DEFINE s == [NoSock EXCEPT !.state = "open", !.known = TRUE, !.port = e.port]
  <2>2. s \in Sockets
    BY <2>1, <1>5, SocketMoves
  <2>3. sock' = IF <<"tcp", e.port>> \notin servers[p] THEN sock ELSE [sock EXCEPT ![p][e.id] = s]
    BY <1>7 DEF DispatchIncoming
  <2> HIDE DEF s
  <2>4. sock' \in [Procs -> [Ids -> Sockets]]
    <3>1. CASE sock' = sock
      BY <3>1 DEF TypeOK
    <3>2. CASE sock' # sock
      BY <3>2, <2>1, <2>2, <2>3, SockTyped
    <3> QED
      BY <3>1, <3>2
  <2> QED
    BY <1>3, <1>7, <2>4 DEF TypeOK, Dispatch, DispatchIncoming
<1>8. CASE DispatchItem(p, e)
  <2>1. e.id \in Ids
    BY <1>8, EventFields DEF DispatchItem
  <2> DEFINE item == IF e.type = "data" THEN e.chunk ELSE EOF
             s == [sock[p][e.id] EXCEPT !.known = e.type # "close"]
  <2>2. item \in Chunks \cup {EOF}
    BY EventFields
  <2>3. s \in Sockets
    <3>1. (e.type # "close") \in BOOLEAN
      OBVIOUS
    <3>2. sock[p][e.id] \in Sockets
      BY <1>5, <2>1
    <3> QED
      BY <3>1, <3>2 DEF Sockets
  <2>4. sock' = IF ~sock[p][e.id].known THEN sock ELSE [sock EXCEPT ![p][e.id] = Push(s, item)]
    BY <1>8, <2>1 DEF DispatchItem, TypeOK
  <2> HIDE DEF s, item
  <2>5. Push(s, item) \in Sockets
    BY <2>2, <2>3, PushMoves
  <2>6. sock' \in [Procs -> [Ids -> Sockets]]
    <3>1. CASE sock' = sock
      BY <3>1 DEF TypeOK
    <3>2. CASE sock' # sock
      BY <3>2, <2>1, <2>5, <2>4, SockTyped
    <3> QED
      BY <3>1, <3>2
  <2> QED
    BY <1>3, <1>8, <2>6 DEF TypeOK, Dispatch, DispatchItem
<1> QED
  BY <1>4, <1>6, <1>7, <1>8

\* The port that is allocated is free, and in the range.
LEMMA AllocateIs ==
  ASSUME TypeOK, NEW proto \in Protos, Allocate(proto) # 0
  PROVE  Allocate(proto) \in EphemeralPorts /\ bound[<<proto, Allocate(proto)>>] = Nobody
<1>1. FreePorts(proto) # {}
  BY DEF Allocate
<1>2. \A port \in EphemeralPorts : port \in Nat /\ EphemeralStart <= port /\ port <= EphemeralEnd
  BY NetAssumption DEF EphemeralPorts
<1>3. nextPort[proto] \in EphemeralPorts
  BY DEF TypeOK
<1>4. \A port \in EphemeralPorts : Tried(proto, port) \in Nat
  BY <1>2, <1>3, NetAssumption DEF Tried
<1>5. \A port \in FreePorts(proto) : port \in EphemeralPorts /\ bound[<<proto, port>>] = Nobody
  BY DEF FreePorts
<1> HIDE DEF Tried, FreePorts
<1> DEFINE T == {Tried(proto, port) : port \in FreePorts(proto)}
<1>6. T \in SUBSET Nat /\ T # {}
  BY <1>1, <1>4, <1>5
<1>7. PICK n \in T : \A k \in T : n <= k
  BY <1>6, Least
<1>8. PICK port \in FreePorts(proto) : Tried(proto, port) = n
  BY <1>7
<1>9. \A other \in FreePorts(proto) : Tried(proto, port) <= Tried(proto, other)
  BY <1>7, <1>8
<1>10. Allocate(proto) \in FreePorts(proto)
  BY <1>1, <1>9 DEF Allocate
<1> QED
  BY <1>5, <1>10

\* What the kernel's answer to listen or bind does: a port that was free is
\* the process's, in both tables, or nothing is.
LEMMA ServiceDoes ==
  ASSUME TypeOK, NEW p \in Procs, Service(p)
  PROVE  \/ bound' = bound /\ servers' = servers
         \/ \E s \in Protos \X AllPorts :
              /\ bound[s] = Nobody
              /\ bound' = [bound EXCEPT ![s] = p]
              /\ servers' = [servers EXCEPT ![p] = @ \cup {s}]
<1> DEFINE proto == asking[p][1]
           asked == asking[p][2]
           port == IF asked = 0 THEN Allocate(proto) ELSE asked
           taken == port = 0 \/ bound[<<proto, port>>] # Nobody
<1>1. asking[p] \in Protos \X (Ports \cup {0})
  BY DEF TypeOK, Service
<1>2. proto \in Protos /\ asked \in Ports \cup {0}
  BY <1>1
<1>3. bound' = (IF taken THEN bound ELSE [bound EXCEPT ![<<proto, port>>] = p])
      /\ servers' = (IF taken THEN servers ELSE [servers EXCEPT ![p] = @ \cup {<<proto, port>>}])
  BY DEF Service
<1>4. port # 0 => port \in AllPorts
  <2>1. CASE asked = 0
    BY <2>1, <1>2, AllocateIs DEF AllPorts
  <2>2. CASE asked # 0
    BY <2>2, <1>2 DEF AllPorts
  <2> QED
    BY <2>1, <2>2
<1> HIDE DEF port, proto
<1>5. CASE taken
  BY <1>3, <1>5
<1>6. CASE ~taken
  <2>1. <<proto, port>> \in Protos \X AllPorts /\ bound[<<proto, port>>] = Nobody
    BY <1>2, <1>4, <1>6
  <2> QED
    BY <1>3, <1>6, <2>1
<1> QED
  BY <1>5, <1>6

\* The answer keeps the types.
LEMMA ServiceTyped ==
  ASSUME TypeOK, NEW p \in Procs, Service(p)
  PROVE  TypeOK'
<1> USE DEF kernel, handles
<1>1. bound' \in [Protos \X AllPorts -> Procs \cup {Nobody}]
      /\ servers' \in [Procs -> SUBSET (Protos \X AllPorts)]
  <2>1. CASE bound' = bound /\ servers' = servers
    BY <2>1 DEF TypeOK
  <2>2. ASSUME NEW s \in Protos \X AllPorts, bound' = [bound EXCEPT ![s] = p],
               servers' = [servers EXCEPT ![p] = @ \cup {s}]
        PROVE  /\ bound' \in [Protos \X AllPorts -> Procs \cup {Nobody}]
               /\ servers' \in [Procs -> SUBSET (Protos \X AllPorts)]
    <3>1. bound' \in [Protos \X AllPorts -> Procs \cup {Nobody}]
      BY <2>2 DEF TypeOK
    <3>2. servers' \in [Procs -> SUBSET (Protos \X AllPorts)]
      BY <2>2 DEF TypeOK
    <3> QED
      BY <3>1, <3>2
  <2> QED
    BY <2>1, <2>2, ServiceDoes
<1>2. nextPort' \in [Protos -> EphemeralPorts]
  <2>1. asking[p] \in Protos \X (Ports \cup {0})
    BY DEF TypeOK, Service
  <2>2. asking[p][1] \in Protos
    BY <2>1
  <2>3. CASE nextPort' = nextPort
    BY <2>3 DEF TypeOK
  <2>4. CASE nextPort' # nextPort
    <3> DEFINE port == Allocate(asking[p][1])
    <3>1. port # 0 /\ nextPort' = [nextPort EXCEPT ![asking[p][1]] = After(port)]
      BY <2>4 DEF Service
    <3>2. port \in EphemeralPorts
      BY <3>1, <2>2, AllocateIs
    <3> HIDE DEF port
    <3>3. After(port) \in EphemeralPorts
      BY <3>2, NetAssumption DEF After, EphemeralPorts
    <3> QED
      BY <3>1, <3>3 DEF TypeOK
  <2> QED
    BY <2>3, <2>4
<1>3. asking' \in [Procs -> {NotAsking} \cup (Protos \X (Ports \cup {0}))]
  BY DEF TypeOK, Service
<1> QED
  BY <1>1, <1>2, <1>3 DEF TypeOK, Service

\* What an end's peer is told is told to one process, or to nobody.
LEMMA ToPeerDoes ==
  ASSUME TypeOK, NEW id \in Ids, NEW e \in Events, e.type # "result",
         \A o \in Ids : conns[o] # NoConn => conns[o].peer \in Ids /\ conns[conns[o].peer] # NoConn
  PROVE  ToPeer(id, e) \in [Procs -> Seq(Events)] /\ Told(down, ToPeer(id, e))
<1>1. down \in [Procs -> Seq(Events)]
  BY DEF TypeOK
<1>2. CASE conns[id] = NoConn
  BY <1>2, <1>1, NothingTold DEF ToPeer
<1>3. CASE conns[id] # NoConn
  <2>1. conns[id].peer \in Ids /\ conns[conns[id].peer] # NoConn
    BY <1>3
  <2>2. conns[conns[id].peer].pid \in Procs
    BY <2>1 DEF TypeOK
  <2>3. ToPeer(id, e) = Notify(down, conns[conns[id].peer].pid, e)
    BY <1>3 DEF ToPeer
  <2> HIDE DEF Notify
  <2>4. Told(down, Notify(down, conns[conns[id].peer].pid, e))
    BY <2>2, <1>1, NotifyTold
  <2>5. Notify(down, conns[conns[id].peer].pid, e) \in [Procs -> Seq(Events)]
    BY <2>4 DEF Told
  <2> QED
    BY <2>3, <2>4, <2>5
<1> QED
  BY <1>2, <1>3

\* The two ends of a connection point at each other; both belong to processes
\* that live and have ids that were given out.
Pairs ==
  \A id \in Ids : conns[id] # NoConn =>
    /\ Alive(conns[id].pid) /\ id < nextConn
    /\ conns[id].peer # id
    /\ conns[conns[id].peer] # NoConn
    /\ conns[conns[id].peer].peer = id

\* The fields of a connection on record.
LEMMA ConnFields ==
  ASSUME TypeOK, NEW id \in Ids, conns[id] # NoConn
  PROVE  conns[id].pid \in Procs /\ conns[id].peer \in Ids
BY DEF TypeOK

\* A message of the kinds that only pass through tells the peer.
LEMMA ItemDoes ==
  ASSUME TypeOK, Pairs, NEW p \in Procs, NEW m \in Messages,
         RelayItem(p, m) \/ RelayClose(p, m)
  PROVE  m.id \in Ids /\ m.type # "connect" /\ m.type # "release" /\ Told(down, down')
<1> USE DEF kernel
<1>1. \A o \in Ids : conns[o] # NoConn => conns[o].peer \in Ids /\ conns[conns[o].peer] # NoConn
  BY ConnFields DEF Pairs
<1>2. m.type \in {"data", "shutdown", "close"} /\ m.id \in Ids
  BY MessageFields DEF RelayItem, RelayClose
<1>3. CASE conns[m.id] = NoConn
  <2>1. down' = down
    BY <1>3 DEF RelayItem, RelayClose, ToPeer
  <2> QED
    BY <2>1, <1>2, NothingTold
<1>4. CASE conns[m.id] # NoConn
  <2>1. conns[m.id].peer \in Ids
    BY <1>2, <1>4, <1>1
  <2>2. CASE RelayItem(p, m) /\ m.type = "data"
    <3> DEFINE e == [type |-> "data", id |-> conns[m.id].peer, chunk |-> m.chunk]
    <3>1. e \in Events /\ e.type # "result"
      BY <2>1, <2>2, MessageFields DEF Events
    <3>2. down' = ToPeer(m.id, e)
      BY <2>2 DEF RelayItem
    <3> HIDE DEF e
    <3> QED
      BY <3>1, <3>2, <1>1, <1>2, ToPeerDoes
  <2>3. CASE RelayItem(p, m) /\ m.type # "data"
    <3> DEFINE e == [type |-> "eof", id |-> conns[m.id].peer]
    <3>1. e \in Events /\ e.type # "result"
      BY <2>1 DEF Events
    <3>2. down' = ToPeer(m.id, e)
      BY <2>3 DEF RelayItem
    <3> HIDE DEF e
    <3> QED
      BY <3>1, <3>2, <1>1, <1>2, ToPeerDoes
  <2>4. CASE RelayClose(p, m)
    <3> DEFINE e == [type |-> "close", id |-> conns[m.id].peer]
    <3>1. e \in Events /\ e.type # "result"
      BY <2>1 DEF Events
    <3>2. down' = ToPeer(m.id, e)
      BY <2>4 DEF RelayClose
    <3> HIDE DEF e
    <3> QED
      BY <3>1, <3>2, <1>1, <1>2, ToPeerDoes
  <2> QED
    BY <2>2, <2>3, <2>4
<1> QED
  BY <1>3, <1>4

\* The connect at the head of a queue is one of those counted.
LEMMA ConnectHasRoom ==
  ASSUME TypeOK, Room, NEW p \in Procs, up[p] # <<>>, Head(up[p]).type = "connect"
  PROVE  /\ <<p, Head(up[p]).ticket>> \in Asked
         /\ nextConn \in Ids /\ nextConn + 1 \in Ids /\ Cardinality(Asked) \in Nat
         /\ nextConn + 2 * Cardinality(Asked) <= 2 * MaxConns + 1
<1>1. up[p] \in Seq(Messages)
  BY DEF TypeOK
<1>2. Head(up[p]) = up[p][1] /\ Head(up[p]) \in Messages /\ Len(up[p]) \in Nat \ {0}
  BY <1>1, FromFront
<1>3. Head(up[p]).ticket \in Tickets
  BY <1>2, MessageFields
<1>4. 1 \in 1..Len(up[p])
  BY <1>2
<1>5. Asks(p, Head(up[p]).ticket)
  BY <1>2, <1>4 DEF Asks
<1>6. <<p, Head(up[p]).ticket>> \in Asked
  BY <1>3, <1>5 DEF Asked
<1>7. Cardinality(Asked) \in Nat /\ Cardinality(Asked) # 0
  <2>1. IsFiniteSet(Asked)
    BY AskedFinite
  <2>2. Cardinality(Asked) \in Nat
    BY <2>1, FS_CardinalityType
  <2>3. Cardinality(Asked) # 0
    BY <2>1, <1>6, FS_EmptySet
  <2> QED
    BY <2>2, <2>3
<1>8. nextConn \in Nat /\ nextConn >= 1 /\ nextConn + 2 * Cardinality(Asked) <= 2 * MaxConns + 1
  BY DEF TypeOK, Room
<1>9. nextConn + 2 <= 2 * MaxConns + 1
  BY <1>7, <1>8, NetAssumption
<1> QED
  BY <1>6, <1>7, <1>8, <1>9, NetAssumption DEF Ids

\* What a connect makes of the tables, and whom it tells.
LEMMA ConnectDoes ==
  ASSUME TypeOK, Room, NEW p \in Procs, up[p] # <<>>, RelayConnect(p, Head(up[p]))
  PROVE  LET m == Head(up[p])
             q == bound[<<"tcp", m.port>>]
             R(id) == [type |-> "result", ticket |-> m.ticket, port |-> m.port, id |-> id]
         IN /\ m \in Messages /\ m.type = "connect" /\ m.ticket \in Tickets
            /\ nextConn \in Ids /\ nextConn + 1 \in Ids
            /\ \/ /\ R(0) \in Events /\ down' = Notify(down, p, R(0))
                  /\ UNCHANGED <<conns, nextConn>>
               \/ /\ q \in Procs
                  /\ R(nextConn) \in Events
                  /\ [type |-> "incoming", id |-> nextConn + 1, port |-> m.port] \in Events
                  /\ down' = Notify(Notify(down, p, R(nextConn)),
                       q, [type |-> "incoming", id |-> nextConn + 1, port |-> m.port])
                  /\ conns' = [conns EXCEPT ![nextConn] = [pid |-> p, peer |-> nextConn + 1],
                                            ![nextConn + 1] = [pid |-> q, peer |-> nextConn]]
                  /\ nextConn' = nextConn + 2
<1> DEFINE m == Head(up[p])
           q == bound[<<"tcp", m.port>>]
           R(id) == [type |-> "result", ticket |-> m.ticket, port |-> m.port, id |-> id]
<1>1. up[p] \in Seq(Messages)
  BY DEF TypeOK
<1>2. m \in Messages
  BY <1>1, FromFront
<1>3. m.type = "connect"
  BY DEF RelayConnect
<1>4. m.ticket \in Tickets /\ m.port \in AllPorts
  BY <1>2, <1>3, MessageFields
<1>5. nextConn \in Ids /\ nextConn + 1 \in Ids
  BY <1>3, ConnectHasRoom
<1>6. R(0) \in Events /\ R(nextConn) \in Events
      /\ [type |-> "incoming", id |-> nextConn + 1, port |-> m.port] \in Events
  <2>1. R(0) \in Events
    BY <1>4 DEF Events
  <2>2. R(nextConn) \in Events
    BY <1>4, <1>5 DEF Events
  <2>3. [type |-> "incoming", id |-> nextConn + 1, port |-> m.port] \in Events
    BY <1>4, <1>5 DEF Events
  <2> QED
    BY <2>1, <2>2, <2>3
<1>7. CASE q = Nobody
  <2>1. down' = Notify(down, p, R(0)) /\ UNCHANGED <<conns, nextConn>>
    BY <1>7 DEF RelayConnect
  <2> QED
    BY <2>1, <1>2, <1>3, <1>4, <1>5, <1>6
<1>8. CASE q # Nobody
  <2>1. /\ down' = Notify(Notify(down, p, R(nextConn)),
                     q, [type |-> "incoming", id |-> nextConn + 1, port |-> m.port])
        /\ conns' = [conns EXCEPT ![nextConn] = [pid |-> p, peer |-> nextConn + 1],
                                  ![nextConn + 1] = [pid |-> q, peer |-> nextConn]]
        /\ nextConn' = nextConn + 2
    BY <1>8 DEF RelayConnect, AcceptId
  <2>2. q \in Procs
    <3>1. <<"tcp", m.port>> \in Protos \X AllPorts
      BY <1>4, NetAssumption
    <3> QED
      BY <3>1, <1>8 DEF TypeOK
  <2> QED
    BY <2>1, <2>2, <1>2, <1>3, <1>4, <1>5, <1>6
<1> QED
  BY <1>7, <1>8

\* A process that ends takes its own tables and events with it; others hear of
\* closed connections only.
LEMMA FinalizeDoes ==
  ASSUME TypeOK, NEW p \in Procs, Finalize(p), up' = [up EXCEPT ![p] = <<>>]
  PROVE  TypeOK' /\ Told(down, down')
<1> USE DEF kernel, handles
<1>1. ASSUME NEW q \in Procs
      PROVE  /\ down'[q] \in Seq(Events)
             /\ \/ down'[q] = <<>>
                \/ /\ Len(down[q]) <= Len(down'[q])
                   /\ \A i \in 1..Len(down[q]) : down'[q][i] = down[q][i]
                   /\ \A i \in 1..Len(down'[q]) : down'[q][i].type = "result" => i <= Len(down[q])
  <2>1. CASE q = p
    <3>1. down'[q] = <<>>
      BY <2>1 DEF Finalize
    <3> QED
      BY <3>1
  <2>2. CASE q # p
    <3> DEFINE S == {id \in Survivors(p) : conns[id].pid = q}
    <3>1. S \in SUBSET Ids
      BY DEF Survivors, Held
    <3>2. down'[q] = down[q] \o Closes(S)
      BY <2>2 DEF Finalize
    <3> HIDE DEF S
    <3>3. Closes(S) \in Seq(Events) /\ \A i \in 1..Len(Closes(S)) : Closes(S)[i].type = "close"
      BY <3>1, ClosesAre
    <3>4. down[q] \in Seq(Events)
      BY DEF TypeOK
    <3> HIDE DEF Closes
    <3>5. /\ down'[q] \in Seq(Events) /\ Len(down[q]) \in Nat /\ Len(Closes(S)) \in Nat
          /\ Len(down'[q]) = Len(down[q]) + Len(Closes(S))
          /\ \A i \in 1..Len(down[q]) : down'[q][i] = down[q][i]
          /\ \A i \in 1..Len(down'[q]) : i > Len(down[q]) => down'[q][i] = Closes(S)[i - Len(down[q])]
      BY <3>2, <3>3, <3>4
    <3>6. ASSUME NEW i \in 1..Len(down'[q]), down'[q][i].type = "result" PROVE i <= Len(down[q])
      <4>1. CASE i > Len(down[q])
        <5>1. i - Len(down[q]) \in 1..Len(Closes(S))
          BY <3>5, <4>1
        <5>2. down'[q][i].type = "close"
          BY <5>1, <3>3, <3>5, <4>1
        <5> QED
          BY <5>2, <3>6
      <4> QED
        BY <4>1, <3>5
    <3> QED
      BY <3>5, <3>6
  <2> QED
    BY <2>1, <2>2
<1>2. down' \in [Procs -> Seq(Events)]
  <2>1. down' = [q \in Procs |-> down'[q]]
    BY DEF Finalize
  <2> QED
    BY <2>1, <1>1
<1>3. Told(down, down')
  BY <1>1, <1>2 DEF Told
<1>4. life' \in [Procs -> {"running", "exiting", "gone"}]
  BY DEF TypeOK, Finalize
<1>5. up' \in [Procs -> Seq(Messages)]
  <2>1. <<>> \in Seq(Messages)
    OBVIOUS
  <2> QED
    BY <2>1 DEF TypeOK
<1>6. bound' \in [Protos \X AllPorts -> Procs \cup {Nobody}]
  <2>1. DOMAIN bound = Protos \X AllPorts
    BY DEF TypeOK
  <2>2. \A s \in Protos \X AllPorts : bound[s] \in Procs \cup {Nobody}
    BY DEF TypeOK
  <2> QED
    BY <2>1, <2>2 DEF Finalize
<1>7. conns' \in [Ids -> [pid : Procs, peer : Ids] \cup {NoConn}]
  BY DEF TypeOK, Finalize
<1>8. asking' \in [Procs -> {NotAsking} \cup (Protos \X (Ports \cup {0}))]
  BY DEF TypeOK, Finalize
<1>9. servers' \in [Procs -> SUBSET (Protos \X AllPorts)]
  BY DEF TypeOK, Finalize
<1>10. pending' \in [Procs -> [Tickets -> {"none", "open", "closed", "done"}]]
  BY DEF TypeOK, Finalize
<1>11. sock' \in [Procs -> [Ids -> Sockets]]
  <2>1. \A id \in Ids : NoSock \in Sockets
    <3>1. ASSUME NEW id \in Ids PROVE NoSock \in Sockets
      <4>1. sock[p][id] \in Sockets
        BY DEF TypeOK
      <4> QED
        BY <4>1, SocketMoves
    <3> QED
      BY <3>1
  <2> QED
    BY <2>1 DEF TypeOK, Finalize
<1> QED
  BY <1>2, <1>3, <1>4, <1>5, <1>6, <1>7, <1>8, <1>9, <1>10, <1>11 DEF TypeOK, Finalize

\* The kernel's handlers keep the types.
LEMMA RelayTyped ==
  ASSUME TypeOK, Room, Pairs, NEW p \in Procs, Relay(p)
  PROVE  TypeOK'
<1> USE DEF kernel, handles
<1> DEFINE m == Head(up[p])
<1>1. up[p] # <<>>
  BY DEF Relay
<1>2. CASE RelayExit(p, m) /\ up' = [up EXCEPT ![p] = <<>>]
  BY <1>2, FinalizeDoes DEF RelayExit
<1>3. CASE /\ RelayRelease(p, m) \/ RelayConnect(p, m) \/ RelayItem(p, m) \/ RelayClose(p, m)
           /\ up' = [up EXCEPT ![p] = Tail(@)]
           /\ UNCHANGED <<asking, handles, ops>>
  <2>1. up' \in [Procs -> Seq(Messages)] /\ m \in Messages
    BY <1>1, <1>3, TakeDoes
  <2>2. CASE RelayRelease(p, m)
    <3>1. bound' \in [Protos \X AllPorts -> Procs \cup {Nobody}]
      BY <2>2 DEF TypeOK, RelayRelease
    <3> QED
      BY <2>1, <2>2, <3>1, <1>3 DEF TypeOK, RelayRelease
  <2>3. CASE RelayConnect(p, m)
    <3> DEFINE q == bound[<<"tcp", m.port>>]
               R(id) == [type |-> "result", ticket |-> m.ticket, port |-> m.port, id |-> id]
               inc == [type |-> "incoming", id |-> nextConn + 1, port |-> m.port]
    <3>1. down \in [Procs -> Seq(Events)]
      BY DEF TypeOK
    <3>2. /\ nextConn \in Ids /\ nextConn + 1 \in Ids
          /\ \/ /\ R(0) \in Events /\ down' = Notify(down, p, R(0))
                /\ UNCHANGED <<conns, nextConn>>
             \/ /\ q \in Procs
                /\ R(nextConn) \in Events /\ inc \in Events
                /\ down' = Notify(Notify(down, p, R(nextConn)), q, inc)
                /\ conns' = [conns EXCEPT ![nextConn] = [pid |-> p, peer |-> nextConn + 1],
                                          ![nextConn + 1] = [pid |-> q, peer |-> nextConn]]
                /\ nextConn' = nextConn + 2
      BY <1>1, <2>3, ConnectDoes
    <3> HIDE DEF R, q, inc, m, Notify
    <3>3. down' \in [Procs -> Seq(Events)]
      <4>1. CASE R(0) \in Events /\ down' = Notify(down, p, R(0))
        <5>1. Notify(down, p, R(0)) \in [Procs -> Seq(Events)]
          BY <3>1, <4>1, NotifyDoes
        <5> QED
          BY <4>1, <5>1
      <4>2. CASE /\ q \in Procs /\ R(nextConn) \in Events /\ inc \in Events
                 /\ down' = Notify(Notify(down, p, R(nextConn)), q, inc)
        <5>1. Notify(down, p, R(nextConn)) \in [Procs -> Seq(Events)]
          BY <3>1, <4>2, NotifyDoes
        <5>2. Notify(Notify(down, p, R(nextConn)), q, inc) \in [Procs -> Seq(Events)]
          BY <5>1, <4>2, NotifyDoes
        <5> QED
          BY <4>2, <5>2
      <4> QED
        BY <3>2, <4>1, <4>2
    <3>4. conns' \in [Ids -> [pid : Procs, peer : Ids] \cup {NoConn}]
      BY <3>2 DEF TypeOK
    <3>5. nextConn' \in Nat
      BY <3>2 DEF TypeOK
    <3> QED
      BY <2>1, <2>3, <3>3, <3>4, <3>5, <1>3 DEF TypeOK, RelayConnect
  <2>4. CASE RelayItem(p, m) \/ RelayClose(p, m)
    <3>1. down' \in [Procs -> Seq(Events)]
      BY <2>1, <2>4, ItemDoes DEF Told
    <3>2. conns' \in [Ids -> [pid : Procs, peer : Ids] \cup {NoConn}]
      BY <2>4 DEF TypeOK, RelayItem, RelayClose
    <3>3. UNCHANGED <<life, bound, nextPort, nextConn>>
      BY <2>4 DEF RelayItem, RelayClose
    <3> QED
      BY <2>1, <3>1, <3>2, <3>3, <1>3 DEF TypeOK
  <2> QED
    BY <1>3, <2>2, <2>3, <2>4
<1> QED
  BY <1>2, <1>3 DEF Relay

\* Every step keeps the types.
LEMMA TypesKept ==
  ASSUME TypeOK, TicketsAnswered, Room, Pairs, [Next]_vars
  PROVE  TypeOK'
<1>1. CASE UNCHANGED vars
  BY <1>1 DEF TypeOK, vars, kernel, handles
<1>2. ASSUME NEW p \in Procs, Guest(p) \/ Dispatch(p) \/ Service(p) \/ Relay(p) \/ Kill(p)
      PROVE  TypeOK'
  <2>1. CASE Kill(p)
    BY <2>1, FinalizeDoes DEF Kill
  <2> QED
    BY <1>2, <2>1, GuestTyped, DispatchTyped, ServiceTyped, RelayTyped
<1> QED
  BY <1>1, <1>2 DEF Next

-----------------------------------------------------------------------------
(* Tickets, in one process's queues.                                        *)

\* A message that is no connect changes nothing about tickets.
LEMMA TicketsPost ==
  ASSUME NEW u \in Seq(Messages), NEW d \in Seq(Events), NEW pe, NEW m \in Messages,
         m.type # "connect", AskedIn(u, pe), AnsweredIn(d, u, pe)
  PROVE  /\ AskedIn(u \o <<m>>, pe) /\ AnsweredIn(d, u \o <<m>>, pe)
         /\ \A t : HasAsk(u \o <<m>>, t) <=> HasAsk(u, t)
<1> DEFINE v == u \o <<m>>
<1>1. /\ v \in Seq(Messages) /\ Len(v) = Len(u) + 1 /\ v[Len(u) + 1] = m /\ Len(u) \in Nat
      /\ \A i \in 1..Len(u) : v[i] = u[i]
  BY AtEnd
<1> HIDE DEF v
<1>2. \A i \in 1..Len(v) : v[i].type = "connect" => i \in 1..Len(u) /\ v[i] = u[i]
  <2>1. \A i \in 1..Len(v) : i \in 1..Len(u) \/ i = Len(u) + 1
    BY <1>1
  <2> QED
    BY <2>1, <1>1
<1>3. \A i \in 1..Len(u) : i \in 1..Len(v) /\ v[i] = u[i]
  BY <1>1
<1>4. \A t : HasAsk(v, t) <=> HasAsk(u, t)
  BY <1>2, <1>3 DEF HasAsk
<1>5. AskedIn(v, pe)
  BY <1>2, <1>3 DEF AskedIn
<1>6. AnsweredIn(d, v, pe)
  BY <1>4 DEF AnsweredIn
<1> QED
  BY <1>4, <1>5, <1>6 DEF v

\* A connect takes a ticket nobody has.
LEMMA TicketsConnect ==
  ASSUME NEW u \in Seq(Messages), NEW d \in Seq(Events), NEW m \in Messages,
         NEW pe \in [Tickets -> {"none", "open", "closed", "done"}],
         m.type = "connect", pe[m.ticket] = "none", AskedIn(u, pe), AnsweredIn(d, u, pe)
  PROVE  LET pe2 == [pe EXCEPT ![m.ticket] = "open"]
         IN /\ AskedIn(u \o <<m>>, pe2) /\ AnsweredIn(d, u \o <<m>>, pe2)
            /\ \A t : HasAsk(u \o <<m>>, t) <=> (HasAsk(u, t) \/ t = m.ticket)
            /\ ~HasAsk(u, m.ticket)
<1> DEFINE v == u \o <<m>>
           pe2 == [pe EXCEPT ![m.ticket] = "open"]
<1>1. /\ v \in Seq(Messages) /\ Len(v) = Len(u) + 1 /\ v[Len(u) + 1] = m /\ Len(u) \in Nat
      /\ \A i \in 1..Len(u) : v[i] = u[i]
  BY AtEnd
<1> HIDE DEF v
<1>2. \A i \in 1..Len(v) : (i \in 1..Len(u) /\ v[i] = u[i]) \/ (i = Len(u) + 1 /\ v[i] = m)
  <2>1. \A i \in 1..Len(v) : i \in 1..Len(u) \/ i = Len(u) + 1
    BY <1>1
  <2> QED
    BY <2>1, <1>1
<1>3. \A i \in 1..Len(u) : i \in 1..Len(v) /\ v[i] = u[i] /\ i # Len(u) + 1
  BY <1>1
<1>4. Len(u) + 1 \in 1..Len(v)
  BY <1>1
<1>5. m.ticket \in Tickets
  BY MessageFields
<1>6. pe2[m.ticket] = "open" /\ \A t \in Tickets : t # m.ticket => pe2[t] = pe[t]
  BY <1>5
<1> HIDE DEF pe2
<1>7. \A i \in 1..Len(u) : u[i].type = "connect" => u[i].ticket \in Tickets /\ u[i].ticket # m.ticket
  <2>1. \A i \in 1..Len(u) : u[i] \in Messages
    OBVIOUS
  <2>2. \A i \in 1..Len(u) : u[i].type = "connect" => u[i].ticket \in Tickets
    BY <2>1, MessageFields
  <2> QED
    BY <2>2 DEF AskedIn
<1>8. \A i \in 1..Len(d) : d[i].type = "result" => d[i].ticket \in Tickets /\ d[i].ticket # m.ticket
  <2>1. \A i \in 1..Len(d) : d[i] \in Events
    OBVIOUS
  <2>2. \A i \in 1..Len(d) : d[i].type = "result" => d[i].ticket \in Tickets
    BY <2>1, EventFields
  <2> QED
    BY <2>2 DEF AnsweredIn
<1>9. \A t : HasAsk(v, t) <=> (HasAsk(u, t) \/ t = m.ticket)
  <2>1. ASSUME NEW t, HasAsk(v, t) PROVE HasAsk(u, t) \/ t = m.ticket
    BY <2>1, <1>2 DEF HasAsk
  <2>2. ASSUME NEW t, HasAsk(u, t) PROVE HasAsk(v, t)
    BY <2>2, <1>3 DEF HasAsk
  <2>3. HasAsk(v, m.ticket)
    BY <1>1, <1>4 DEF HasAsk
  <2> QED
    BY <2>1, <2>2, <2>3
<1>10. ~HasAsk(u, m.ticket)
  BY <1>7 DEF HasAsk
<1>11. AskedIn(v, pe2)
  <2> SUFFICES ASSUME NEW i \in 1..Len(v), v[i].type = "connect"
               PROVE  /\ pe2[v[i].ticket] \in {"open", "closed"}
                      /\ \A j \in 1..Len(v) : v[j].type = "connect" /\ v[j].ticket = v[i].ticket => j = i
    BY DEF AskedIn
  <2>1. CASE i \in 1..Len(u) /\ v[i] = u[i]
    <3>1. pe2[v[i].ticket] \in {"open", "closed"}
      BY <2>1, <1>6, <1>7 DEF AskedIn
    <3>2. ASSUME NEW j \in 1..Len(v), v[j].type = "connect", v[j].ticket = v[i].ticket PROVE j = i
      <4>1. j \in 1..Len(u) /\ v[j] = u[j]
        BY <3>2, <2>1, <1>2, <1>7
      <4> QED
        BY <4>1, <3>2, <2>1 DEF AskedIn
    <3> QED
      BY <3>1, <3>2
  <2>2. CASE i = Len(u) + 1 /\ v[i] = m
    BY <2>2, <1>2, <1>6, <1>7
  <2> QED
    BY <2>1, <2>2, <1>2
<1>12. AnsweredIn(d, v, pe2)
  BY <1>6, <1>8, <1>9 DEF AnsweredIn
<1> QED
  BY <1>9, <1>10, <1>11, <1>12 DEF v, pe2

\* What the kernel takes leaves the tickets behind it as they are.
LEMMA TicketsTake ==
  ASSUME NEW u \in Seq(Messages), NEW d \in Seq(Events), NEW pe, u # <<>>,
         AskedIn(u, pe), AnsweredIn(d, u, pe)
  PROVE  /\ AskedIn(Tail(u), pe) /\ AnsweredIn(d, Tail(u), pe)
         /\ \A t : HasAsk(Tail(u), t) => HasAsk(u, t)
         /\ Head(u).type = "connect" => ~HasAsk(Tail(u), Head(u).ticket)
         /\ \A t : HasAsk(u, t) => HasAsk(Tail(u), t) \/ (Head(u).type = "connect" /\ t = Head(u).ticket)
<1> DEFINE v == Tail(u)
<1>1. /\ Len(v) = Len(u) - 1 /\ Len(u) \in Nat \ {0} /\ Head(u) = u[1]
      /\ \A i \in 1..Len(u) - 1 : v[i] = u[i + 1]
  BY FromFront
<1> HIDE DEF v
<1>2. \A i \in 1..Len(v) : i + 1 \in 1..Len(u) /\ v[i] = u[i + 1] /\ i + 1 # 1
  BY <1>1
<1>3. \A t : HasAsk(v, t) => HasAsk(u, t)
  BY <1>2 DEF HasAsk
<1>4. AskedIn(v, pe)
  <2> SUFFICES ASSUME NEW i \in 1..Len(v), v[i].type = "connect"
               PROVE  /\ pe[v[i].ticket] \in {"open", "closed"}
                      /\ \A j \in 1..Len(v) : v[j].type = "connect" /\ v[j].ticket = v[i].ticket => j = i
    BY DEF AskedIn
  <2>1. pe[v[i].ticket] \in {"open", "closed"}
    BY <1>2 DEF AskedIn
  <2>2. ASSUME NEW j \in 1..Len(v), v[j].type = "connect", v[j].ticket = v[i].ticket PROVE j = i
    <3>1. j + 1 = i + 1
      BY <2>2, <1>2 DEF AskedIn
    <3> QED
      BY <3>1
  <2> QED
    BY <2>1, <2>2
<1>5. AnsweredIn(d, v, pe)
  BY <1>3 DEF AnsweredIn
<1>6. ASSUME Head(u).type = "connect", HasAsk(v, Head(u).ticket) PROVE FALSE
  <2>1. PICK i \in 1..Len(v) : v[i].type = "connect" /\ v[i].ticket = Head(u).ticket
    BY <1>6 DEF HasAsk
  <2>2. 1 \in 1..Len(u)
    BY <1>1
  <2>3. i + 1 = 1
    BY <2>1, <2>2, <1>1, <1>2, <1>6 DEF AskedIn
  <2> QED
    BY <2>3, <1>2
<1>7. ASSUME NEW t, HasAsk(u, t) PROVE HasAsk(v, t) \/ (Head(u).type = "connect" /\ t = Head(u).ticket)
  <2>1. PICK i \in 1..Len(u) : u[i].type = "connect" /\ u[i].ticket = t
    BY <1>7 DEF HasAsk
  <2>2. CASE i = 1
    BY <2>1, <2>2, <1>1
  <2>3. CASE i # 1
    <3>1. i - 1 \in 1..Len(v) /\ v[i - 1] = u[i]
      BY <2>3, <1>1
    <3> QED
      BY <3>1, <2>1 DEF HasAsk
  <2> QED
    BY <2>2, <2>3
<1> QED
  BY <1>3, <1>4, <1>5, <1>6, <1>7 DEF v

\* Events that answer nothing leave them as they are.
LEMMA TicketsTold ==
  ASSUME NEW u \in Seq(Messages), NEW d \in Seq(Events), NEW d2 \in Seq(Events), NEW pe,
         AnsweredIn(d, u, pe),
         \/ d2 = <<>>
         \/ /\ Len(d) <= Len(d2)
            /\ \A i \in 1..Len(d) : d2[i] = d[i]
            /\ \A i \in 1..Len(d2) : d2[i].type = "result" => i <= Len(d)
  PROVE  AnsweredIn(d2, u, pe)
<1>1. CASE d2 = <<>>
  BY <1>1 DEF AnsweredIn
<1>2. CASE d2 # <<>>
  <2>1. Len(d) \in Nat /\ Len(d2) \in Nat
    OBVIOUS
  <2>2. \A i \in 1..Len(d2) : d2[i].type = "result" => i \in 1..Len(d) /\ d2[i] = d[i]
    BY <1>2, <2>1
  <2> QED
    BY <2>2 DEF AnsweredIn
<1> QED
  BY <1>1, <1>2

\* The answer to a connect comes behind the other events, and the connect is
\* not under way any more.
LEMMA TicketsResult ==
  ASSUME NEW u \in Seq(Messages), NEW d \in Seq(Events), NEW pe, NEW e \in Events, NEW d2 \in Seq(Events),
         u # <<>>, Head(u).type = "connect", e.type = "result", e.ticket = Head(u).ticket,
         AskedIn(u, pe), AnsweredIn(d, u, pe),
         Len(d2) = Len(d) + 1, \A i \in 1..Len(d) : d2[i] = d[i], d2[Len(d) + 1] = e
  PROVE  AnsweredIn(d2, Tail(u), pe)
<1>1. AnsweredIn(d, Tail(u), pe) /\ ~HasAsk(Tail(u), e.ticket)
  BY TicketsTake
<1>2. Len(u) \in Nat \ {0} /\ Head(u) = u[1] /\ 1 \in 1..Len(u)
  BY FromFront
<1>3. pe[e.ticket] \in {"open", "closed"} /\ HasAsk(u, e.ticket)
  BY <1>2 DEF AskedIn, HasAsk
<1>4. \A i \in 1..Len(d) : d[i].type = "result" => d[i].ticket # e.ticket
  BY <1>3 DEF AnsweredIn
<1>5. \A i \in 1..Len(d2) : (i \in 1..Len(d) /\ d2[i] = d[i]) \/ (i = Len(d) + 1 /\ d2[i] = e)
  <2>1. Len(d) \in Nat
    OBVIOUS
  <2>2. \A i \in 1..Len(d2) : i \in 1..Len(d) \/ i = Len(d) + 1
    BY <2>1
  <2> QED
    BY <2>2
<1> SUFFICES ASSUME NEW i \in 1..Len(d2), d2[i].type = "result"
             PROVE  /\ pe[d2[i].ticket] \in {"open", "closed"}
                    /\ ~HasAsk(Tail(u), d2[i].ticket)
                    /\ \A j \in 1..Len(d2) : d2[j].type = "result" /\ d2[j].ticket = d2[i].ticket => j = i
  BY DEF AnsweredIn
<1>6. CASE i \in 1..Len(d) /\ d2[i] = d[i]
  <2>1. pe[d2[i].ticket] \in {"open", "closed"} /\ ~HasAsk(Tail(u), d2[i].ticket)
    BY <1>1, <1>6 DEF AnsweredIn
  <2>2. ASSUME NEW j \in 1..Len(d2), d2[j].type = "result", d2[j].ticket = d2[i].ticket PROVE j = i
    <3>1. j \in 1..Len(d) /\ d2[j] = d[j]
      BY <2>2, <1>4, <1>5, <1>6
    <3> QED
      BY <3>1, <2>2, <1>6 DEF AnsweredIn
  <2> QED
    BY <2>1, <2>2
<1>7. CASE i = Len(d) + 1 /\ d2[i] = e
  BY <1>7, <1>1, <1>3, <1>4, <1>5
<1> QED
  BY <1>5, <1>6, <1>7

\* A pending connect whose socket is destroyed stays one that is pending.
LEMMA TicketsClosed ==
  ASSUME NEW u \in Seq(Messages), NEW d \in Seq(Events), NEW t \in Tickets,
         NEW pe \in [Tickets -> {"none", "open", "closed", "done"}],
         AskedIn(u, pe), AnsweredIn(d, u, pe)
  PROVE  LET pe2 == [pe EXCEPT ![t] = "closed"] IN AskedIn(u, pe2) /\ AnsweredIn(d, u, pe2)
<1> DEFINE pe2 == [pe EXCEPT ![t] = "closed"]
<1>1. \A o \in Tickets : pe[o] \in {"open", "closed"} => pe2[o] \in {"open", "closed"}
  OBVIOUS
<1> HIDE DEF pe2
<1>2. \A i \in 1..Len(u) : u[i].type = "connect" => u[i].ticket \in Tickets
  <2>1. \A i \in 1..Len(u) : u[i] \in Messages
    OBVIOUS
  <2> QED
    BY <2>1, MessageFields
<1>3. \A i \in 1..Len(d) : d[i].type = "result" => d[i].ticket \in Tickets
  <2>1. \A i \in 1..Len(d) : d[i] \in Events
    OBVIOUS
  <2> QED
    BY <2>1, EventFields
<1>4. AskedIn(u, pe2)
  BY <1>1, <1>2 DEF AskedIn
<1>5. AnsweredIn(d, u, pe2)
  BY <1>1, <1>3 DEF AnsweredIn
<1> QED
  BY <1>4, <1>5 DEF pe2

\* An event is dispatched; with a result its ticket is done.
LEMMA TicketsDispatch ==
  ASSUME NEW u \in Seq(Messages), NEW d \in Seq(Events), d # <<>>,
         NEW pe \in [Tickets -> {"none", "open", "closed", "done"}],
         NEW pe2 \in [Tickets -> {"none", "open", "closed", "done"}],
         pe2 = IF Head(d).type = "result" THEN [pe EXCEPT ![Head(d).ticket] = "done"] ELSE pe,
         AskedIn(u, pe), AnsweredIn(d, u, pe)
  PROVE  AskedIn(u, pe2) /\ AnsweredIn(Tail(d), u, pe2)
<1> DEFINE r == Tail(d)
<1>1. /\ Len(r) = Len(d) - 1 /\ Len(d) \in Nat \ {0} /\ Head(d) = d[1] /\ Head(d) \in Events
      /\ \A i \in 1..Len(d) - 1 : r[i] = d[i + 1]
  BY FromFront
<1> HIDE DEF r
<1>2. \A i \in 1..Len(r) : i + 1 \in 1..Len(d) /\ r[i] = d[i + 1] /\ i + 1 # 1
  BY <1>1
<1>3. 1 \in 1..Len(d)
  BY <1>1
<1>4. \A i \in 1..Len(u) : u[i].type = "connect" => u[i].ticket \in Tickets
  <2>1. \A i \in 1..Len(u) : u[i] \in Messages
    OBVIOUS
  <2> QED
    BY <2>1, MessageFields
<1>5. \A i \in 1..Len(d) : d[i].type = "result" => d[i].ticket \in Tickets
  <2>1. \A i \in 1..Len(d) : d[i] \in Events
    OBVIOUS
  <2> QED
    BY <2>1, EventFields
<1>6. \A o \in Tickets : (Head(d).type = "result" => o # Head(d).ticket) => pe2[o] = pe[o]
  OBVIOUS
<1>7. \A i \in 1..Len(u) : u[i].type = "connect" => pe2[u[i].ticket] = pe[u[i].ticket]
  <2>1. Head(d).type = "result" => ~HasAsk(u, Head(d).ticket)
    BY <1>1, <1>3 DEF AnsweredIn
  <2>2. \A i \in 1..Len(u) : u[i].type = "connect" => HasAsk(u, u[i].ticket)
    BY DEF HasAsk
  <2> QED
    BY <2>1, <2>2, <1>4, <1>6
<1>8. AskedIn(u, pe2)
  BY <1>7 DEF AskedIn
<1>9. \A i \in 1..Len(r) : r[i].type = "result" => pe2[r[i].ticket] = pe[r[i].ticket]
  <2> SUFFICES ASSUME NEW i \in 1..Len(r), r[i].type = "result"
               PROVE  pe2[r[i].ticket] = pe[r[i].ticket]
    OBVIOUS
  <2>1. i + 1 \in 1..Len(d) /\ r[i] = d[i + 1] /\ i + 1 # 1
    BY <1>2
  <2>2. r[i].ticket \in Tickets
    BY <2>1, <1>5
  <2>3. Head(d).type = "result" => r[i].ticket # Head(d).ticket
    BY <2>1, <1>1, <1>3 DEF AnsweredIn
  <2> QED
    BY <2>2, <2>3, <1>6
<1>10. AnsweredIn(r, u, pe2)
  <2> SUFFICES ASSUME NEW i \in 1..Len(r), r[i].type = "result"
               PROVE  /\ pe2[r[i].ticket] \in {"open", "closed"}
                      /\ ~HasAsk(u, r[i].ticket)
                      /\ \A j \in 1..Len(r) : r[j].type = "result" /\ r[j].ticket = r[i].ticket => j = i
    BY DEF AnsweredIn
  <2>1. pe2[r[i].ticket] \in {"open", "closed"} /\ ~HasAsk(u, r[i].ticket)
    BY <1>2, <1>9 DEF AnsweredIn
  <2>2. ASSUME NEW j \in 1..Len(r), r[j].type = "result", r[j].ticket = r[i].ticket PROVE j = i
    <3>1. j + 1 = i + 1
      BY <2>2, <1>2 DEF AnsweredIn
    <3> QED
      BY <3>1
  <2> QED
    BY <2>1, <2>2
<1> QED
  BY <1>8, <1>10 DEF r

-----------------------------------------------------------------------------
(* Tickets, in all queues.                                                  *)

\* What a process's own step may change in what the kernel's tables rest on.
LEMMA GuestDoes ==
  ASSUME TypeOK, NEW p \in Procs, Guest(p)
  PROVE  /\ life[p] = "running" /\ UNCHANGED <<down, kernel>>
         /\ \A q \in Procs : Alive(q)' <=> Alive(q)
         /\ \/ /\ UNCHANGED <<up, servers>>
               /\ \/ UNCHANGED pending
                  \/ \E t \in Tickets : pending' = [pending EXCEPT ![p][t] = "closed"]
            \/ \E m \in Messages :
                 /\ Post(p, <<m>>) /\ m.type \notin {"connect", "release"}
                 /\ UNCHANGED <<servers, pending>>
            \/ \E m \in Messages :
                 /\ Post(p, <<m>>) /\ m.type = "release" /\ Named(m) \in servers[p]
                 /\ servers' = [servers EXCEPT ![p] = @ \ {Named(m)}]
                 /\ UNCHANGED pending
            \/ \E m \in Messages :
                 /\ Post(p, <<m>>) /\ m.type = "connect" /\ pending[p][m.ticket] = "none"
                 /\ pending' = [pending EXCEPT ![p][m.ticket] = "open"]
                 /\ nextConn + 2 * Cardinality(Asked) < 2 * MaxConns
                 /\ UNCHANGED servers
<1> USE DEF kernel, handles
<1> DEFINE Goal ==
         /\ life[p] = "running" /\ UNCHANGED <<down, kernel>>
         /\ \A q \in Procs : Alive(q)' <=> Alive(q)
         /\ \/ /\ UNCHANGED <<up, servers>>
               /\ \/ UNCHANGED pending
                  \/ \E t \in Tickets : pending' = [pending EXCEPT ![p][t] = "closed"]
            \/ \E m \in Messages :
                 /\ Post(p, <<m>>) /\ m.type \notin {"connect", "release"}
                 /\ UNCHANGED <<servers, pending>>
            \/ \E m \in Messages :
                 /\ Post(p, <<m>>) /\ m.type = "release" /\ Named(m) \in servers[p]
                 /\ servers' = [servers EXCEPT ![p] = @ \ {Named(m)}]
                 /\ UNCHANGED pending
            \/ \E m \in Messages :
                 /\ Post(p, <<m>>) /\ m.type = "connect" /\ pending[p][m.ticket] = "none"
                 /\ pending' = [pending EXCEPT ![p][m.ticket] = "open"]
                 /\ nextConn + 2 * Cardinality(Asked) < 2 * MaxConns
                 /\ UNCHANGED servers
<1>1. ASSUME NEW proto \in Protos, NEW port \in Ports \cup {0}, Listen(p, proto, port) PROVE Goal
  BY <1>1 DEF Listen, Act, Free, Alive
<1>2. ASSUME NEW proto \in Protos, NEW port \in AllPorts, CloseServer(p, proto, port) PROVE Goal
  <2> DEFINE m == [type |-> "release", proto |-> proto, port |-> port]
  <2>1. m \in Messages
    BY DEF Messages
  <2>2. m.type = "release" /\ Named(m) = <<proto, port>>
    BY DEF Named
  <2>3. Post(p, <<m>>)
    BY <1>2 DEF CloseServer
  <2> HIDE DEF m
  <2>4. Named(m) \in servers[p] /\ servers' = [servers EXCEPT ![p] = @ \ {Named(m)}]
    BY <1>2, <2>2 DEF CloseServer
  <2> QED
    BY <1>2, <2>1, <2>2, <2>3, <2>4 DEF CloseServer, Act, Free, Alive
<1>3. ASSUME NEW port \in Ports \cup Listening, Connect(p, port) PROVE Goal
  <2>1. port \in AllPorts
    BY DEF Listening, AllPorts
  <2>2. PICK t \in Tickets : /\ \A u \in Tickets : pending[p][u] = "none" <=> u >= t
                             /\ pending' = [pending EXCEPT ![p][t] = "open"]
                             /\ Post(p, <<[type |-> "connect", ticket |-> t, port |-> port]>>)
    BY <1>3 DEF Connect
  <2> DEFINE m == [type |-> "connect", ticket |-> t, port |-> port]
  <2>3. m \in Messages
    BY <2>1 DEF Messages
  <2>4. m.type = "connect" /\ m.ticket = t
    OBVIOUS
  <2>5. Post(p, <<m>>)
    BY <2>2
  <2>6. t >= t
    BY NetAssumption DEF Tickets
  <2> HIDE DEF m
  <2>7. pending[p][m.ticket] = "none" /\ pending' = [pending EXCEPT ![p][m.ticket] = "open"]
    BY <2>2, <2>4, <2>6
  <2> QED
    BY <1>3, <2>3, <2>4, <2>5, <2>7 DEF Connect, Act, Free, Alive
<1>4. ASSUME NEW t \in Tickets, CloseConnecting(p, t) PROVE Goal
  BY <1>4 DEF CloseConnecting, Act, Free, Alive
<1>5. ASSUME NEW id \in Ids, Write(p, id) PROVE Goal
  <2> DEFINE m == [type |-> "data", id |-> id, chunk |-> sock[p][id].wrote + 1]
  <2>1. sock[p][id].wrote + 1 \in Chunks
    BY <1>5, NetAssumption DEF Write, TypeOK, Sockets, Chunks
  <2>2. m \in Messages /\ m.type \notin {"connect", "release"}
    BY <2>1 DEF Messages
  <2>3. Post(p, <<m>>)
    BY <1>5 DEF Write
  <2> HIDE DEF m
  <2> QED
    BY <1>5, <2>2, <2>3 DEF Write, Act, Free, Alive
<1>6. ASSUME NEW id \in Ids, Shutdown(p, id) PROVE Goal
  <2> DEFINE m == [type |-> "shutdown", id |-> id]
  <2>1. m \in Messages /\ m.type \notin {"connect", "release"}
    BY DEF Messages
  <2>2. Post(p, <<m>>)
    BY <1>6 DEF Shutdown
  <2> HIDE DEF m
  <2> QED
    BY <1>6, <2>1, <2>2 DEF Shutdown, Act, Free, Alive
<1>7. ASSUME NEW id \in Ids, Close(p, id) PROVE Goal
  <2> DEFINE m == [type |-> "close", id |-> id]
  <2>1. m \in Messages /\ m.type \notin {"connect", "release"}
    BY DEF Messages
  <2>2. Post(p, <<m>>)
    BY <1>7 DEF Close, CloseMessages
  <2> HIDE DEF m
  <2> QED
    BY <1>7, <2>1, <2>2 DEF Close, Act, Free, Alive
<1>8. ASSUME NEW id \in Ids, ReadStart(p, id) \/ ReadStop(p, id) PROVE Goal
  BY <1>8 DEF ReadStart, ReadStop, Free, Alive
<1>9. ASSUME Exit(p) PROVE Goal
  <2> DEFINE m == [type |-> "exit"]
  <2>1. m \in Messages /\ m.type \notin {"connect", "release"}
    BY DEF Messages
  <2>2. Post(p, <<m>>)
    BY <1>9 DEF Exit
  <2>3. \A q \in Procs : Alive(q)' <=> Alive(q)
    BY <1>9 DEF Exit, Act, Free, Alive, TypeOK
  <2> HIDE DEF m
  <2> QED
    BY <1>9, <2>1, <2>2, <2>3 DEF Exit, Act, Free
<1> HIDE DEF Goal
<1>10. Goal
  BY <1>1, <1>2, <1>3, <1>4, <1>5, <1>6, <1>7, <1>8, <1>9 DEF Guest
<1> QED
  BY <1>10 DEF Goal

\* How many asks there are, by what one queue has.
LEMMA AskedMoves ==
  ASSUME NEW p \in Procs, \A q \in Procs : q # p => up'[q] = up[q]
  PROVE  /\ (\A t : HasAsk(up[p], t)' => HasAsk(up[p], t)) => Asked' \subseteq Asked
         /\ \A t : (\A o : HasAsk(up[p], o)' => HasAsk(up[p], o) \/ o = t) => Asked' \subseteq Asked \cup {<<p, t>>}
         /\ \A t : ~HasAsk(up[p], t)' => <<p, t>> \notin Asked'
<1>1. \A q \in Procs : \A t : Asks(q, t)' <=> HasAsk(up[q], t)'
  BY DEF Asks, HasAsk
<1>2. \A q \in Procs : \A t : Asks(q, t) <=> HasAsk(up[q], t)
  BY DEF Asks, HasAsk
<1>3. \A q \in Procs : q # p => \A t : HasAsk(up[q], t)' <=> HasAsk(up[q], t)
  BY DEF HasAsk
<1>4. ASSUME NEW ask \in Asked'
      PROVE  /\ ask \in Procs \X Tickets
             /\ (ask[1] # p => ask \in Asked)
             /\ (ask[1] = p => HasAsk(up[p], ask[2])')
             /\ (ask[1] = p /\ HasAsk(up[p], ask[2]) => ask \in Asked)
  <2>1. ask \in Procs \X Tickets /\ Asks(ask[1], ask[2])'
    BY <1>4 DEF Asked
  <2>2. ask[1] \in Procs
    BY <2>1
  <2>3. HasAsk(up[ask[1]], ask[2])'
    BY <2>1, <2>2, <1>1
  <2>4. HasAsk(up[ask[1]], ask[2]) => ask \in Asked
    BY <2>1, <2>2, <1>2 DEF Asked
  <2>5. ask[1] # p => ask \in Asked
    BY <2>2, <2>3, <2>4, <1>3
  <2>6. ask[1] = p => HasAsk(up[p], ask[2])'
    BY <2>3
  <2>7. ask[1] = p /\ HasAsk(up[p], ask[2]) => ask \in Asked
    BY <2>4
  <2> QED
    BY <2>1, <2>5, <2>6, <2>7
<1>5. ASSUME \A t : HasAsk(up[p], t)' => HasAsk(up[p], t) PROVE Asked' \subseteq Asked
  BY <1>4, <1>5
<1>6. ASSUME NEW t, \A o : HasAsk(up[p], o)' => HasAsk(up[p], o) \/ o = t
      PROVE  Asked' \subseteq Asked \cup {<<p, t>>}
  <2>1. ASSUME NEW ask \in Asked' PROVE ask \in Asked \cup {<<p, t>>}
    <3>1. CASE ask[1] # p
      BY <3>1, <2>1, <1>4
    <3>2. CASE ask[1] = p
      <4>1. HasAsk(up[p], ask[2]) \/ ask[2] = t
        BY <3>2, <2>1, <1>4, <1>6
      <4>2. ask[2] = t => ask = <<p, t>>
        BY <3>2, <2>1, <1>4
      <4> QED
        BY <4>1, <4>2, <3>2, <2>1, <1>4
    <3> QED
      BY <3>1, <3>2
  <2> QED
    BY <2>1
<1>7. ASSUME NEW t, ~HasAsk(up[p], t)', <<p, t>> \in Asked' PROVE FALSE
  <2>1. <<p, t>>[1] = p /\ <<p, t>>[2] = t
    OBVIOUS
  <2> QED
    BY <2>1, <1>4, <1>7
<1> QED
  BY <1>5, <1>6, <1>7

\* A process's own steps ask with fresh tickets only.
LEMMA TicketsKeptByGuest ==
  ASSUME TypeOK, TypeOK', TicketsAsked, TicketsAnswered, Room, NEW p \in Procs, Guest(p)
  PROVE  TicketsAsked' /\ TicketsAnswered' /\ Room'
<1>1. /\ up[p] \in Seq(Messages) /\ down[p] \in Seq(Events)
      /\ pending[p] \in [Tickets -> {"none", "open", "closed", "done"}]
      /\ AskedIn(up[p], pending[p]) /\ AnsweredIn(down[p], up[p], pending[p])
  BY DEF TypeOK, TicketsAsked, TicketsAnswered
<1>2. UNCHANGED down /\ UNCHANGED nextConn
  BY GuestDoes DEF kernel
<1>3. ASSUME \A q \in Procs : q # p => up'[q] = up[q] /\ pending'[q] = pending[q],
             AskedIn(up'[p], pending'[p]), AnsweredIn(down[p], up'[p], pending'[p])
      PROVE  TicketsAsked' /\ TicketsAnswered'
  <2>1. TicketsAsked'
    BY <1>3 DEF TicketsAsked
  <2>2. TicketsAnswered'
    BY <1>2, <1>3 DEF TicketsAnswered
  <2> QED
    BY <2>1, <2>2
<1>4. ASSUME Asked' \subseteq Asked PROVE Room'
  <2>1. IsFiniteSet(Asked)
    BY AskedFinite
  <2>2. IsFiniteSet(Asked') /\ Cardinality(Asked') <= Cardinality(Asked)
    BY <2>1, <1>4, FS_Subset
  <2>3. Cardinality(Asked') \in Nat /\ Cardinality(Asked) \in Nat
    BY <2>1, <2>2, FS_CardinalityType
  <2> QED
    BY <2>2, <2>3, <1>2, NetAssumption DEF Room, TypeOK
<1>5. CASE UNCHANGED up /\ UNCHANGED pending
  <2>1. TicketsAsked' /\ TicketsAnswered'
    BY <1>1, <1>3, <1>5
  <2>2. Asked' \subseteq Asked
    BY <1>5 DEF Asked, Asks
  <2> QED
    BY <2>1, <2>2, <1>4
<1>6. ASSUME NEW t \in Tickets, UNCHANGED up, pending' = [pending EXCEPT ![p][t] = "closed"]
      PROVE  TicketsAsked' /\ TicketsAnswered' /\ Room'
  <2>1. pending'[p] = [pending[p] EXCEPT ![t] = "closed"] /\ \A q \in Procs : q # p => pending'[q] = pending[q]
    BY <1>6 DEF TypeOK
  <2>2. AskedIn(up[p], pending'[p]) /\ AnsweredIn(down[p], up[p], pending'[p])
    BY <1>1, <2>1, TicketsClosed
  <2>3. TicketsAsked' /\ TicketsAnswered'
    BY <2>1, <2>2, <1>3, <1>6
  <2>4. Asked' \subseteq Asked
    BY <1>6 DEF Asked, Asks
  <2> QED
    BY <2>3, <2>4, <1>4
<1>7. ASSUME NEW m \in Messages, Post(p, <<m>>), m.type # "connect", UNCHANGED pending
      PROVE  TicketsAsked' /\ TicketsAnswered' /\ Room'
  <2>1. up'[p] = up[p] \o <<m>> /\ \A q \in Procs : q # p => up'[q] = up[q]
    BY <1>7 DEF Post, TypeOK
  <2>2. /\ AskedIn(up'[p], pending[p]) /\ AnsweredIn(down[p], up'[p], pending[p])
        /\ \A t : HasAsk(up'[p], t) <=> HasAsk(up[p], t)
    <3>1. /\ AskedIn(up[p] \o <<m>>, pending[p]) /\ AnsweredIn(down[p], up[p] \o <<m>>, pending[p])
          /\ \A t : HasAsk(up[p] \o <<m>>, t) <=> HasAsk(up[p], t)
      <4>1. m \in Messages /\ m.type # "connect"
        BY <1>7
      <4> QED
        BY <1>1, <4>1, TicketsPost
    <3> QED
      BY <3>1, <2>1
  <2>3. TicketsAsked' /\ TicketsAnswered'
    BY <2>1, <2>2, <1>3, <1>7
  <2>4. \A t : HasAsk(up[p], t)' => HasAsk(up[p], t)
    BY <2>2
  <2>5. Asked' \subseteq Asked
    BY <2>1, <2>4, AskedMoves
  <2> QED
    BY <2>3, <2>5, <1>4
<1>8. ASSUME NEW m \in Messages, Post(p, <<m>>), m.type = "connect", pending[p][m.ticket] = "none",
             pending' = [pending EXCEPT ![p][m.ticket] = "open"],
             nextConn + 2 * Cardinality(Asked) < 2 * MaxConns
      PROVE  TicketsAsked' /\ TicketsAnswered' /\ Room'
  <2>1. up'[p] = up[p] \o <<m>> /\ \A q \in Procs : q # p => up'[q] = up[q]
    BY <1>8 DEF Post, TypeOK
  <2>2. m.ticket \in Tickets
    BY <1>8, MessageFields
  <2>3. pending'[p] = [pending[p] EXCEPT ![m.ticket] = "open"]
        /\ \A q \in Procs : q # p => pending'[q] = pending[q]
    BY <1>8, <2>2 DEF TypeOK
  <2>4. /\ AskedIn(up'[p], pending'[p]) /\ AnsweredIn(down[p], up'[p], pending'[p])
        /\ \A t : HasAsk(up'[p], t) <=> (HasAsk(up[p], t) \/ t = m.ticket)
    BY <1>1, <1>8, <2>1, <2>3, TicketsConnect
  <2>5. TicketsAsked' /\ TicketsAnswered'
    BY <2>1, <2>3, <2>4, <1>3
  <2>6. \A o : HasAsk(up[p], o)' => HasAsk(up[p], o) \/ o = m.ticket
    BY <2>4
  <2>7. Asked' \subseteq Asked \cup {<<p, m.ticket>>}
    BY <2>1, <2>6, AskedMoves
  <2>8. IsFiniteSet(Asked)
    BY AskedFinite
  <2>9. IsFiniteSet(Asked \cup {<<p, m.ticket>>})
        /\ Cardinality(Asked \cup {<<p, m.ticket>>}) \in {Cardinality(Asked), Cardinality(Asked) + 1}
    BY <2>8, FS_AddElement
  <2>10. IsFiniteSet(Asked') /\ Cardinality(Asked') <= Cardinality(Asked \cup {<<p, m.ticket>>})
    BY <2>7, <2>9, FS_Subset
  <2>11. Cardinality(Asked) \in Nat /\ Cardinality(Asked') \in Nat
    BY <2>8, <2>10, FS_CardinalityType
  <2>12. Cardinality(Asked') <= Cardinality(Asked) + 1
    BY <2>9, <2>10, <2>11
  <2>13. Room'
    BY <2>11, <2>12, <1>2, <1>8, NetAssumption DEF Room, TypeOK
  <2> QED
    BY <2>5, <2>13
<1>9. \/ /\ UNCHANGED up
         /\ UNCHANGED pending \/ \E t \in Tickets : pending' = [pending EXCEPT ![p][t] = "closed"]
      \/ \E m \in Messages : Post(p, <<m>>) /\ m.type # "connect" /\ UNCHANGED pending
      \/ \E m \in Messages :
           /\ Post(p, <<m>>) /\ m.type = "connect" /\ pending[p][m.ticket] = "none"
           /\ pending' = [pending EXCEPT ![p][m.ticket] = "open"]
           /\ nextConn + 2 * Cardinality(Asked) < 2 * MaxConns
  BY GuestDoes
<1> QED
  BY <1>5, <1>6, <1>7, <1>8, <1>9

\* Dispatching a result ends its ticket.
LEMMA TicketsKeptByDispatch ==
  ASSUME TypeOK, TypeOK', TicketsAsked, TicketsAnswered, Room, NEW p \in Procs, Dispatch(p)
  PROVE  TicketsAsked' /\ TicketsAnswered' /\ Room'
<1> USE DEF kernel, handles
<1>1. /\ up[p] \in Seq(Messages) /\ down[p] \in Seq(Events) /\ down[p] # <<>>
      /\ pending[p] \in [Tickets -> {"none", "open", "closed", "done"}]
      /\ pending'[p] \in [Tickets -> {"none", "open", "closed", "done"}]
      /\ AskedIn(up[p], pending[p]) /\ AnsweredIn(down[p], up[p], pending[p])
  BY DEF TypeOK, TicketsAsked, TicketsAnswered, Dispatch
<1>2. UNCHANGED <<up, nextConn>> /\ down'[p] = Tail(down[p]) /\ \A q \in Procs : q # p => down'[q] = down[q]
  BY DEF Dispatch, TypeOK
<1>3. Head(down[p]) \in Events
  BY <1>1, FromFront
<1>4. /\ pending'[p] = IF Head(down[p]).type = "result"
                       THEN [pending[p] EXCEPT ![Head(down[p]).ticket] = "done"] ELSE pending[p]
      /\ \A q \in Procs : q # p => pending'[q] = pending[q]
  <2>1. CASE Head(down[p]).type = "result"
    <3>1. Head(down[p]).ticket \in Tickets
      BY <2>1, <1>3, EventFields
    <3>2. pending' = [pending EXCEPT ![p][Head(down[p]).ticket] = "done"]
      BY <2>1 DEF Dispatch, DispatchResult, DispatchIncoming, DispatchItem
    <3> QED
      BY <2>1, <3>1, <3>2 DEF TypeOK
  <2>2. CASE Head(down[p]).type # "result"
    <3>1. pending' = pending
      BY <2>2 DEF Dispatch, DispatchResult, DispatchIncoming, DispatchItem
    <3> QED
      BY <2>2, <3>1
  <2> QED
    BY <2>1, <2>2
<1>5. AskedIn(up[p], pending'[p]) /\ AnsweredIn(down'[p], up[p], pending'[p])
  BY <1>1, <1>2, <1>4, TicketsDispatch
<1>6. TicketsAsked'
  BY <1>2, <1>4, <1>5 DEF TicketsAsked
<1>7. TicketsAnswered'
  BY <1>2, <1>4, <1>5 DEF TicketsAnswered
<1>8. Room'
  BY <1>2 DEF Room, Asked, Asks
<1> QED
  BY <1>6, <1>7, <1>8

\* What the kernel takes from a queue without answering a connect.
LEMMA TicketsKeptByRelay ==
  ASSUME TypeOK, TypeOK', TicketsAsked, TicketsAnswered, Room, NEW p \in Procs, Told(down, down'),
         \A q \in Procs : q # p => up'[q] = up[q] /\ pending'[q] = pending[q],
         UNCHANGED nextConn,
         \/ up'[p] = <<>> /\ down'[p] = <<>>
         \/ up[p] # <<>> /\ up'[p] = Tail(up[p]) /\ pending'[p] = pending[p]
  PROVE  TicketsAsked' /\ TicketsAnswered' /\ Room'
<1>1. \A q \in Procs : AskedIn(up[q], pending[q]) /\ AnsweredIn(down[q], up[q], pending[q])
  BY DEF TicketsAsked, TicketsAnswered
<1>2. \A q \in Procs : up[q] \in Seq(Messages) /\ down[q] \in Seq(Events) /\ down'[q] \in Seq(Events)
  BY DEF TypeOK
<1>3. \A q \in Procs : AnsweredIn(down'[q], up[q], pending[q])
  <2> SUFFICES ASSUME NEW q \in Procs PROVE AnsweredIn(down'[q], up[q], pending[q])
    OBVIOUS
  <2>1. \/ down'[q] = <<>>
        \/ /\ Len(down[q]) <= Len(down'[q])
           /\ \A i \in 1..Len(down[q]) : down'[q][i] = down[q][i]
           /\ \A i \in 1..Len(down'[q]) : down'[q][i].type = "result" => i <= Len(down[q])
    BY DEF Told
  <2> QED
    BY <2>1, <1>1, <1>2, TicketsTold
<1>4. /\ AskedIn(up'[p], pending'[p]) /\ AnsweredIn(down'[p], up'[p], pending'[p])
      /\ \A t : HasAsk(up'[p], t) => HasAsk(up[p], t)
  <2>1. CASE up'[p] = <<>> /\ down'[p] = <<>>
    BY <2>1 DEF AskedIn, AnsweredIn, HasAsk
  <2>2. CASE up[p] # <<>> /\ up'[p] = Tail(up[p]) /\ pending'[p] = pending[p]
    BY <2>2, <1>1, <1>2, <1>3, TicketsTake
  <2> QED
    BY <2>1, <2>2
<1>5. TicketsAsked'
  BY <1>1, <1>4 DEF TicketsAsked
<1>6. TicketsAnswered'
  BY <1>3, <1>4 DEF TicketsAnswered
<1>7. \A t : HasAsk(up[p], t)' => HasAsk(up[p], t)
  BY <1>4
<1>8. Asked' \subseteq Asked
  BY <1>7, AskedMoves
<1>9. IsFiniteSet(Asked)
  BY AskedFinite
<1>10. IsFiniteSet(Asked') /\ Cardinality(Asked') <= Cardinality(Asked)
  BY <1>8, <1>9, FS_Subset
<1>11. Cardinality(Asked') \in Nat /\ Cardinality(Asked) \in Nat
  BY <1>9, <1>10, FS_CardinalityType
<1>12. Room'
  BY <1>10, <1>11, NetAssumption DEF Room, TypeOK
<1> QED
  BY <1>5, <1>6, <1>12

\* A connect is answered: its ticket goes from one queue to the other.
LEMMA TicketsKeptByConnect ==
  ASSUME TypeOK, TypeOK', TicketsAsked, TicketsAnswered, Room, NEW p \in Procs, up[p] # <<>>,
         Alive(p),
         RelayConnect(p, Head(up[p])), up' = [up EXCEPT ![p] = Tail(@)], UNCHANGED pending
  PROVE  TicketsAsked' /\ TicketsAnswered' /\ Room'
<1> DEFINE m == Head(up[p])
           q == bound[<<"tcp", m.port>>]
           R(id) == [type |-> "result", ticket |-> m.ticket, port |-> m.port, id |-> id]
           inc == [type |-> "incoming", id |-> nextConn + 1, port |-> m.port]
<1>1. /\ m \in Messages /\ m.type = "connect" /\ m.ticket \in Tickets
      /\ nextConn \in Ids /\ nextConn + 1 \in Ids
      /\ \/ /\ R(0) \in Events /\ down' = Notify(down, p, R(0))
            /\ UNCHANGED <<conns, nextConn>>
         \/ /\ q \in Procs
            /\ R(nextConn) \in Events /\ inc \in Events
            /\ down' = Notify(Notify(down, p, R(nextConn)), q, inc)
            /\ conns' = [conns EXCEPT ![nextConn] = [pid |-> p, peer |-> nextConn + 1],
                                      ![nextConn + 1] = [pid |-> q, peer |-> nextConn]]
            /\ nextConn' = nextConn + 2
  BY ConnectDoes
<1>2. \A id : R(id).type = "result" /\ R(id).ticket = m.ticket
  OBVIOUS
<1>3. inc.type = "incoming"
  OBVIOUS
<1>4. \A o \in Procs : up[o] \in Seq(Messages) /\ down[o] \in Seq(Events)
  BY DEF TypeOK
<1>5. \A o \in Procs : AskedIn(up[o], pending[o]) /\ AnsweredIn(down[o], up[o], pending[o])
  BY DEF TicketsAsked, TicketsAnswered
<1>6. up'[p] = Tail(up[p]) /\ \A o \in Procs : o # p => up'[o] = up[o]
  BY DEF TypeOK
<1>7. /\ AskedIn(Tail(up[p]), pending[p])
      /\ \A t : HasAsk(Tail(up[p]), t) => HasAsk(up[p], t)
      /\ ~HasAsk(Tail(up[p]), m.ticket)
  BY <1>1, <1>4, <1>5, TicketsTake
<1>8. TicketsAsked'
  BY <1>5, <1>6, <1>7 DEF TicketsAsked
<1>9. ASSUME NEW e \in Events, e.type = "result", e.ticket = m.ticket
      PROVE  /\ Notify(down, p, e) \in [Procs -> Seq(Events)]
             /\ \A o \in Procs : AnsweredIn(Notify(down, p, e)[o], up'[o], pending[o])
  <2>1. Notify(down, p, e) = [down EXCEPT ![p] = Append(@, e)]
    BY DEF Notify, Alive
  <2>2. Notify(down, p, e)[p] = Append(down[p], e) /\ \A o \in Procs : o # p => Notify(down, p, e)[o] = down[o]
    BY <2>1 DEF TypeOK
  <2>3. /\ Append(down[p], e) \in Seq(Events) /\ Len(Append(down[p], e)) = Len(down[p]) + 1
        /\ \A i \in 1..Len(down[p]) : Append(down[p], e)[i] = down[p][i]
        /\ Append(down[p], e)[Len(down[p]) + 1] = e
    BY <1>4
  <2>4. AnsweredIn(Append(down[p], e), Tail(up[p]), pending[p])
    BY <2>3, <1>1, <1>4, <1>5, <1>9, TicketsResult
  <2>5. \A o \in Procs : AnsweredIn(Notify(down, p, e)[o], up'[o], pending[o])
    BY <2>2, <2>4, <1>5, <1>6
  <2>6. Notify(down, p, e) \in [Procs -> Seq(Events)]
    BY <2>1, <2>3 DEF TypeOK
  <2> QED
    BY <2>5, <2>6
<1>10. \A o \in Procs : AnsweredIn(down'[o], up'[o], pending[o])
  <2> HIDE DEF R, inc, m, q, Notify
  <2>1. CASE R(0) \in Events /\ down' = Notify(down, p, R(0))
    <3>1. \A o \in Procs : AnsweredIn(Notify(down, p, R(0))[o], up'[o], pending[o])
      BY <2>1, <1>2, <1>9
    <3> QED
      BY <2>1, <3>1
  <2>2. CASE /\ q \in Procs /\ R(nextConn) \in Events /\ inc \in Events
             /\ down' = Notify(Notify(down, p, R(nextConn)), q, inc)
    <3>1. PICK d \in [Procs -> Seq(Events)] :
            /\ d = Notify(down, p, R(nextConn))
            /\ \A o \in Procs : AnsweredIn(d[o], up'[o], pending[o])
      <4>1. /\ Notify(down, p, R(nextConn)) \in [Procs -> Seq(Events)]
            /\ \A o \in Procs : AnsweredIn(Notify(down, p, R(nextConn))[o], up'[o], pending[o])
        BY <2>2, <1>2, <1>9
      <4> QED
        BY <4>1
    <3>2. Told(d, Notify(d, q, inc))
      BY <2>2, <1>3, NotifyTold
    <3>3. down' = Notify(d, q, inc)
      BY <2>2, <3>1
    <3> SUFFICES ASSUME NEW o \in Procs PROVE AnsweredIn(down'[o], up'[o], pending[o])
      OBVIOUS
    <3>4. \/ down'[o] = <<>>
          \/ /\ Len(d[o]) <= Len(down'[o])
             /\ \A i \in 1..Len(d[o]) : down'[o][i] = d[o][i]
             /\ \A i \in 1..Len(down'[o]) : down'[o][i].type = "result" => i <= Len(d[o])
      BY <3>2, <3>3 DEF Told
    <3>5. d[o] \in Seq(Events) /\ down'[o] \in Seq(Events) /\ up'[o] \in Seq(Messages)
      BY DEF TypeOK
    <3>6. AnsweredIn(d[o], up'[o], pending[o])
      BY <3>1
    <3> QED
      BY <3>4, <3>5, <3>6, TicketsTold
  <2> QED
    BY <1>1, <2>1, <2>2
<1>11. TicketsAnswered'
  BY <1>10 DEF TicketsAnswered
<1>12. Room'
  <2>1. \A t : HasAsk(up[p], t)' => HasAsk(up[p], t)
    BY <1>6, <1>7
  <2>2. Asked' \subseteq Asked
    BY <1>6, <2>1, AskedMoves
  <2>12. PICK t \in Tickets : t = m.ticket
    BY <1>1
  <2>3. ~HasAsk(up[p], t)'
    BY <1>6, <1>7, <2>12
  <2>4. <<p, t>> \notin Asked'
    BY <1>6, <2>3, AskedMoves
  <2>5. <<p, t>> \in Asked /\ Cardinality(Asked) \in Nat
        /\ nextConn + 2 * Cardinality(Asked) <= 2 * MaxConns + 1
    BY <1>1, <2>12, ConnectHasRoom
  <2>6. IsFiniteSet(Asked)
    BY AskedFinite
  <2>7. IsFiniteSet(Asked \ {<<p, t>>})
        /\ Cardinality(Asked \ {<<p, t>>}) = Cardinality(Asked) - 1
    BY <2>5, <2>6, FS_RemoveElement
  <2>8. Asked' \subseteq Asked \ {<<p, t>>}
    BY <2>2, <2>4
  <2>9. IsFiniteSet(Asked') /\ Cardinality(Asked') <= Cardinality(Asked) - 1
    BY <2>7, <2>8, FS_Subset
  <2>10. Cardinality(Asked') \in Nat
    BY <2>9, FS_CardinalityType
  <2>11. nextConn' \in {nextConn, nextConn + 2} /\ nextConn \in Nat /\ nextConn >= 1
    BY <1>1 DEF TypeOK, Room
  <2> HIDE DEF m
  <2> QED
    BY <2>5, <2>9, <2>10, <2>11, NetAssumption DEF Room
<1> QED
  BY <1>8, <1>11, <1>12

-----------------------------------------------------------------------------
(* Ports.                                                                   *)

Frees(u, s) == \E i \in 1..Len(u) : u[i].type = "release" /\ Named(u[i]) = s
FreesOnce(u) == \A i, j \in 1..Len(u) :
  u[i].type = "release" /\ u[j].type = "release" /\ Named(u[i]) = Named(u[j]) => i = j

\* The kernel has a port down as a process's exactly when the process listens
\* on it or its one release is under way.
PortsAgree ==
  \A p \in Procs :
    /\ FreesOnce(up[p])
    /\ \A s \in Protos \X AllPorts :
         /\ bound[s] = p <=> s \in servers[p] \/ Frees(up[p], s)
         /\ ~(s \in servers[p] /\ Frees(up[p], s))

\* What a message more does to the releases under way.
LEMMA FreesPost ==
  ASSUME NEW u \in Seq(Messages), NEW m \in Messages, FreesOnce(u)
  PROVE  /\ m.type # "release" => /\ FreesOnce(u \o <<m>>)
                                  /\ \A s : Frees(u \o <<m>>, s) <=> Frees(u, s)
         /\ m.type = "release" /\ ~Frees(u, Named(m)) =>
              /\ FreesOnce(u \o <<m>>)
              /\ \A s : Frees(u \o <<m>>, s) <=> (Frees(u, s) \/ s = Named(m))
<1> DEFINE v == u \o <<m>>
<1>1. /\ Len(v) = Len(u) + 1 /\ v[Len(u) + 1] = m /\ Len(u) \in Nat
      /\ \A i \in 1..Len(u) : v[i] = u[i]
  BY AtEnd
<1> HIDE DEF v
<1>2. \A i \in 1..Len(v) : (i \in 1..Len(u) /\ v[i] = u[i]) \/ (i = Len(u) + 1 /\ v[i] = m)
  <2>1. \A i \in 1..Len(v) : i \in 1..Len(u) \/ i = Len(u) + 1
    BY <1>1
  <2> QED
    BY <2>1, <1>1
<1>3. (\A i \in 1..Len(u) : i \in 1..Len(v) /\ v[i] = u[i]) /\ Len(u) + 1 \in 1..Len(v)
  BY <1>1
<1>4. ASSUME m.type # "release" PROVE FreesOnce(v) /\ \A s : Frees(v, s) <=> Frees(u, s)
  <2>1. \A s : Frees(v, s) <=> Frees(u, s)
    BY <1>2, <1>3, <1>4 DEF Frees
  <2>2. FreesOnce(v)
    BY <1>2, <1>4 DEF FreesOnce
  <2> QED
    BY <2>1, <2>2
<1>5. ASSUME m.type = "release", ~Frees(u, Named(m))
      PROVE  FreesOnce(v) /\ \A s : Frees(v, s) <=> (Frees(u, s) \/ s = Named(m))
  <2>1. \A s : Frees(v, s) => Frees(u, s) \/ s = Named(m)
    BY <1>2 DEF Frees
  <2>2. \A s : Frees(u, s) => Frees(v, s)
    BY <1>3 DEF Frees
  <2>3. Frees(v, Named(m))
    BY <1>1, <1>3, <1>5 DEF Frees
  <2>4. \A i \in 1..Len(u) : u[i].type = "release" => Named(u[i]) # Named(m)
    BY <1>5 DEF Frees
  <2>5. FreesOnce(v)
    <3> SUFFICES ASSUME NEW i \in 1..Len(v), NEW j \in 1..Len(v),
                        v[i].type = "release", v[j].type = "release", Named(v[i]) = Named(v[j])
                 PROVE  i = j
      BY DEF FreesOnce
    <3>1. CASE i \in 1..Len(u) /\ v[i] = u[i]
      <4>1. j \in 1..Len(u) /\ v[j] = u[j]
        BY <3>1, <2>4, <1>2
      <4> QED
        BY <3>1, <4>1 DEF FreesOnce
    <3>2. CASE i = Len(u) + 1 /\ v[i] = m
      BY <3>2, <2>4, <1>2
    <3> QED
      BY <3>1, <3>2, <1>2
  <2> QED
    BY <2>1, <2>2, <2>3, <2>5
<1> QED
  BY <1>4, <1>5 DEF v

\* What taking the first message does to them.
LEMMA FreesTake ==
  ASSUME NEW u \in Seq(Messages), u # <<>>, FreesOnce(u)
  PROVE  /\ FreesOnce(Tail(u))
         /\ Head(u).type # "release" => \A s : Frees(Tail(u), s) <=> Frees(u, s)
         /\ Head(u).type = "release" => /\ Frees(u, Named(Head(u)))
                                        /\ \A s : Frees(Tail(u), s) <=> (Frees(u, s) /\ s # Named(Head(u)))
<1> DEFINE v == Tail(u)
<1>1. /\ Len(v) = Len(u) - 1 /\ Len(u) \in Nat \ {0} /\ Head(u) = u[1]
      /\ \A i \in 1..Len(u) - 1 : v[i] = u[i + 1]
  BY FromFront
<1> HIDE DEF v
<1>2. \A i \in 1..Len(v) : i + 1 \in 1..Len(u) /\ v[i] = u[i + 1] /\ i + 1 # 1
  BY <1>1
<1>3. 1 \in 1..Len(u) /\ \A i \in 1..Len(u) : i # 1 => i - 1 \in 1..Len(v) /\ v[i - 1] = u[i]
  BY <1>1
<1>4. FreesOnce(v)
  <2> SUFFICES ASSUME NEW i \in 1..Len(v), NEW j \in 1..Len(v),
                      v[i].type = "release", v[j].type = "release", Named(v[i]) = Named(v[j])
               PROVE  i = j
    BY DEF FreesOnce
  <2>1. i + 1 = j + 1
    BY <1>2 DEF FreesOnce
  <2> QED
    BY <2>1
<1>5. \A s : Frees(v, s) => Frees(u, s)
  BY <1>2 DEF Frees
<1>6. \A s : Frees(u, s) => Frees(v, s) \/ (Head(u).type = "release" /\ s = Named(Head(u)))
  <2> SUFFICES ASSUME NEW s, Frees(u, s)
               PROVE  Frees(v, s) \/ (Head(u).type = "release" /\ s = Named(Head(u)))
    OBVIOUS
  <2>1. PICK i \in 1..Len(u) : u[i].type = "release" /\ Named(u[i]) = s
    BY DEF Frees
  <2>2. CASE i = 1
    BY <2>1, <2>2, <1>1
  <2>3. CASE i # 1
    BY <2>1, <2>3, <1>3 DEF Frees
  <2> QED
    BY <2>2, <2>3
<1>7. ASSUME Head(u).type = "release" PROVE Frees(u, Named(Head(u))) /\ ~Frees(v, Named(Head(u)))
  <2>1. Frees(u, Named(Head(u)))
    BY <1>1, <1>3, <1>7 DEF Frees
  <2>2. ASSUME Frees(v, Named(Head(u))) PROVE FALSE
    <3>1. PICK i \in 1..Len(v) : v[i].type = "release" /\ Named(v[i]) = Named(Head(u))
      BY <2>2 DEF Frees
    <3>2. i + 1 = 1
      BY <3>1, <1>1, <1>2, <1>3, <1>7 DEF FreesOnce
    <3> QED
      BY <3>2, <1>2
  <2> QED
    BY <2>1, <2>2
<1> QED
  BY <1>4, <1>5, <1>6, <1>7 DEF v

\* A process's own steps keep the ports in agreement.
LEMMA PortsKeptByGuest ==
  ASSUME TypeOK, TypeOK', PortsAgree, NEW p \in Procs, Guest(p)
  PROVE  PortsAgree'
<1>1. UNCHANGED bound
  BY GuestDoes DEF kernel
<1>2. /\ FreesOnce(up[p])
      /\ \A s \in Protos \X AllPorts : /\ bound[s] = p <=> s \in servers[p] \/ Frees(up[p], s)
                                       /\ ~(s \in servers[p] /\ Frees(up[p], s))
  BY DEF PortsAgree
<1>3. up[p] \in Seq(Messages) /\ servers[p] \in SUBSET (Protos \X AllPorts)
  BY DEF TypeOK
<1>4. ASSUME \A q \in Procs : q # p => up'[q] = up[q] /\ servers'[q] = servers[q],
             FreesOnce(up'[p]),
             \A s \in Protos \X AllPorts :
               /\ bound[s] = p <=> s \in servers'[p] \/ Frees(up'[p], s)
               /\ ~(s \in servers'[p] /\ Frees(up'[p], s))
      PROVE  PortsAgree'
  BY <1>1, <1>4 DEF PortsAgree
<1>5. CASE UNCHANGED up /\ UNCHANGED servers
  BY <1>2, <1>4, <1>5
<1>6. ASSUME NEW m \in Messages, Post(p, <<m>>), m.type # "release", UNCHANGED servers PROVE PortsAgree'
  <2>1. up'[p] = up[p] \o <<m>> /\ \A q \in Procs : q # p => up'[q] = up[q]
    BY <1>6 DEF Post, TypeOK
  <2>2. FreesOnce(up[p] \o <<m>>) /\ \A s : Frees(up[p] \o <<m>>, s) <=> Frees(up[p], s)
    BY <1>2, <1>3, <1>6, FreesPost
  <2>3. FreesOnce(up'[p]) /\ \A s : Frees(up'[p], s) <=> Frees(up[p], s)
    BY <2>1, <2>2
  <2> QED
    BY <2>1, <2>3, <1>2, <1>4, <1>6
<1>7. ASSUME NEW m \in Messages, Post(p, <<m>>), m.type = "release", Named(m) \in servers[p],
             servers' = [servers EXCEPT ![p] = @ \ {Named(m)}]
      PROVE  PortsAgree'
  <2>1. up'[p] = up[p] \o <<m>> /\ \A q \in Procs : q # p => up'[q] = up[q]
    BY <1>7 DEF Post, TypeOK
  <2>2. Named(m) \in Protos \X AllPorts
    BY <1>3, <1>7
  <2>3. ~Frees(up[p], Named(m))
    BY <2>2, <1>2, <1>7
  <2>4. FreesOnce(up[p] \o <<m>>) /\ \A s : Frees(up[p] \o <<m>>, s) <=> (Frees(up[p], s) \/ s = Named(m))
    BY <2>3, <1>2, <1>3, <1>7, FreesPost
  <2>5. FreesOnce(up'[p]) /\ \A s : Frees(up'[p], s) <=> (Frees(up[p], s) \/ s = Named(m))
    BY <2>1, <2>4
  <2>6. servers'[p] = servers[p] \ {Named(m)} /\ \A q \in Procs : q # p => servers'[q] = servers[q]
    BY <1>7 DEF TypeOK
  <2>7. \A s \in Protos \X AllPorts :
          /\ bound[s] = p <=> s \in servers'[p] \/ Frees(up'[p], s)
          /\ ~(s \in servers'[p] /\ Frees(up'[p], s))
    <3> SUFFICES ASSUME NEW s \in Protos \X AllPorts
                 PROVE  /\ bound[s] = p <=> s \in servers'[p] \/ Frees(up'[p], s)
                        /\ ~(s \in servers'[p] /\ Frees(up'[p], s))
      OBVIOUS
    <3>1. CASE s = Named(m)
      BY <3>1, <2>5, <2>6, <1>2, <1>7
    <3>2. CASE s # Named(m)
      BY <3>2, <2>5, <2>6, <1>2
    <3> QED
      BY <3>1, <3>2
  <2> QED
    BY <2>1, <2>5, <2>6, <2>7, <1>4
<1>8. \/ UNCHANGED up /\ UNCHANGED servers
      \/ \E m \in Messages : Post(p, <<m>>) /\ m.type # "release" /\ UNCHANGED servers
      \/ \E m \in Messages :
           /\ Post(p, <<m>>) /\ m.type = "release" /\ Named(m) \in servers[p]
           /\ servers' = [servers EXCEPT ![p] = @ \ {Named(m)}]
  BY GuestDoes
<1> QED
  BY <1>5, <1>6, <1>7, <1>8

\* A port that was free becomes its taker's.
LEMMA PortsKeptByService ==
  ASSUME TypeOK, PortsAgree, NEW p \in Procs, Service(p)
  PROVE  PortsAgree'
<1>1. UNCHANGED up
  BY DEF Service
<1>2. CASE bound' = bound /\ servers' = servers
  BY <1>1, <1>2 DEF PortsAgree
<1>3. ASSUME NEW s \in Protos \X AllPorts, bound[s] = Nobody, bound' = [bound EXCEPT ![s] = p],
             servers' = [servers EXCEPT ![p] = @ \cup {s}]
      PROVE  PortsAgree'
  <2>1. bound'[s] = p /\ \A o \in Protos \X AllPorts : o # s => bound'[o] = bound[o]
    BY <1>3 DEF TypeOK
  <2>2. servers'[p] = servers[p] \cup {s} /\ \A q \in Procs : q # p => servers'[q] = servers[q]
    BY <1>3 DEF TypeOK
  <2> SUFFICES ASSUME NEW q \in Procs
               PROVE  /\ FreesOnce(up'[q])
                      /\ \A o \in Protos \X AllPorts :
                           /\ bound'[o] = q <=> o \in servers'[q] \/ Frees(up'[q], o)
                           /\ ~(o \in servers'[q] /\ Frees(up'[q], o))
    BY DEF PortsAgree
  <2>3. FreesOnce(up'[q])
    BY <1>1 DEF PortsAgree
  <2>4. ASSUME NEW o \in Protos \X AllPorts
        PROVE  /\ bound'[o] = q <=> o \in servers'[q] \/ Frees(up'[q], o)
               /\ ~(o \in servers'[q] /\ Frees(up'[q], o))
    <3>1. /\ bound[o] = q <=> o \in servers[q] \/ Frees(up'[q], o)
          /\ ~(o \in servers[q] /\ Frees(up'[q], o))
      BY <1>1 DEF PortsAgree
    <3>2. CASE o = s
      <4>1. bound[o] # q /\ ~(o \in servers[q]) /\ ~Frees(up'[q], o)
        BY <3>1, <3>2, <1>3, NetAssumption
      <4>2. CASE q = p
        BY <3>2, <4>1, <4>2, <2>1, <2>2
      <4>3. CASE q # p
        BY <3>2, <4>1, <4>3, <2>1, <2>2
      <4> QED
        BY <4>2, <4>3
    <3>3. CASE o # s
      <4>1. bound'[o] = bound[o] /\ (o \in servers'[q] <=> o \in servers[q])
        BY <3>3, <2>1, <2>2
      <4> QED
        BY <4>1, <3>1
    <3> QED
      BY <3>2, <3>3
  <2> QED
    BY <2>3, <2>4
<1> QED
  BY <1>2, <1>3, ServiceDoes

\* A release frees the port, and other messages leave it alone.
LEMMA PortsKeptByRelay ==
  ASSUME TypeOK, PortsAgree, NEW p \in Procs, up[p] # <<>>, up' = [up EXCEPT ![p] = Tail(@)],
         UNCHANGED servers,
         \/ RelayRelease(p, Head(up[p]))
         \/ Head(up[p]).type # "release" /\ UNCHANGED bound
  PROVE  PortsAgree'
<1> DEFINE m == Head(up[p])
<1>1. up'[p] = Tail(up[p]) /\ \A q \in Procs : q # p => up'[q] = up[q]
  BY DEF TypeOK
<1>2. /\ up[p] \in Seq(Messages) /\ FreesOnce(up[p])
      /\ \A s \in Protos \X AllPorts : /\ bound[s] = p <=> s \in servers[p] \/ Frees(up[p], s)
                                       /\ ~(s \in servers[p] /\ Frees(up[p], s))
  BY DEF TypeOK, PortsAgree
<1>3. /\ FreesOnce(Tail(up[p]))
      /\ m.type # "release" => \A s : Frees(Tail(up[p]), s) <=> Frees(up[p], s)
      /\ m.type = "release" => /\ Frees(up[p], Named(m))
                               /\ \A s : Frees(Tail(up[p]), s) <=> (Frees(up[p], s) /\ s # Named(m))
  BY <1>2, FreesTake
<1>4. CASE m.type # "release" /\ UNCHANGED bound
  <2> SUFFICES ASSUME NEW q \in Procs
               PROVE  /\ FreesOnce(up'[q])
                      /\ \A s \in Protos \X AllPorts :
                           /\ bound'[s] = q <=> s \in servers'[q] \/ Frees(up'[q], s)
                           /\ ~(s \in servers'[q] /\ Frees(up'[q], s))
    BY DEF PortsAgree
  <2>1. CASE q = p
    BY <2>1, <1>1, <1>2, <1>3, <1>4
  <2>2. CASE q # p
    BY <2>2, <1>1, <1>4 DEF PortsAgree
  <2> QED
    BY <2>1, <2>2
<1>5. CASE RelayRelease(p, m)
  <2>1. m \in Messages /\ m.type = "release"
    BY <1>2, <1>5, FromFront DEF RelayRelease
  <2>2. PICK s0 \in Protos \X AllPorts : s0 = Named(m)
    BY <2>1, MessageFields DEF Named
  <2>3. bound[s0] = p /\ ~(s0 \in servers[p])
    BY <2>1, <2>2, <1>2, <1>3
  <2>4. bound' = [bound EXCEPT ![s0] = Nobody]
    BY <2>2, <2>3, <1>5 DEF RelayRelease, Named
  <2>5. bound'[s0] = Nobody /\ \A s \in Protos \X AllPorts : s # s0 => bound'[s] = bound[s]
    BY <2>4 DEF TypeOK
  <2> SUFFICES ASSUME NEW q \in Procs
               PROVE  /\ FreesOnce(up'[q])
                      /\ \A s \in Protos \X AllPorts :
                           /\ bound'[s] = q <=> s \in servers'[q] \/ Frees(up'[q], s)
                           /\ ~(s \in servers'[q] /\ Frees(up'[q], s))
    BY DEF PortsAgree
  <2>6. CASE q = p
    <3>1. FreesOnce(up'[q])
      BY <2>6, <1>1, <1>3
    <3>2. \A s : Frees(up'[q], s) <=> (Frees(up[p], s) /\ s # s0)
      BY <2>6, <1>1, <1>3, <2>1, <2>2
    <3>3. ASSUME NEW s \in Protos \X AllPorts
          PROVE  /\ bound'[s] = q <=> s \in servers'[q] \/ Frees(up'[q], s)
                 /\ ~(s \in servers'[q] /\ Frees(up'[q], s))
      <4>1. CASE s = s0
        BY <4>1, <3>2, <2>3, <2>5, <2>6, NetAssumption
      <4>2. CASE s # s0
        BY <4>2, <3>2, <2>5, <2>6, <1>2
      <4> QED
        BY <4>1, <4>2
    <3> QED
      BY <3>1, <3>3
  <2>7. CASE q # p
    <3>1. FreesOnce(up[q]) /\ up'[q] = up[q]
      BY <2>7, <1>1 DEF PortsAgree
    <3>2. ASSUME NEW s \in Protos \X AllPorts
          PROVE  /\ bound'[s] = q <=> s \in servers'[q] \/ Frees(up'[q], s)
                 /\ ~(s \in servers'[q] /\ Frees(up'[q], s))
      <4>1. /\ bound[s] = q <=> s \in servers[q] \/ Frees(up[q], s)
            /\ ~(s \in servers[q] /\ Frees(up[q], s))
        BY DEF PortsAgree
      <4>2. bound'[s] = q <=> bound[s] = q
        BY <2>3, <2>5, <2>7, NetAssumption
      <4> QED
        BY <3>1, <4>1, <4>2
    <3> QED
      BY <3>1, <3>2
  <2> QED
    BY <2>6, <2>7
<1> QED
  BY <1>4, <1>5

\* The end of a process frees its ports.
LEMMA PortsKeptByFinalize ==
  ASSUME TypeOK, PortsAgree, NEW p \in Procs, Finalize(p), up' = [up EXCEPT ![p] = <<>>]
  PROVE  PortsAgree'
<1>1. up'[p] = <<>> /\ \A q \in Procs : q # p => up'[q] = up[q]
  BY DEF TypeOK
<1>2. servers'[p] = {} /\ \A q \in Procs : q # p => servers'[q] = servers[q]
  BY DEF TypeOK, Finalize
<1>3. \A s \in Protos \X AllPorts : bound'[s] = IF bound[s] = p THEN Nobody ELSE bound[s]
  BY DEF TypeOK, Finalize
<1> SUFFICES ASSUME NEW q \in Procs
             PROVE  /\ FreesOnce(up'[q])
                    /\ \A s \in Protos \X AllPorts :
                         /\ bound'[s] = q <=> s \in servers'[q] \/ Frees(up'[q], s)
                         /\ ~(s \in servers'[q] /\ Frees(up'[q], s))
  BY DEF PortsAgree
<1>4. CASE q = p
  <2>1. FreesOnce(up'[q]) /\ \A s : ~Frees(up'[q], s)
    BY <1>1, <1>4 DEF FreesOnce, Frees
  <2>2. \A s \in Protos \X AllPorts : bound'[s] # q
    BY <1>3, <1>4, NetAssumption
  <2> QED
    BY <2>1, <2>2, <1>2, <1>4
<1>5. CASE q # p
  <2>1. \A s \in Protos \X AllPorts : bound'[s] = q <=> bound[s] = q
    BY <1>3, <1>5, NetAssumption
  <2> QED
    BY <2>1, <1>1, <1>2, <1>5 DEF PortsAgree
<1> QED
  BY <1>4, <1>5

-----------------------------------------------------------------------------
(* Connections, and the theorems.                                           *)

\* A new connection is a pair of new ids.
LEMMA PairsKeptByConnect ==
  ASSUME TypeOK, Room, Pairs, GoneIsGone, PortsAgree, NEW p \in Procs, up[p] # <<>>,
         RelayConnect(p, Head(up[p]))
  PROVE  Pairs'
<1> USE DEF kernel
<1> DEFINE q == bound[<<"tcp", Head(up[p]).port>>]
<1>1. UNCHANGED life
  BY DEF RelayConnect
<1>2. CASE UNCHANGED <<conns, nextConn>>
  BY <1>1, <1>2 DEF Pairs, Alive
<1>3. CASE /\ q \in Procs
           /\ conns' = [conns EXCEPT ![nextConn] = [pid |-> p, peer |-> nextConn + 1],
                                     ![nextConn + 1] = [pid |-> q, peer |-> nextConn]]
           /\ nextConn' = nextConn + 2
  <2>1. Head(up[p]) \in Messages /\ Head(up[p]).type = "connect"
        /\ nextConn \in Ids /\ nextConn + 1 \in Ids /\ nextConn \in Nat
    BY ConnectDoes DEF TypeOK
  <2>2. <<"tcp", Head(up[p]).port>> \in Protos \X AllPorts
    BY <2>1, MessageFields, NetAssumption
  <2>3. Alive(p)
    BY DEF GoneIsGone
  <2>4. Alive(q)
    <3>1. <<"tcp", Head(up[p]).port>> \in servers[q] \/ Frees(up[q], <<"tcp", Head(up[p]).port>>)
      BY <1>3, <2>2 DEF PortsAgree
    <3>2. ~Alive(q) => servers[q] = {} /\ up[q] = <<>>
      BY <1>3 DEF GoneIsGone
    <3>3. \A s : ~Frees(<<>>, s)
      BY DEF Frees
    <3> QED
      BY <3>1, <3>2, <3>3
  <2> HIDE DEF q
  <2>5. conns'[nextConn + 1] = [pid |-> q, peer |-> nextConn]
        /\ \A id \in Ids : id # nextConn /\ id # nextConn + 1 => conns'[id] = conns[id]
    BY <1>3, <2>1 DEF TypeOK
  <2>6. conns'[nextConn] = [pid |-> p, peer |-> nextConn + 1]
    BY <1>3, <2>1 DEF TypeOK
  <2>7. conns'[nextConn] # NoConn /\ conns'[nextConn + 1] # NoConn
    BY <1>3, <2>5, <2>6, NetAssumption DEF NoConn
  <2> SUFFICES ASSUME NEW id \in Ids, conns'[id] # NoConn
               PROVE  /\ Alive(conns'[id].pid) /\ id < nextConn'
                      /\ conns'[id].peer # id
                      /\ conns'[conns'[id].peer] # NoConn
                      /\ conns'[conns'[id].peer].peer = id
    BY <1>1 DEF Pairs, Alive
  <2>9. CASE id = nextConn
    BY <2>9, <2>1, <2>3, <2>5, <2>6, <2>7, <1>3
  <2>10. CASE id = nextConn + 1
    BY <2>10, <2>1, <2>4, <2>5, <2>6, <2>7, <1>3
  <2>11. CASE id # nextConn /\ id # nextConn + 1
    <3>1. conns'[id] = conns[id] /\ conns[id] # NoConn
      BY <2>11, <2>5
    <3>2. /\ Alive(conns[id].pid) /\ id < nextConn
          /\ conns[id].peer # id
          /\ conns[conns[id].peer] # NoConn
          /\ conns[conns[id].peer].peer = id
      BY <3>1 DEF Pairs
    <3>3. conns[id].peer \in Ids
      BY <3>1, ConnFields
    <3>4. conns[id].peer < nextConn
      BY <3>2, <3>3 DEF Pairs
    <3>5. conns[id].peer # nextConn /\ conns[id].peer # nextConn + 1
      BY <3>3, <3>4, <2>1 DEF Ids
    <3>6. conns'[conns[id].peer] = conns[conns[id].peer]
      BY <3>3, <3>5, <2>5
    <3>7. id < nextConn'
      BY <3>2, <2>1, <1>3 DEF Ids
    <3> QED
      BY <3>1, <3>2, <3>6, <3>7
  <2> QED
    BY <2>9, <2>10, <2>11
<1> QED
  BY <1>2, <1>3, ConnectDoes

\* A close takes both ends off the record.
LEMMA PairsKeptByClose ==
  ASSUME TypeOK, Pairs, NEW p \in Procs, NEW m \in Messages, RelayClose(p, m)
  PROVE  Pairs'
<1>1. m.id \in Ids
  BY MessageFields DEF RelayClose
<1>2. UNCHANGED <<life, nextConn>>
  BY DEF RelayClose
<1>3. CASE conns[m.id] = NoConn
  <2>1. UNCHANGED conns
    BY <1>3 DEF RelayClose
  <2> QED
    BY <2>1, <1>2 DEF Pairs, Alive
<1>4. CASE conns[m.id] # NoConn
  <2>1. PICK a \in Ids, b \in Ids : a = m.id /\ b = conns[m.id].peer
    BY <1>1, <1>4, ConnFields
  <2>2. conns[a] # NoConn /\ conns[a].peer = b /\ conns[b].peer = a
    BY <2>1, <1>4 DEF Pairs
  <2>3. conns' = [conns EXCEPT ![a] = NoConn, ![b] = NoConn]
    BY <2>1, <1>4 DEF RelayClose
  <2>4. conns'[a] = NoConn /\ conns'[b] = NoConn /\ \A id \in Ids : id # a /\ id # b => conns'[id] = conns[id]
    BY <2>3 DEF TypeOK
  <2> SUFFICES ASSUME NEW id \in Ids, conns'[id] # NoConn
               PROVE  /\ Alive(conns'[id].pid) /\ id < nextConn
                      /\ conns'[id].peer # id
                      /\ conns'[conns'[id].peer] # NoConn
                      /\ conns'[conns'[id].peer].peer = id
    BY <1>2 DEF Pairs, Alive
  <2>5. id # a /\ id # b /\ conns'[id] = conns[id] /\ conns[id] # NoConn
    BY <2>4
  <2>6. /\ Alive(conns[id].pid) /\ id < nextConn
        /\ conns[id].peer # id
        /\ conns[conns[id].peer] # NoConn
        /\ conns[conns[id].peer].peer = id
    BY <2>5 DEF Pairs
  <2>7. conns[id].peer \in Ids
    BY <2>5, ConnFields
  <2>8. conns[id].peer # a /\ conns[id].peer # b
    BY <2>2, <2>5, <2>6
  <2>9. conns'[conns[id].peer] = conns[conns[id].peer]
    BY <2>4, <2>7, <2>8
  <2> QED
    BY <2>5, <2>6, <2>9
<1> QED
  BY <1>3, <1>4

\* The end of a process takes off the record every connection it has an end of.
LEMMA PairsKeptByFinalize ==
  ASSUME TypeOK, Pairs, NEW p \in Procs, Finalize(p)
  PROVE  Pairs'
<1>1. /\ \A id \in Ids : conns'[id] = IF id \in Held(p) THEN NoConn ELSE conns[id]
      /\ UNCHANGED nextConn
  BY DEF Finalize
<1>2. \A q : q \in Procs /\ q # p => (Alive(q)' <=> Alive(q))
  BY DEF Finalize, Alive, TypeOK
<1> SUFFICES ASSUME NEW id \in Ids, conns'[id] # NoConn
             PROVE  /\ life'[conns'[id].pid] # "gone" /\ id < nextConn
                    /\ conns'[id].peer # id
                    /\ conns'[conns'[id].peer] # NoConn
                    /\ conns'[conns'[id].peer].peer = id
  BY <1>1 DEF Pairs, Alive
<1>3. id \notin Held(p) /\ conns'[id] = conns[id] /\ conns[id] # NoConn
  BY <1>1
<1>4. /\ Alive(conns[id].pid) /\ id < nextConn
      /\ conns[id].peer # id
      /\ conns[conns[id].peer] # NoConn
      /\ conns[conns[id].peer].peer = id
  BY <1>3 DEF Pairs
<1>5. conns[id].pid \in Procs /\ conns[id].peer \in Ids
  BY <1>3, ConnFields
<1>6. conns[id].pid # p /\ conns[conns[id].peer].pid # p
  BY <1>3 DEF Held
<1>7. conns[id].peer \notin Held(p)
  BY <1>4, <1>6 DEF Held
<1>8. conns'[conns[id].peer] = conns[conns[id].peer]
  BY <1>1, <1>5, <1>7
<1>9. PICK q \in Procs : q = conns[id].pid /\ q # p /\ q = conns'[id].pid
  BY <1>3, <1>5, <1>6
<1>10. life'[conns'[id].pid] # "gone"
  <2>1. Alive(q)'
    BY <1>2, <1>4, <1>9
  <2> QED
    BY <2>1, <1>9 DEF Alive
<1> QED
  BY <1>3, <1>4, <1>8, <1>10

\* What the kernel's handling of a message may change.
LEMMA RelayDoes ==
  ASSUME TypeOK, Pairs, NEW p \in Procs, Relay(p)
  PROVE  /\ up[p] # <<>> /\ Head(up[p]) \in Messages
         /\ \/ Finalize(p) /\ up' = [up EXCEPT ![p] = <<>>]
            \/ /\ up' = [up EXCEPT ![p] = Tail(@)]
               /\ UNCHANGED <<life, servers, pending>>
               /\ \/ RelayRelease(p, Head(up[p])) /\ UNCHANGED <<down, conns, nextConn>>
                  \/ /\ RelayConnect(p, Head(up[p])) /\ UNCHANGED bound
                     /\ Head(up[p]).type # "release"
                  \/ /\ RelayItem(p, Head(up[p])) \/ RelayClose(p, Head(up[p]))
                     /\ Head(up[p]).type # "release"
                     /\ Told(down, down') /\ UNCHANGED <<bound, nextConn>>
<1> USE DEF kernel, handles
<1>1. up[p] # <<>> /\ up[p] \in Seq(Messages)
  BY DEF Relay, TypeOK
<1>2. Head(up[p]) \in Messages
  BY <1>1, FromFront
<1>3. CASE RelayExit(p, Head(up[p])) /\ up' = [up EXCEPT ![p] = <<>>]
  BY <1>1, <1>2, <1>3 DEF RelayExit
<1>4. ASSUME up' = [up EXCEPT ![p] = Tail(@)], UNCHANGED <<asking, handles, ops>>,
             RelayRelease(p, Head(up[p]))
      PROVE  UNCHANGED <<life, servers, pending, down, conns, nextConn>>
  BY <1>4 DEF RelayRelease
<1>5. ASSUME UNCHANGED <<asking, handles, ops>>, RelayConnect(p, Head(up[p]))
      PROVE  UNCHANGED <<life, servers, pending, bound>> /\ Head(up[p]).type # "release"
  BY <1>5 DEF RelayConnect
<1>6. ASSUME UNCHANGED <<asking, handles, ops>>, RelayItem(p, Head(up[p])) \/ RelayClose(p, Head(up[p]))
      PROVE  /\ UNCHANGED <<life, servers, pending, bound, nextConn>>
             /\ Head(up[p]).type # "release" /\ Told(down, down')
  <2>1. Head(up[p]).type # "release" /\ Told(down, down')
    BY <1>2, <1>6, ItemDoes
  <2> QED
    BY <2>1, <1>6 DEF RelayItem, RelayClose
<1> QED
  BY <1>1, <1>2, <1>3, <1>4, <1>5, <1>6 DEF Relay

Inv == Typed /\ PortsAgree /\ Pairs

\* Every step keeps the invariant.
LEMMA InvKept ==
  ASSUME Inv, [Next]_vars
  PROVE  Inv'
<1> USE DEF Inv, Typed
<1>1. TypeOK'
  BY TypesKept
<1>2. CASE UNCHANGED vars
  <2>1. UNCHANGED <<life, up, down, bound, conns, nextConn, servers, pending>>
    BY <1>2 DEF vars, kernel, handles
  <2>2. GoneIsGone' /\ PortsAgree' /\ Pairs'
    BY <2>1 DEF GoneIsGone, Alive, PortsAgree, Pairs
  <2>3. TicketsAsked' /\ TicketsAnswered'
    BY <2>1 DEF TicketsAsked, TicketsAnswered
  <2>4. Room'
    BY <2>1 DEF Room, Asked, Asks
  <2> QED
    BY <1>1, <2>2, <2>3, <2>4
<1>3. ASSUME NEW p \in Procs, Guest(p) PROVE Inv'
  <2>1. life[p] = "running" /\ UNCHANGED <<bound, conns, nextConn>> /\ \A q \in Procs : Alive(q)' <=> Alive(q)
    BY <1>3, GuestDoes DEF kernel
  <2>2. TicketsAsked' /\ TicketsAnswered' /\ Room'
    BY <1>1, <1>3, TicketsKeptByGuest
  <2>3. PortsAgree'
    BY <1>1, <1>3, PortsKeptByGuest
  <2>4. \A q \in Procs : q # p => up'[q] = up[q] /\ servers'[q] = servers[q]
    <3>1. \/ UNCHANGED up /\ UNCHANGED servers
          \/ \E m \in Messages : Post(p, <<m>>) /\ UNCHANGED servers
          \/ \E m \in Messages : /\ Post(p, <<m>>)
                                 /\ servers' = [servers EXCEPT ![p] = @ \ {Named(m)}]
      BY <1>3, GuestDoes
    <3> QED
      BY <3>1 DEF Post, TypeOK
  <2>5. GoneIsGone'
    <3>1. Alive(p)
      BY <2>1 DEF Alive
    <3>2. \A q \in Procs : ~Alive(q)' => ~Alive(q) /\ q # p
      BY <3>1, <2>1
    <3> QED
      BY <3>2, <2>4 DEF GoneIsGone
  <2>6. Pairs'
    <3>1. \A id \in Ids : conns[id] # NoConn => (Alive(conns[id].pid)' <=> Alive(conns[id].pid))
      <4> SUFFICES ASSUME NEW id \in Ids, conns[id] # NoConn
                   PROVE  Alive(conns[id].pid)' <=> Alive(conns[id].pid)
        OBVIOUS
      <4>1. PICK q \in Procs : q = conns[id].pid
        BY ConnFields
      <4>2. UNCHANGED conns
        BY <2>1
      <4> QED
        BY <4>1, <4>2, <2>1 DEF Alive
    <3> QED
      BY <3>1, <2>1 DEF Pairs
  <2> QED
    BY <1>1, <2>2, <2>3, <2>5, <2>6
<1>4. ASSUME NEW p \in Procs, Dispatch(p) PROVE Inv'
  <2>1. UNCHANGED <<life, up, bound, conns, nextConn, servers>>
    BY <1>4 DEF Dispatch, kernel
  <2>2. TicketsAsked' /\ TicketsAnswered' /\ Room'
    BY <1>1, <1>4, TicketsKeptByDispatch
  <2>3. GoneIsGone' /\ PortsAgree' /\ Pairs'
    BY <2>1 DEF GoneIsGone, Alive, PortsAgree, Pairs
  <2> QED
    BY <1>1, <2>2, <2>3
<1>5. ASSUME NEW p \in Procs, Service(p) PROVE Inv'
  <2>1. UNCHANGED <<life, up, down, conns, nextConn, pending>> /\ life[p] = "running"
    BY <1>5 DEF Service
  <2>2. PortsAgree'
    BY <1>5, PortsKeptByService
  <2>3. Pairs' /\ TicketsAsked' /\ TicketsAnswered'
    BY <2>1 DEF Pairs, Alive, TicketsAsked, TicketsAnswered
  <2>4. Room'
    BY <2>1 DEF Room, Asked, Asks
  <2>5. GoneIsGone'
    <3>1. \/ servers' = servers
          \/ \E s \in Protos \X AllPorts : servers' = [servers EXCEPT ![p] = @ \cup {s}]
      BY <1>5, ServiceDoes
    <3>2. \A q \in Procs : q # p => servers'[q] = servers[q]
      BY <3>1 DEF TypeOK
    <3> QED
      BY <3>2, <2>1 DEF GoneIsGone, Alive
  <2> QED
    BY <1>1, <2>2, <2>3, <2>4, <2>5
<1>6. ASSUME NEW p \in Procs, Finalize(p), up' = [up EXCEPT ![p] = <<>>] PROVE Inv'
  <2>1. Told(down, down')
    BY <1>6, FinalizeDoes
  <2>2. /\ up'[p] = <<>> /\ down'[p] = <<>> /\ servers'[p] = {} /\ UNCHANGED nextConn
        /\ \A q \in Procs : q # p => up'[q] = up[q] /\ pending'[q] = pending[q]
                                     /\ servers'[q] = servers[q] /\ life'[q] = life[q]
    BY <1>6 DEF Finalize, TypeOK
  <2>3. TicketsAsked' /\ TicketsAnswered' /\ Room'
    BY <1>1, <2>1, <2>2, TicketsKeptByRelay
  <2>4. PortsAgree' /\ Pairs'
    BY <1>6, PortsKeptByFinalize, PairsKeptByFinalize
  <2>5. GoneIsGone'
    BY <2>2 DEF GoneIsGone, Alive
  <2> QED
    BY <1>1, <2>3, <2>4, <2>5
<1>7. ASSUME NEW p \in Procs, Relay(p) PROVE Inv'
  <2>1. CASE Finalize(p) /\ up' = [up EXCEPT ![p] = <<>>]
    BY <2>1, <1>6
  <2>2. CASE /\ up' = [up EXCEPT ![p] = Tail(@)]
             /\ UNCHANGED <<life, servers, pending>>
             /\ \/ RelayRelease(p, Head(up[p])) /\ UNCHANGED <<down, conns, nextConn>>
                \/ /\ RelayConnect(p, Head(up[p])) /\ UNCHANGED bound
                   /\ Head(up[p]).type # "release"
                \/ /\ RelayItem(p, Head(up[p])) \/ RelayClose(p, Head(up[p]))
                   /\ Head(up[p]).type # "release"
                   /\ Told(down, down') /\ UNCHANGED <<bound, nextConn>>
    <3>1. up[p] # <<>> /\ Head(up[p]) \in Messages
      BY <1>7, RelayDoes
    <3>2. up'[p] = Tail(up[p]) /\ \A q \in Procs : q # p => up'[q] = up[q]
      BY <2>2 DEF TypeOK
    <3>3. Alive(p)
      BY <3>1 DEF GoneIsGone
    <3>4. GoneIsGone'
      BY <3>2, <3>3, <2>2 DEF GoneIsGone, Alive
    <3>5. PortsAgree'
      BY <3>1, <2>2, PortsKeptByRelay
    <3>6. CASE RelayRelease(p, Head(up[p])) /\ UNCHANGED <<down, conns, nextConn>>
      <4>1. Told(down, down')
        BY <3>6, NothingTold
      <4>2. TicketsAsked' /\ TicketsAnswered' /\ Room'
        BY <4>1, <3>1, <3>2, <3>6, <2>2, <1>1, TicketsKeptByRelay
      <4>3. Pairs'
        BY <3>6, <2>2 DEF Pairs, Alive
      <4> QED
        BY <1>1, <3>4, <3>5, <4>2, <4>3
    <3>7. CASE RelayConnect(p, Head(up[p]))
      <4>1. TicketsAsked' /\ TicketsAnswered' /\ Room'
        BY <3>1, <3>3, <3>7, <2>2, <1>1, TicketsKeptByConnect
      <4>2. Pairs'
        BY <3>1, <3>7, PairsKeptByConnect
      <4> QED
        BY <1>1, <3>4, <3>5, <4>1, <4>2
    <3>8. CASE /\ RelayItem(p, Head(up[p])) \/ RelayClose(p, Head(up[p]))
               /\ Told(down, down') /\ UNCHANGED nextConn
      <4>1. TicketsAsked' /\ TicketsAnswered' /\ Room'
        BY <3>1, <3>2, <3>8, <2>2, <1>1, TicketsKeptByRelay
      <4>2. Pairs'
        <5>1. CASE RelayItem(p, Head(up[p]))
          BY <5>1 DEF RelayItem, kernel, Pairs, Alive
        <5>2. CASE RelayClose(p, Head(up[p]))
          BY <5>2, <3>1, PairsKeptByClose
        <5> QED
          BY <5>1, <5>2, <3>8
      <4> QED
        BY <1>1, <3>4, <3>5, <4>1, <4>2
    <3> QED
      BY <2>2, <3>6, <3>7, <3>8
  <2> QED
    BY <2>1, <2>2, <1>7, RelayDoes
<1> QED
  BY <1>2, <1>3, <1>4, <1>5, <1>6, <1>7 DEF Next, Kill

\* The invariant holds at first.
LEMMA InvAtFirst ==
  ASSUME Init
  PROVE  Inv
<1>1. 0 \in 0..MaxWrites /\ 0 \in 0..MaxOps /\ EphemeralStart \in EphemeralPorts
  BY NetAssumption DEF EphemeralPorts
<1>2. NoSock \in Sockets
  <2>1. <<>> \in Seq(Chunks \cup {EOF})
    OBVIOUS
  <2> QED
    BY <2>1, <1>1 DEF NoSock, Sockets
<1>3. sock \in [Procs -> [Ids -> Sockets]]
  BY <1>2 DEF Init
<1>4. up \in [Procs -> Seq(Messages)] /\ down \in [Procs -> Seq(Events)]
  <2>1. <<>> \in Seq(Messages) /\ <<>> \in Seq(Events)
    OBVIOUS
  <2> QED
    BY <2>1 DEF Init
<1>5. TypeOK
  BY <1>1, <1>3, <1>4 DEF Init, TypeOK
<1>6. GoneIsGone /\ TicketsAsked /\ TicketsAnswered /\ Pairs
  BY DEF Init, GoneIsGone, Alive, TicketsAsked, TicketsAnswered, AskedIn, AnsweredIn, Pairs
<1>7. PortsAgree
  BY NetAssumption DEF Init, PortsAgree, FreesOnce, Frees
<1>8. Room
  <2>1. Asked = {}
    BY DEF Init, Asked, Asks
  <2>2. Cardinality(Asked) = 0
    BY <2>1, FS_EmptySet
  <2> QED
    BY <2>2, NetAssumption DEF Init, Room
<1> QED
  BY <1>5, <1>6, <1>7, <1>8 DEF Inv, Typed

\* So it holds always.
LEMMA InvHolds == Spec => []Inv
<1>1. Init => Inv
  BY InvAtFirst
<1>2. Inv /\ [Next]_vars => Inv'
  BY InvKept
<1> QED
  BY <1>1, <1>2, PTL DEF Spec

\* The kernel's tables and those of the processes keep their types: no id is
\* given out twice, a ticket is answered with a handle, and allocation finds a
\* port of the range or none.
THEOREM NetTypeCorrect == Spec => []TypeOK
<1>1. Inv => TypeOK
  BY DEF Inv, Typed
<1> QED
  BY <1>1, InvHolds, PTL

\* The invariant gives the agreement of the tables.
LEMMA InvAgrees == Inv => TablesAgree
<1> SUFFICES ASSUME Inv PROVE TablesAgree
  OBVIOUS
<1>1. TypeOK /\ GoneIsGone /\ PortsAgree /\ Pairs
  BY DEF Inv, Typed
<1>2. DOMAIN bound = Protos \X AllPorts
  BY <1>1 DEF TypeOK
<1>3. ASSUME NEW s \in Protos \X AllPorts, NEW p \in Procs, s \in servers[p] PROVE bound[s] = p
  BY <1>1, <1>3 DEF PortsAgree
<1>4. ASSUME NEW s \in Protos \X AllPorts, bound[s] # Nobody
      PROVE  Alive(bound[s]) /\ (s \in servers[bound[s]] \/ Releases(bound[s], s))
  <2>1. PICK p \in Procs : p = bound[s]
    BY <1>1, <1>4 DEF TypeOK
  <2>2. s \in servers[p] \/ Frees(up[p], s)
    BY <2>1, <1>1 DEF PortsAgree
  <2>3. Frees(up[p], s) => Releases(p, s)
    BY DEF Frees, Releases, Named
  <2>4. Alive(p)
    <3>1. ~Alive(p) => servers[p] = {} /\ up[p] = <<>>
      BY <1>1 DEF GoneIsGone
    <3>2. ~Frees(<<>>, s)
      BY DEF Frees
    <3> QED
      BY <3>1, <3>2, <2>2
  <2> QED
    BY <2>1, <2>2, <2>3, <2>4
<1> QED
  BY <1>1, <1>2, <1>3, <1>4 DEF TablesAgree, Pairs

\* A port is held exactly as long as a handle listens on it or its release is
\* on the way, and no listener, binding or half connection outlives its
\* process, in any order of closes, exits, kills and connects.
THEOREM NetTablesAgree == Spec => []TablesAgree
BY InvHolds, InvAgrees, PTL

-----------------------------------------------------------------------------
(* What a queue holds for an end.                                           *)

Items == Chunks \cup {EOF}

\* What ItemsOf computes: the items of the first k messages.
Runs(f, q, id) ==
  f = [k \in 0..Len(q) |-> IF k = 0 THEN <<>>
                           ELSE IF IsItem(q[k], id) THEN Append(f[k - 1], Item(q[k]))
                           ELSE f[k - 1]]

\* Two sequences that agree have the same items, as far as they agree.
LEMMA RunsAgree ==
  ASSUME NEW id, NEW q, NEW r, Len(q) \in Nat, Len(r) \in Nat, NEW f, NEW g,
         Runs(f, q, id), Runs(g, r, id),
         NEW n \in Nat, n <= Len(q), n <= Len(r), \A i \in 1..n : q[i] = r[i]
  PROVE  f[n] = g[n]
<1> DEFINE Apart == {k \in 0..n : f[k] # g[k]}
<1>1. SUFFICES ASSUME f[n] # g[n] PROVE FALSE
  OBVIOUS
<1>2. Apart \in SUBSET Nat /\ Apart # {}
  BY <1>1
<1>3. PICK k \in Apart : \A j \in Apart : k <= j
  BY <1>2, Least
<1>4. /\ \A i \in 0..Len(q) : f[i] = IF i = 0 THEN <<>>
                           ELSE IF IsItem(q[i], id) THEN Append(f[i - 1], Item(q[i]))
                           ELSE f[i - 1]
      /\ \A i \in 0..Len(r) : g[i] = IF i = 0 THEN <<>>
                           ELSE IF IsItem(r[i], id) THEN Append(g[i - 1], Item(r[i]))
                           ELSE g[i - 1]
  BY DEF Runs
<1>5. k # 0
  BY <1>3, <1>4
<1>6. k - 1 \in 0..n /\ k - 1 \notin Apart /\ k \in 1..n
  BY <1>3, <1>5
<1>7. f[k - 1] = g[k - 1] /\ q[k] = r[k]
  BY <1>6
<1> QED
  BY <1>3, <1>4, <1>5, <1>6, <1>7

\* The recursion has a solution.
LEMMA RunsExist ==
  ASSUME NEW id, NEW q, Len(q) \in Nat
  PROVE  \E f : Runs(f, q, id)
<1> DEFINE Upto(f, n) ==
      f = [k \in 0..n |-> IF k = 0 THEN <<>>
                          ELSE IF IsItem(q[k], id) THEN Append(f[k - 1], Item(q[k]))
                          ELSE f[k - 1]]
<1> DEFINE Bad == {n \in Nat : ~\E f : Upto(f, n)}
<1>1. CASE Bad = {}
  BY <1>1 DEF Runs
<1>2. CASE Bad # {}
  <2>1. PICK n \in Bad : \A m \in Bad : n <= m
    BY <1>2, Least
  <2>2. n # 0
    <3>1. Upto([k \in 0..0 |-> <<>>], 0)
      OBVIOUS
    <3> QED
      BY <3>1, <2>1
  <2>3. n \in Nat /\ n - 1 \in Nat /\ n - 1 \notin Bad
    <3>1. Bad \in SUBSET Nat
      OBVIOUS
    <3> HIDE DEF Bad
    <3> QED
      BY <3>1, <2>1, <2>2
  <2>4. PICK f : Upto(f, n - 1)
    BY <2>3
  <2> DEFINE g == [k \in 0..n |-> IF k < n THEN f[k]
                                  ELSE IF IsItem(q[k], id) THEN Append(f[k - 1], Item(q[k]))
                                  ELSE f[k - 1]]
  <2> DEFINE h == [k \in 0..n |-> IF k = 0 THEN <<>>
                          ELSE IF IsItem(q[k], id) THEN Append(g[k - 1], Item(q[k]))
                          ELSE g[k - 1]]
  <2>5. ASSUME NEW k \in 0..n PROVE g[k] = h[k]
    <3>1. CASE k = n
      <4>1. k # 0 /\ k - 1 \in 0..n /\ k - 1 < n
        BY <3>1, <2>2, <2>3
      <4>2. g[k - 1] = f[k - 1]
        BY <4>1
      <4> QED
        BY <3>1, <4>1, <4>2
    <3>2. CASE k # n
      <4>1. k \in 0..n - 1 /\ k < n
        BY <3>2, <2>3
      <4>2. f[k] = IF k = 0 THEN <<>>
                   ELSE IF IsItem(q[k], id) THEN Append(f[k - 1], Item(q[k])) ELSE f[k - 1]
        BY <4>1, <2>4
      <4>3. g[k] = f[k]
        BY <4>1
      <4>4. k # 0 => k - 1 \in 0..n /\ k - 1 < n
        BY <4>1
      <4>5. k # 0 => g[k - 1] = f[k - 1]
        BY <4>4
      <4> QED
        BY <4>2, <4>3, <4>5
    <3> QED
      BY <3>1, <3>2
  <2>6. g = h
    BY <2>5
  <2> HIDE DEF g
  <2>7. Upto(g, n)
    BY <2>6
  <2> QED
    BY <2>7, <2>1
<1> QED
  BY <1>1, <1>2

\* ItemsOf is that solution.
LEMMA ItemsOfRuns ==
  ASSUME NEW id, NEW q, Len(q) \in Nat
  PROVE  \E f : Runs(f, q, id) /\ ItemsOf(q, id) = f[Len(q)]
<1> DEFINE f == CHOOSE g : Runs(g, q, id)
<1>1. Runs(f, q, id)
  BY RunsExist
<1>2. ItemsOf(q, id) = f[Len(q)]
  BY DEF ItemsOf, Runs
<1> QED
  BY <1>1, <1>2

\* The items of a longer queue.
LEMMA ItemsAppend ==
  ASSUME NEW id, NEW M, NEW q \in Seq(M), NEW m \in M
  PROVE  /\ ItemsOf(<<>>, id) = <<>>
         /\ ItemsOf(Append(q, m), id) =
              IF IsItem(m, id) THEN Append(ItemsOf(q, id), Item(m)) ELSE ItemsOf(q, id)
<1> DEFINE r == Append(q, m)
           n == Len(q)
<1>1. /\ n \in Nat /\ Len(r) = n + 1 /\ r[n + 1] = m
      /\ \A i \in 1..n : q[i] = r[i]
  OBVIOUS
<1> HIDE DEF r, n
<1>2. PICK f : Runs(f, q, id) /\ ItemsOf(q, id) = f[n]
  BY <1>1, ItemsOfRuns DEF n
<1>3. PICK g : Runs(g, r, id) /\ ItemsOf(r, id) = g[n + 1]
  <2>1. Len(r) \in Nat
    BY <1>1
  <2> QED
    BY <1>1, <2>1, ItemsOfRuns
<1>4. f[n] = g[n]
  BY <1>1, <1>2, <1>3, RunsAgree DEF n
<1>5. g[n + 1] = IF IsItem(m, id) THEN Append(g[n], Item(m)) ELSE g[n]
  <2>1. n + 1 \in 0..Len(r) /\ n + 1 # 0 /\ (n + 1) - 1 = n
    BY <1>1
  <2>2. g[n + 1] = IF n + 1 = 0 THEN <<>>
                   ELSE IF IsItem(r[n + 1], id) THEN Append(g[(n + 1) - 1], Item(r[n + 1]))
                   ELSE g[(n + 1) - 1]
    BY <1>3, <2>1 DEF Runs
  <2> QED
    BY <2>1, <2>2, <1>1
<1>6. ItemsOf(<<>>, id) = <<>>
  <2>1. Len(<<>>) = 0
    OBVIOUS
  <2>2. PICK e : Runs(e, <<>>, id) /\ ItemsOf(<<>>, id) = e[0]
    BY <2>1, ItemsOfRuns
  <2> QED
    BY <2>1, <2>2 DEF Runs
<1> QED
  BY <1>2, <1>3, <1>4, <1>5, <1>6 DEF r

\* The items of one message.
LEMMA ItemsOfOne ==
  ASSUME NEW id, NEW M, NEW m \in M
  PROVE  ItemsOf(<<m>>, id) = IF IsItem(m, id) THEN <<Item(m)>> ELSE <<>>
<1>1. <<>> \in Seq(M) /\ Append(<<>>, m) = <<m>> /\ Append(<<>>, Item(m)) = <<Item(m)>>
  OBVIOUS
<1>2. ItemsOf(<<>>, id) = <<>>
  BY <1>1, ItemsAppend
<1>3. ItemsOf(Append(<<>>, m), id) =
        IF IsItem(m, id) THEN Append(ItemsOf(<<>>, id), Item(m)) ELSE ItemsOf(<<>>, id)
  BY <1>1, ItemsAppend
<1> QED
  BY <1>1, <1>2, <1>3

\* What posts and sends items of M.
Carrier(M) == \A m \in M : \A id \in Ids : IsItem(m, id) => Item(m) \in Items

\* Both queues do.
LEMMA Carriers == Carrier(Messages) /\ Carrier(Events)
<1>1. ASSUME NEW m \in Messages, NEW id \in Ids, IsItem(m, id) PROVE Item(m) \in Items
  BY <1>1, MessageFields DEF IsItem, Item, Items
<1>2. ASSUME NEW m \in Events, NEW id \in Ids, IsItem(m, id) PROVE Item(m) \in Items
  BY <1>2, EventFields DEF IsItem, Item, Items
<1> QED
  BY <1>1, <1>2 DEF Carrier

\* Items of a queue are items, and there are none where no message is about the end.
LEMMA ItemsTyped ==
  ASSUME NEW id \in Ids, NEW M, Carrier(M), NEW q \in Seq(M)
  PROVE  /\ ItemsOf(q, id) \in Seq(Items)
         /\ (\A i \in 1..Len(q) : ~IsItem(q[i], id)) => ItemsOf(q, id) = <<>>
<1> DEFINE Good(r) == /\ ItemsOf(r, id) \in Seq(Items)
                      /\ (\A i \in 1..Len(r) : ~IsItem(r[i], id)) => ItemsOf(r, id) = <<>>
           Bad == {n \in Nat : \E r \in Seq(M) : Len(r) = n /\ ~Good(r)}
<1>1. SUFFICES ASSUME ~Good(q) PROVE FALSE
  OBVIOUS
<1> HIDE DEF Good
<1>2. Bad # {} /\ Bad \in SUBSET Nat
  BY <1>1
<1>3. PICK n \in Bad : \A k \in Bad : n <= k
  BY <1>2, Least
<1>4. PICK r \in Seq(M) : Len(r) = n /\ ~Good(r)
  BY <1>3
<1>5. Good(<<>>)
  <2>2. ItemsOf(<<>>, id) = <<>>
    <3>0. Len(<<>>) = 0
      OBVIOUS
    <3>1. PICK e : Runs(e, <<>>, id) /\ ItemsOf(<<>>, id) = e[0]
      BY <3>0, ItemsOfRuns
    <3> QED
      BY <3>0, <3>1 DEF Runs
  <2>3. <<>> \in Seq(Items)
    OBVIOUS
  <2> QED
    BY <2>2, <2>3 DEF Good
<1>6. PICK s \in Seq(M), m \in M : r = Append(s, m)
  BY <1>4, <1>5, SequenceEmptyOrAppend
<1>7. Len(s) \in Nat /\ Len(r) = Len(s) + 1 /\ r[Len(r)] = m /\ \A i \in 1..Len(s) : r[i] = s[i]
  BY <1>6
<1>8. Good(s)
  <2>1. Len(s) < n
    BY <1>4, <1>7
  <2>2. Len(s) \notin Bad
    BY <2>1, <1>3, <1>7
  <2> QED
    BY <2>2, <1>7
<1>9. ItemsOf(r, id) = IF IsItem(m, id) THEN Append(ItemsOf(s, id), Item(m)) ELSE ItemsOf(s, id)
  BY <1>6, ItemsAppend
<1>10. IsItem(m, id) => Item(m) \in Items
  BY DEF Carrier
<1>11. ItemsOf(r, id) \in Seq(Items)
  BY <1>8, <1>9, <1>10 DEF Good
<1>12. ASSUME \A i \in 1..Len(r) : ~IsItem(r[i], id) PROVE ItemsOf(r, id) = <<>>
  <2>1. ~IsItem(m, id)
    BY <1>7, <1>12
  <2>2. \A i \in 1..Len(s) : ~IsItem(s[i], id)
    BY <1>7, <1>12
  <2> QED
    BY <2>1, <2>2, <1>8, <1>9 DEF Good
<1> QED
  BY <1>4, <1>11, <1>12 DEF Good

\* The items of one queue behind another.
LEMMA ItemsConcat ==
  ASSUME NEW id \in Ids, NEW M, Carrier(M), NEW q \in Seq(M), NEW r \in Seq(M)
  PROVE  ItemsOf(q \o r, id) = ItemsOf(q, id) \o ItemsOf(r, id)
<1> DEFINE Good(t) == ItemsOf(q \o t, id) = ItemsOf(q, id) \o ItemsOf(t, id)
           Bad == {n \in Nat : \E t \in Seq(M) : Len(t) = n /\ ~Good(t)}
<1>1. SUFFICES ASSUME ~Good(r) PROVE FALSE
  OBVIOUS
<1>0. ItemsOf(q, id) \in Seq(Items) /\ \A t \in Seq(M) : ItemsOf(t, id) \in Seq(Items)
  BY ItemsTyped
<1>5. Good(<<>>)
  <2>1. q \o <<>> = q /\ <<>> \in Seq(M)
    OBVIOUS
  <2>2. ItemsOf(<<>>, id) = <<>>
    <3>1. \A i \in 1..Len(<<>>) : ~IsItem(<<>>[i], id)
      OBVIOUS
    <3> QED
      BY <2>1, <3>1, ItemsTyped
  <2>3. ItemsOf(q, id) \o <<>> = ItemsOf(q, id)
    BY <1>0
  <2> QED
    BY <2>1, <2>2, <2>3
<1> HIDE DEF Good
<1>2. Bad # {} /\ Bad \in SUBSET Nat
  BY <1>1
<1>3. PICK n \in Bad : \A k \in Bad : n <= k
  BY <1>2, Least
<1>4. PICK t \in Seq(M) : Len(t) = n /\ ~Good(t)
  BY <1>3
<1>6. PICK s \in Seq(M), m \in M : t = Append(s, m)
  BY <1>4, <1>5, SequenceEmptyOrAppend
<1>7. Good(s)
  <2>1. Len(s) \in Nat /\ Len(s) < n
    BY <1>4, <1>6
  <2>2. Len(s) \notin Bad
    BY <2>1, <1>3
  <2> QED
    BY <2>2, <2>1
<1>8. q \o t = Append(q \o s, m) /\ q \o s \in Seq(M)
  BY <1>6
<1>9. /\ ItemsOf(q \o t, id) = IF IsItem(m, id) THEN Append(ItemsOf(q \o s, id), Item(m)) ELSE ItemsOf(q \o s, id)
      /\ ItemsOf(t, id) = IF IsItem(m, id) THEN Append(ItemsOf(s, id), Item(m)) ELSE ItemsOf(s, id)
  <2>1. ItemsOf(Append(q \o s, m), id) = IF IsItem(m, id) THEN Append(ItemsOf(q \o s, id), Item(m)) ELSE ItemsOf(q \o s, id)
    BY <1>8, ItemsAppend
  <2>2. ItemsOf(Append(s, m), id) = IF IsItem(m, id) THEN Append(ItemsOf(s, id), Item(m)) ELSE ItemsOf(s, id)
    BY ItemsAppend
  <2> QED
    BY <1>6, <1>8, <2>1, <2>2
<1>10. IsItem(m, id) => Item(m) \in Items
  BY DEF Carrier
<1>11. \A a, b \in Seq(Items) : \A c \in Items : Append(a \o b, c) = a \o Append(b, c)
  <2> SUFFICES ASSUME NEW a \in Seq(Items), NEW b \in Seq(Items), NEW c \in Items
               PROVE  Append(a \o b, c) = a \o Append(b, c)
    OBVIOUS
  <2>1. a \o b \in Seq(Items) /\ <<c>> \in Seq(Items)
    OBVIOUS
  <2>2. Append(a \o b, c) = (a \o b) \o <<c>> /\ Append(b, c) = b \o <<c>>
    BY <2>1, AppendIsConcat
  <2> QED
    BY <2>1, <2>2, ConcatAssociative
<1>12. ItemsOf(q \o s, id) = ItemsOf(q, id) \o ItemsOf(s, id)
  BY <1>7 DEF Good
<1>13. Good(t)
  <2>1. CASE IsItem(m, id)
    <3>1. PICK a \in Seq(Items) : a = ItemsOf(q, id)
      BY <1>0
    <3>2. PICK b \in Seq(Items) : b = ItemsOf(s, id)
      BY <1>0
    <3>3. PICK c \in Items : c = Item(m)
      BY <2>1, <1>10
    <3>4. ItemsOf(q \o t, id) = Append(a \o b, c)
      BY <2>1, <1>9, <1>12, <3>1, <3>2, <3>3
    <3>5. ItemsOf(t, id) = Append(b, c)
      BY <2>1, <1>9, <3>2, <3>3
    <3>6. Append(a \o b, c) = a \o Append(b, c)
      BY <1>11
    <3> QED
      BY <3>1, <3>4, <3>5, <3>6 DEF Good
  <2>2. CASE ~IsItem(m, id)
    BY <2>2, <1>9, <1>12 DEF Good
  <2> QED
    BY <2>1, <2>2
<1> QED
  BY <1>4, <1>13

\* The items of the first message come first.
LEMMA ItemsFront ==
  ASSUME NEW id \in Ids, NEW M, Carrier(M), NEW q \in Seq(M), q # <<>>
  PROVE  ItemsOf(q, id) = (IF IsItem(Head(q), id) THEN <<Item(Head(q))>> ELSE <<>>) \o ItemsOf(Tail(q), id)
<1>1. Head(q) \in M /\ Tail(q) \in Seq(M) /\ <<Head(q)>> \in Seq(M) /\ q = <<Head(q)>> \o Tail(q)
  OBVIOUS
<1>2. ItemsOf(<<Head(q)>> \o Tail(q), id) = ItemsOf(<<Head(q)>>, id) \o ItemsOf(Tail(q), id)
  BY <1>1, ItemsConcat
<1>3. ItemsOf(<<Head(q)>>, id) = IF IsItem(Head(q), id) THEN <<Item(Head(q))>> ELSE <<>>
  BY <1>1, ItemsOfOne
<1> QED
  BY <1>1, <1>2, <1>3

\* Each id of S is in its order once.
LEMMA OrderedOnce ==
  ASSUME NEW S \in SUBSET Ids
  PROVE  /\ \A i, j \in 1..Cardinality(S) : i # j => Ordered(S)[i] # Ordered(S)[j]
         /\ \A id \in S : \E i \in 1..Cardinality(S) : Ordered(S)[i] = id
<1> DEFINE n == Cardinality(S)
           ids == Ordered(S)
<1>1. n \in Nat /\ ids \in [1..n -> S] /\ IsFiniteSet(S)
  BY OrderedIs, IdSets
<1>2. \A i, j \in 1..n : i < j => ids[i] < ids[j]
  <2>1. PICK f \in [1..n -> S] : Sorts(f, S, n)
    BY EverySetSorts DEF Sortable
  <2>2. \A i, j \in 1..n : i < j => f[i] < f[j]
    BY <2>1 DEF Sorts
  <2> QED
    BY <2>2 DEF Ordered
<1> HIDE DEF ids, n
<1>3. ASSUME NEW i \in 1..n, NEW j \in 1..n, i # j PROVE ids[i] # ids[j]
  <2>1. ids[i] \in Nat /\ ids[j] \in Nat
    <3>1. ids[i] \in Ids /\ ids[j] \in Ids
      BY <1>1
    <3>2. Ids \subseteq Nat
      BY NetAssumption DEF Ids
    <3> QED
      BY <3>1, <3>2
  <2>2. i < j \/ j < i
    BY <1>1, <1>3
  <2> QED
    BY <1>2, <2>1, <2>2
<1>4. ASSUME NEW id \in S, \A i \in 1..n : ids[i] # id PROVE FALSE
  <2> DEFINE T == S \ {id}
             I == 1..n
  <2>1. ids \in [I -> T]
    BY <1>1, <1>4
  <2>2. IsFiniteSet(T) /\ Cardinality(T) = n - 1
    BY <1>1, FS_RemoveElement DEF n
  <2>3. IsFiniteSet(I) /\ Cardinality(I) = n
    BY <1>1, FS_Interval
  <2>4. Cardinality(T) < Cardinality(I)
    BY <1>1, <2>2, <2>3
  <2> HIDE DEF T, I
  <2>5. \E i, j \in I : i # j /\ ids[i] = ids[j]
    BY <2>1, <2>2, <2>3, <2>4, FS_PigeonHole
  <2> QED
    BY <2>5, <1>3 DEF I
<1> QED
  BY <1>3, <1>4 DEF n, ids

\* So the closes for S say one end of file to each of them, and nothing to others.
LEMMA ClosesItems ==
  ASSUME NEW S \in SUBSET Ids, NEW id \in Ids
  PROVE  /\ ItemsOf(Closes(S), id) = IF id \in S THEN <<EOF>> ELSE <<>>
         /\ \A i \in 1..Len(Closes(S)) : Closes(S)[i].id \in S /\ Closes(S)[i].type = "close"
         /\ \A i, j \in 1..Len(Closes(S)) : i # j => Closes(S)[i].id # Closes(S)[j].id
         /\ Closes(S) \in Seq(Events)
<1> DEFINE n == Cardinality(S)
           ids == Ordered(S)
           c == Closes(S)
<1>1. n \in Nat /\ ids \in [1..n -> S]
  BY OrderedIs
<1>2. /\ \A i, j \in 1..n : i # j => ids[i] # ids[j]
      /\ \A e \in S : \E i \in 1..n : ids[i] = e
  BY OrderedOnce
<1>3. Len(c) = n /\ \A i \in 1..n : c[i] = [type |-> "close", id |-> ids[i]]
  BY <1>1 DEF Closes
<1>4. c \in Seq(Events)
  BY ClosesAre
<1> HIDE DEF n, ids, c
<1>5. PICK f : Runs(f, c, id) /\ ItemsOf(c, id) = f[n]
  BY <1>1, <1>3, ItemsOfRuns
<1> DEFINE Said(k) == \E j \in 1..k : ids[j] = id
           Bad == {k \in 0..n : f[k] # IF Said(k) THEN <<EOF>> ELSE <<>>}
<1>6. ASSUME Bad # {} PROVE FALSE
  <2>1. Bad \in SUBSET Nat
    BY <1>1
  <2>2. PICK k \in Bad : \A m \in Bad : k <= m
    BY <1>6, <2>1, Least
  <2>3. k \in 0..n
    OBVIOUS
  <2>4. f[k] = IF k = 0 THEN <<>>
               ELSE IF IsItem(c[k], id) THEN Append(f[k - 1], Item(c[k])) ELSE f[k - 1]
    BY <2>3, <1>3, <1>5 DEF Runs
  <2>5. k # 0
    BY <2>2, <2>4
  <2>6. k \in 1..n /\ k - 1 \in 0..n /\ k - 1 \in Nat
    BY <2>3, <2>5, <1>1
  <2>7. f[k - 1] = IF Said(k - 1) THEN <<EOF>> ELSE <<>>
    <3>1. k - 1 \notin Bad
      <4> HIDE DEF Bad
      <4> QED
        BY <2>2, <2>6
    <3> QED
      BY <3>1, <2>6
  <2>8. Item(c[k]) = EOF /\ (IsItem(c[k], id) <=> ids[k] = id)
    BY <2>6, <1>3 DEF Item, IsItem
  <2>9. Said(k) <=> Said(k - 1) \/ ids[k] = id
    <3>1. \A j \in 1..k : j = k \/ j \in 1..k - 1
      BY <2>6
    <3>2. \A j \in 1..k - 1 : j \in 1..k
      BY <2>6
    <3> QED
      BY <3>1, <3>2, <2>6
  <2>10. ids[k] = id => ~Said(k - 1)
    <3>0. k \in Nat /\ k <= n
      BY <2>6, <1>1
    <3> HIDE DEF Bad, Said
    <3>1. \A j \in 1..k - 1 : j \in 1..n /\ j # k
      BY <3>0, <1>1
    <3> QED
      BY <3>1, <2>6, <1>2 DEF Said
  <2>11. f[k] = IF Said(k) THEN <<EOF>> ELSE <<>>
    <3> HIDE DEF Said, Bad
    <3>1. Append(<<>>, EOF) = <<EOF>>
      OBVIOUS
    <3> QED
      BY <2>4, <2>5, <2>7, <2>8, <2>9, <2>10, <3>1
  <2> QED
    BY <2>2, <2>11
<1>7. ItemsOf(c, id) = IF Said(n) THEN <<EOF>> ELSE <<>>
  BY <1>1, <1>5, <1>6
<1>8. Said(n) <=> id \in S
  BY <1>1, <1>2
<1>9. ItemsOf(c, id) = IF id \in S THEN <<EOF>> ELSE <<>>
  BY <1>7, <1>8
<1> QED
  BY <1>1, <1>2, <1>3, <1>4, <1>9 DEF c, n, ids

-----------------------------------------------------------------------------
(* A connection is a pipe: what is known of each end at its process.        *)

\* A message about an end, an event about one.
About(m, id) == m.type \in {"data", "shutdown", "close"} /\ m.id = id

\* What a process has posted about an end, and not been heard of: a handle it
\* has, and nothing behind its close.
UpIn(u, s, id) ==
  \A i \in 1..Len(u) : About(u[i], id) =>
    /\ s.state # "none"
    /\ u[i].type = "close" => s.state = "closed" /\ \A j \in 1..Len(u) : j > i => ~About(u[j], id)

\* What it will be told: of the end first, of its close last.
DownIn(d, s, id) ==
  /\ \A i, j \in 1..Len(d) : d[i].id = id /\ d[j].id = id /\ i < j =>
       ~Announces(d[j], id) /\ d[i].type # "close"
  /\ \A i \in 1..Len(d) : Announces(d[i], id) => s.state = "none"
  /\ s.state = "open" /\ ~s.known => \A i \in 1..Len(d) : d[i].id # id

SockIn(s) == /\ s.state = "none" => s = NoSock
             /\ s.reading => s.queue = <<>>

\* While the kernel has the connection on record the end has not been closed.
StillOn(d, s, id) ==
  /\ \A i \in 1..Len(d) : ~(d[i].type = "close" /\ d[i].id = id)
  /\ s.state = "open" => s.known

\* A process has to do with an end; it has it, or will.
Knows(u, d, s, id) == \/ s # NoSock
                      \/ \E i \in 1..Len(d) : d[i].id = id
                      \/ \E i \in 1..Len(u) : About(u[i], id)
Traces(p, id) == Knows(up[p], down[p], sock[p][id], id)
Holds(p, id) == Open(p, id) \/ Waits(p, id)

EndsInOrder == \A p \in Procs : \A id \in Ids :
  UpIn(up[p], sock[p][id], id) /\ DownIn(down[p], sock[p][id], id) /\ SockIn(sock[p][id])

OneOwner == \A id \in Ids : \A p, q \in Procs : Traces(p, id) /\ Traces(q, id) => p = q

OnRecord == \A id \in Ids : conns[id] # NoConn =>
  /\ conns[id].peer = PeerOf[id]
  /\ \A p \in Procs : /\ Traces(p, id) => conns[id].pid = p
                      /\ StillOn(down[p], sock[p][id], id)

\* Where it is not on record any more, an end is gone.
Hung == \A id \in Ids : id < nextConn /\ conns[id] = NoConn =>
          \A p, q \in Procs : ~(Holds(p, id) /\ Holds(q, PeerOf[id]))

\* Ids are given out in pairs.
NewIds == /\ Odd(nextConn)
          /\ \A id \in Ids : id >= nextConn =>
               conns[id] = NoConn /\ \A p \in Procs : ~Traces(p, id)

Piped == EndsInOrder /\ OneOwner /\ OnRecord /\ Hung /\ NewIds

\* Every id has a peer.
LEMMA PeersAre ==
  ASSUME NEW id \in Ids
  PROVE  /\ PeerOf[id] \in Ids /\ PeerOf[PeerOf[id]] = id /\ PeerOf[id] # id
         /\ \A n \in Nat : Odd(n) => (id < n <=> PeerOf[id] < n)
         /\ id \in Nat
<1>1. MaxConns \in Nat /\ id \in Nat /\ id >= 1 /\ id <= 2 * MaxConns
  BY NetAssumption DEF Ids
<1>2. PeerOf[id] = IF Odd(id) THEN id + 1 ELSE id - 1
  BY DEF PeerOf
<1>3. PICK k \in Nat : id = 2 * k \/ id = 2 * k + 1
  <2>1. id \div 2 \in Nat /\ (id = 2 * (id \div 2) \/ id = 2 * (id \div 2) + 1)
    BY <1>1, Z3
  <2> QED
    BY <2>1
<1>4. CASE id = 2 * k + 1
  <2>1. Odd(id) /\ PeerOf[id] = id + 1 /\ k < MaxConns
    BY <1>1, <1>2, <1>4 DEF Odd
  <2>2. id + 1 \in Ids /\ ~Odd(id + 1)
    BY <1>1, <1>4, <2>1 DEF Odd, Ids
  <2>3. PeerOf[id + 1] = id
    BY <1>1, <2>2 DEF PeerOf
  <2>4. ASSUME NEW n \in Nat, Odd(n) PROVE id < n <=> id + 1 < n
    BY <1>1, <1>4, <2>4 DEF Odd
  <2> QED
    BY <1>1, <2>1, <2>2, <2>3, <2>4
<1>5. CASE id = 2 * k
  <2>1. ~Odd(id) /\ PeerOf[id] = id - 1 /\ k >= 1
    BY <1>1, <1>2, <1>5 DEF Odd
  <2>2. id - 1 \in Ids /\ Odd(id - 1)
    BY <1>1, <1>5, <2>1 DEF Odd, Ids
  <2>3. PeerOf[id - 1] = id
    BY <1>1, <2>2 DEF PeerOf
  <2>4. ASSUME NEW n \in Nat, Odd(n) PROVE id < n <=> id - 1 < n
    BY <1>1, <1>5, <2>1, <2>4 DEF Odd
  <2> QED
    BY <1>1, <2>1, <2>2, <2>3, <2>4
<1> QED
  BY <1>3, <1>4, <1>5

\* A message more, about another end or of a handle that is open.
LEMMA UpPost ==
  ASSUME NEW u \in Seq(Messages), NEW m \in Messages, NEW s, NEW s2, NEW id, UpIn(u, s, id),
         \/ ~About(m, id) /\ s2.state = s.state
         \/ s.state = "open" /\ s2.state = IF m.type = "close" THEN "closed" ELSE "open"
  PROVE  UpIn(u \o <<m>>, s2, id)
<1> DEFINE v == u \o <<m>>
           n == Len(u)
<1>1. n \in Nat /\ Len(v) = n + 1 /\ v[n + 1] = m /\ \A i \in 1..n : v[i] = u[i]
  BY AtEnd
<1> HIDE DEF v
<1> SUFFICES ASSUME NEW i \in 1..Len(v), About(v[i], id)
             PROVE  /\ s2.state # "none"
                    /\ v[i].type = "close" =>
                         s2.state = "closed" /\ \A j \in 1..Len(v) : j > i => ~About(v[j], id)
  BY DEF UpIn, v
<1>2. CASE i = n + 1
  <2>1. \A j \in 1..Len(v) : ~(j > i)
    BY <1>1, <1>2
  <2> QED
    BY <1>1, <1>2, <2>1
<1>3. CASE i # n + 1
  <2>1. i \in 1..n /\ v[i] = u[i]
    BY <1>1, <1>3
  <2>2. /\ s.state # "none"
        /\ u[i].type = "close" => s.state = "closed" /\ \A j \in 1..n : j > i => ~About(u[j], id)
    BY <2>1 DEF UpIn
  <2>3. \A j \in 1..Len(v) : j = n + 1 \/ j \in 1..n
    BY <1>1
  <2> QED
    BY <1>1, <2>1, <2>2, <2>3
<1> QED
  BY <1>2, <1>3

\* A message less.
LEMMA UpTake ==
  ASSUME NEW u \in Seq(Messages), u # <<>>, NEW s, NEW id, UpIn(u, s, id)
  PROVE  /\ UpIn(Tail(u), s, id)
         /\ \A i \in 1..Len(Tail(u)) : \E j \in 1..Len(u) : Tail(u)[i] = u[j]
         /\ About(Head(u), id) => s.state # "none"
         /\ About(Head(u), id) /\ Head(u).type = "close" =>
              s.state = "closed" /\ \A i \in 1..Len(Tail(u)) : ~About(Tail(u)[i], id)
<1> DEFINE v == Tail(u)
           n == Len(u)
<1>1. /\ n \in Nat \ {0} /\ Len(v) = n - 1 /\ \A i \in 1..n - 1 : v[i] = u[i + 1]
      /\ Head(u) = u[1]
  BY FromFront
<1>2. \A i \in 1..Len(v) : i + 1 \in 1..n /\ v[i] = u[i + 1] /\ i + 1 > 1
  BY <1>1
<1> HIDE DEF v
<1>3. UpIn(v, s, id)
  <2> SUFFICES ASSUME NEW i \in 1..Len(v), About(v[i], id)
               PROVE  /\ s.state # "none"
                      /\ v[i].type = "close" =>
                           s.state = "closed" /\ \A j \in 1..Len(v) : j > i => ~About(v[j], id)
    BY DEF UpIn
  <2>1. /\ s.state # "none"
        /\ u[i + 1].type = "close" => s.state = "closed" /\ \A j \in 1..n : j > i + 1 => ~About(u[j], id)
    BY <1>2 DEF UpIn
  <2>2. \A j \in 1..Len(v) : j > i => j + 1 > i + 1
    BY <1>1
  <2> QED
    BY <1>2, <2>1, <2>2
<1>4. 1 \in 1..n
  BY <1>1
<1> QED
  BY <1>1, <1>2, <1>3, <1>4 DEF UpIn, v

\* An event more.
LEMMA DownPost ==
  ASSUME NEW d \in Seq(Events), NEW e \in Events, NEW s, NEW id, DownIn(d, s, id),
         \/ e.id # id
         \/ ~Announces(e, id) /\ StillOn(d, s, id)
         \/ s.state = "none" /\ \A i \in 1..Len(d) : d[i].id # id
  PROVE  DownIn(d \o <<e>>, s, id)
<1> DEFINE v == d \o <<e>>
           n == Len(d)
<1>1. n \in Nat /\ Len(v) = n + 1 /\ v[n + 1] = e /\ \A i \in 1..n : v[i] = d[i]
  BY AtEnd
<1> HIDE DEF v
<1>2. \A i \in 1..Len(v) : i = n + 1 \/ i \in 1..n
  BY <1>1
<1>3. /\ \A i, j \in 1..n : d[i].id = id /\ d[j].id = id /\ i < j =>
            ~Announces(d[j], id) /\ d[i].type # "close"
      /\ \A i \in 1..n : Announces(d[i], id) => s.state = "none"
      /\ s.state = "open" /\ ~s.known => \A i \in 1..n : d[i].id # id
  BY DEF DownIn
<1>4. ASSUME NEW i \in 1..Len(v), NEW j \in 1..Len(v), v[i].id = id, v[j].id = id, i < j
      PROVE  ~Announces(v[j], id) /\ v[i].type # "close"
  <2>1. i \in 1..n /\ v[i] = d[i]
    BY <1>1, <1>4
  <2>2. CASE j \in 1..n
    BY <1>1, <1>3, <1>4, <2>1, <2>2
  <2>3. CASE j = n + 1
    BY <1>1, <1>4, <2>1, <2>3 DEF StillOn
  <2> QED
    BY <1>2, <2>2, <2>3
<1>5. \A i \in 1..Len(v) : Announces(v[i], id) => s.state = "none"
  BY <1>1, <1>2, <1>3 DEF Announces
<1>6. s.state = "open" /\ ~s.known => \A i \in 1..Len(v) : v[i].id # id
  BY <1>1, <1>2, <1>3 DEF StillOn
<1> QED
  BY <1>4, <1>5, <1>6 DEF DownIn, v

\* An event less, and what it leaves of the handle.
LEMMA DownTake ==
  ASSUME NEW d \in Seq(Events), d # <<>>, NEW s, NEW s2, NEW id, DownIn(d, s, id),
         \/ s2.state = s.state /\ s2.known = s.known
         \/ Head(d).id = id /\ Announces(Head(d), id) /\ s2.known
         \/ Head(d).id = id /\ s2.state = s.state /\ s2.known = (Head(d).type # "close")
  PROVE  /\ DownIn(Tail(d), s2, id)
         /\ Head(d).id = id /\ Announces(Head(d), id) => s.state = "none"
         /\ \A i \in 1..Len(Tail(d)) : \E j \in 1..Len(d) : Tail(d)[i] = d[j]
         /\ Head(d).id = id => \A i \in 1..Len(Tail(d)) : ~Announces(Tail(d)[i], id)
         /\ s2.state = "open" /\ ~s2.known => \A i \in 1..Len(Tail(d)) : Tail(d)[i].id # id
<1> DEFINE v == Tail(d)
           n == Len(d)
<1>1. /\ n \in Nat \ {0} /\ Len(v) = n - 1 /\ \A i \in 1..n - 1 : v[i] = d[i + 1]
      /\ Head(d) = d[1] /\ 1 \in 1..n
  BY FromFront
<1>2. \A i \in 1..Len(v) : i + 1 \in 1..n /\ v[i] = d[i + 1] /\ 1 < i + 1
  BY <1>1
<1> HIDE DEF v
<1>3. /\ \A i, j \in 1..n : d[i].id = id /\ d[j].id = id /\ i < j =>
            ~Announces(d[j], id) /\ d[i].type # "close"
      /\ \A i \in 1..n : Announces(d[i], id) => s.state = "none"
      /\ s.state = "open" /\ ~s.known => \A i \in 1..n : d[i].id # id
  BY DEF DownIn
<1>4. ASSUME NEW i \in 1..Len(v), NEW j \in 1..Len(v), v[i].id = id, v[j].id = id, i < j
      PROVE  ~Announces(v[j], id) /\ v[i].type # "close"
  <2>1. i + 1 \in 1..n /\ j + 1 \in 1..n /\ i + 1 < j + 1
    BY <1>1, <1>4
  <2> QED
    BY <2>1, <1>2, <1>3, <1>4
<1>5. Head(d).id = id => \A i \in 1..Len(v) : ~Announces(v[i], id)
  <2> SUFFICES ASSUME Head(d).id = id, NEW i \in 1..Len(v), Announces(v[i], id) PROVE FALSE
    OBVIOUS
  <2>1. v[i].id = id
    BY DEF Announces
  <2> QED
    BY <2>1, <1>1, <1>2, <1>3
<1>6. \A i \in 1..Len(v) : Announces(v[i], id) => s2.state = "none"
  BY <1>2, <1>3, <1>5
<1>7. s2.state = "open" /\ ~s2.known => \A i \in 1..Len(v) : v[i].id # id
  BY <1>1, <1>2, <1>3
<1>8. Head(d).id = id /\ Announces(Head(d), id) => s.state = "none"
  BY <1>1, <1>3
<1> QED
  BY <1>2, <1>4, <1>5, <1>6, <1>7, <1>8 DEF DownIn, v

\* One close more for each of some ends.
LEMMA DownCloses ==
  ASSUME NEW d \in Seq(Events), NEW S \in SUBSET Ids, NEW s, NEW id \in Ids, DownIn(d, s, id),
         id \in S => StillOn(d, s, id)
  PROVE  /\ DownIn(d \o Closes(S), s, id)
         /\ \A i \in 1..Len(d \o Closes(S)) :
              \/ i \in 1..Len(d) /\ (d \o Closes(S))[i] = d[i]
              \/ (d \o Closes(S))[i].type = "close" /\ (d \o Closes(S))[i].id \in S
         /\ \A i \in 1..Len(d) : i \in 1..Len(d \o Closes(S)) /\ (d \o Closes(S))[i] = d[i]
<1> DEFINE c == Closes(S)
           v == d \o c
           n == Len(d)
<1>1. /\ \A i \in 1..Len(c) : c[i].id \in S /\ c[i].type = "close"
      /\ \A i, j \in 1..Len(c) : i # j => c[i].id # c[j].id
      /\ c \in Seq(Events)
  BY ClosesItems
<1> HIDE DEF c
<1>2. /\ n \in Nat /\ Len(c) \in Nat /\ Len(v) = n + Len(c)
      /\ \A i \in 1..n : v[i] = d[i]
      /\ \A i \in 1..Len(v) : i > n => v[i] = c[i - n]
  BY <1>1
<1> HIDE DEF v
<1>3. \A i \in 1..Len(v) : i \in 1..n \/ (i > n /\ i - n \in 1..Len(c))
  BY <1>2
<1>4. /\ \A i, j \in 1..n : d[i].id = id /\ d[j].id = id /\ i < j =>
            ~Announces(d[j], id) /\ d[i].type # "close"
      /\ \A i \in 1..n : Announces(d[i], id) => s.state = "none"
      /\ s.state = "open" /\ ~s.known => \A i \in 1..n : d[i].id # id
  BY DEF DownIn
<1>5. ASSUME NEW i \in 1..Len(v), NEW j \in 1..Len(v), v[i].id = id, v[j].id = id, i < j
      PROVE  ~Announces(v[j], id) /\ v[i].type # "close"
  <2>1. CASE j \in 1..n
    <3>1. i \in 1..n
      BY <1>2, <1>5, <2>1
    <3> QED
      BY <1>2, <1>4, <1>5, <2>1, <3>1
  <2>2. CASE j > n /\ j - n \in 1..Len(c)
    <3>1. v[j].type = "close" /\ id \in S
      BY <1>1, <1>2, <1>5, <2>2
    <3>2. i \in 1..n
      <4> SUFFICES ASSUME i > n, i - n \in 1..Len(c) PROVE FALSE
        BY <1>3
      <4>1. i - n # j - n
        BY <1>2, <1>5
      <4> QED
        BY <4>1, <1>1, <1>2, <1>5, <2>2
    <3>3. v[i].type # "close"
      BY <3>1, <3>2, <1>2, <1>5 DEF StillOn
    <3> QED
      BY <3>1, <3>3 DEF Announces
  <2> QED
    BY <1>3, <2>1, <2>2
<1>6. \A i \in 1..Len(v) : Announces(v[i], id) => s.state = "none"
  BY <1>1, <1>2, <1>3, <1>4 DEF Announces
<1>7. s.state = "open" /\ ~s.known => \A i \in 1..Len(v) : v[i].id # id
  <2> SUFFICES ASSUME s.state = "open", ~s.known, NEW i \in 1..Len(v) PROVE v[i].id # id
    OBVIOUS
  <2>1. id \notin S
    BY DEF StillOn
  <2> QED
    BY <2>1, <1>1, <1>2, <1>3, <1>4
<1>8. DownIn(v, s, id)
  BY <1>5, <1>6, <1>7 DEF DownIn
<1>9. \A i \in 1..Len(v) : \/ i \in 1..n /\ v[i] = d[i]
                           \/ v[i].type = "close" /\ v[i].id \in S
  BY <1>1, <1>2, <1>3
<1>10. \A i \in 1..n : i \in 1..Len(v) /\ v[i] = d[i]
  BY <1>2
<1> QED
  BY <1>8, <1>9, <1>10 DEF v, c

\* A step that connects nothing keeps the invariant where it keeps
\* the queues in order; what it takes off the record is gone.
LEMMA PipedKept ==
  ASSUME Piped, EndsInOrder', nextConn' = nextConn,
         \A q \in Procs : \A id \in Ids : /\ Traces(q, id)' =>
                                               Traces(q, id) \/ (conns[id] # NoConn /\ conns[id].pid = q)
                                          /\ Holds(q, id)' => Holds(q, id),
         \A id \in Ids : \/ conns'[id] = conns[id]
                         \/ /\ conns'[id] = NoConn
                            /\ \A q, r \in Procs : ~(Holds(q, id)' /\ Holds(r, PeerOf[id])'),
         \A id \in Ids : conns'[id] # NoConn => \A q \in Procs : StillOn(down'[q], sock'[q][id], id)
  PROVE  Piped'
<1> USE DEF Piped
<1>1. OneOwner'
  <2>1. \A q \in Procs : \A id \in Ids : conns[id] # NoConn /\ Traces(q, id) => conns[id].pid = q
    BY DEF OnRecord
  <2> QED
    BY <2>1 DEF OneOwner
<1>2. OnRecord'
  BY DEF OnRecord
<1>3. Hung'
  <2> SUFFICES ASSUME NEW id \in Ids, id < nextConn, conns'[id] = NoConn,
                      NEW q \in Procs, NEW r \in Procs, Holds(q, id)', Holds(r, PeerOf[id])'
               PROVE  FALSE
    BY DEF Hung
  <2>1. conns[id] = NoConn
    OBVIOUS
  <2>2. Holds(q, id) /\ Holds(r, PeerOf[id])
    BY PeersAre
  <2> QED
    BY <2>1, <2>2 DEF Hung
<1>4. NewIds'
  <2>1. Odd(nextConn')
    BY DEF NewIds
  <2>2. \A id \in Ids : id >= nextConn => conns[id] = NoConn /\ \A p \in Procs : ~Traces(p, id)
    BY DEF NewIds
  <2>3. \A id \in Ids : id >= nextConn => conns'[id] = NoConn
    BY <2>2
  <2> QED
    BY <2>1, <2>2, <2>3 DEF NewIds
<1> QED
  BY <1>1, <1>2, <1>3, <1>4

\* An end a process holds is one it has to do with, and it was given out.
LEMMA HoldsTraces ==
  ASSUME TypeOK, Piped, NEW p \in Procs, NEW id \in Ids, Holds(p, id)
  PROVE  Traces(p, id) /\ id < nextConn
<1>1. Traces(p, id)
  BY DEF Holds, Open, Waits, Announces, Traces, Knows, NoSock
<1>2. id \in Nat /\ nextConn \in Nat
  BY PeersAre DEF TypeOK
<1> QED
  BY <1>1, <1>2 DEF Piped, NewIds

-----------------------------------------------------------------------------
(* What a process's own steps do to its ends.                               *)

\* Messages that are about no end.
Quiet(m) == m.type \in {"release", "connect", "exit"}

\* One end's handle changes, and what is posted is about that end.
Moves(p, id, s) == /\ Open(p, id)
                   /\ sock' = [sock EXCEPT ![p][id] = s]

Writes(p, id) == /\ Moves(p, id, [sock[p][id] EXCEPT !.wrote = @ + 1])
                 /\ ~sock[p][id].fin /\ sock[p][id].wrote + 1 \in Chunks
                 /\ Post(p, <<[type |-> "data", id |-> id, chunk |-> sock[p][id].wrote + 1]>>)
Finishes(p, id) == /\ Moves(p, id, [sock[p][id] EXCEPT !.fin = TRUE])
                   /\ ~sock[p][id].fin
                   /\ Post(p, <<[type |-> "shutdown", id |-> id]>>)
Leaves(p, id) == /\ Moves(p, id, [sock[p][id] EXCEPT !.state = "closed", !.known = FALSE, !.queue = <<>>])
                 /\ Post(p, <<[type |-> "close", id |-> id]>>)
Reads(p, id) == /\ \/ Moves(p, id, [sock[p][id] EXCEPT !.reading = TRUE, !.queue = <<>>])
                   \/ Moves(p, id, [sock[p][id] EXCEPT !.reading = FALSE])
                /\ up' = up

\* A process's own step is about one end, or about none.
LEMMA GuestMoves ==
  ASSUME TypeOK, NEW p \in Procs, Guest(p)
  PROVE  /\ UNCHANGED <<down, conns, nextConn>>
         /\ \/ /\ sock' = sock
               /\ up' = up \/ \E m \in Messages : Quiet(m) /\ Post(p, <<m>>)
            \/ \E id \in Ids : Writes(p, id) \/ Finishes(p, id) \/ Leaves(p, id) \/ Reads(p, id)
<1> USE DEF kernel, handles, Act, Free
<1>1. ASSUME NEW proto \in Protos, NEW port, Listen(p, proto, port)
      PROVE  UNCHANGED <<up, down, conns, nextConn, sock>>
  BY <1>1 DEF Listen
<1>2. ASSUME NEW proto \in Protos, NEW port \in AllPorts, CloseServer(p, proto, port)
      PROVE  /\ UNCHANGED <<down, conns, nextConn, sock>>
             /\ \E m \in Messages : Quiet(m) /\ Post(p, <<m>>)
  <2> DEFINE m == [type |-> "release", proto |-> proto, port |-> port]
  <2>1. m \in Messages /\ Quiet(m)
    BY DEF Messages, Quiet
  <2> QED
    BY <1>2, <2>1 DEF CloseServer
<1>3. ASSUME NEW port \in Ports \cup Listening, Connect(p, port)
      PROVE  /\ UNCHANGED <<down, conns, nextConn, sock>>
             /\ \E m \in Messages : Quiet(m) /\ Post(p, <<m>>)
  <2>1. PICK t \in Tickets : Post(p, <<[type |-> "connect", ticket |-> t, port |-> port]>>)
    BY <1>3 DEF Connect
  <2> DEFINE m == [type |-> "connect", ticket |-> t, port |-> port]
  <2>2. m \in Messages /\ Quiet(m)
    BY DEF Messages, Quiet, AllPorts, Listening
  <2> QED
    BY <1>3, <2>1, <2>2 DEF Connect
<1>4. ASSUME NEW t \in Tickets, CloseConnecting(p, t)
      PROVE  UNCHANGED <<up, down, conns, nextConn, sock>>
  BY <1>4 DEF CloseConnecting
<1>5. ASSUME Exit(p)
      PROVE  /\ UNCHANGED <<down, conns, nextConn, sock>>
             /\ \E m \in Messages : Quiet(m) /\ Post(p, <<m>>)
  <2>1. [type |-> "exit"] \in Messages /\ Quiet([type |-> "exit"])
    BY DEF Messages, Quiet
  <2> QED
    BY <1>5, <2>1 DEF Exit
<1>6. ASSUME NEW id \in Ids, Write(p, id)
      PROVE  UNCHANGED <<down, conns, nextConn>> /\ Writes(p, id)
  <2>1. sock[p][id].wrote + 1 \in Chunks
    <3>1. sock[p][id] \in Sockets
      BY DEF TypeOK
    <3>2. sock[p][id].wrote \in 0..MaxWrites
      BY <3>1 DEF Sockets
    <3> QED
      BY <1>6, <3>2, NetAssumption DEF Write, Chunks
  <2>2. sock' = [sock EXCEPT ![p][id] = [sock[p][id] EXCEPT !.wrote = @ + 1]]
    BY <1>6 DEF Write
  <2> QED
    BY <1>6, <2>1, <2>2 DEF Write, Writes, Moves
<1>7. ASSUME NEW id \in Ids, Shutdown(p, id)
      PROVE  UNCHANGED <<down, conns, nextConn>> /\ Finishes(p, id)
  <2>1. sock' = [sock EXCEPT ![p][id] = [sock[p][id] EXCEPT !.fin = TRUE]]
    BY <1>7 DEF Shutdown
  <2> QED
    BY <1>7, <2>1 DEF Shutdown, Finishes, Moves
<1>8. ASSUME NEW id \in Ids, Close(p, id)
      PROVE  UNCHANGED <<down, conns, nextConn>> /\ Leaves(p, id)
  BY <1>8 DEF Close, Leaves, Moves, CloseMessages
<1>9. ASSUME NEW id \in Ids, ReadStart(p, id)
      PROVE  UNCHANGED <<down, conns, nextConn>> /\ Reads(p, id)
  <2>1. sock[p][id] \in Sockets
    BY DEF TypeOK
  <2>2. Drain([sock[p][id] EXCEPT !.reading = TRUE]) = [sock[p][id] EXCEPT !.reading = TRUE, !.queue = <<>>]
    BY <2>1 DEF Drain, Sockets
  <2> QED
    BY <1>9, <2>2 DEF ReadStart, Reads, Moves
<1>10. ASSUME NEW id \in Ids, ReadStop(p, id)
       PROVE  UNCHANGED <<down, conns, nextConn>> /\ Reads(p, id)
  <2>1. sock' = [sock EXCEPT ![p][id] = [sock[p][id] EXCEPT !.reading = FALSE]]
    BY <1>10 DEF ReadStop
  <2> QED
    BY <1>10, <2>1 DEF ReadStop, Reads, Moves
<1> QED
  BY <1>1, <1>2, <1>3, <1>4, <1>5, <1>6, <1>7, <1>8, <1>9, <1>10 DEF Guest

\* One more message about an end is about a handle that is open; one about
\* none changes no end.
LEMMA PostMoves ==
  ASSUME TypeOK, NEW p \in Procs, NEW m \in Messages, Post(p, <<m>>)
  PROVE  /\ up'[p] = up[p] \o <<m>> /\ up[p] \in Seq(Messages)
         /\ \A q \in Procs : q # p => up'[q] = up[q]
         /\ \A id : (\E i \in 1..Len(up'[p]) : About(up'[p][i], id)) =>
              About(m, id) \/ \E i \in 1..Len(up[p]) : About(up[p][i], id)
         /\ \A id \in Ids : ~About(m, id) /\ UpIn(up[p], sock[p][id], id) /\ sock'[p][id].state = sock[p][id].state
              => UpIn(up'[p], sock'[p][id], id)
         /\ \A id \in Ids : /\ sock[p][id].state = "open" /\ UpIn(up[p], sock[p][id], id)
                            /\ sock'[p][id].state = (IF m.type = "close" THEN "closed" ELSE "open")
              => UpIn(up'[p], sock'[p][id], id)
<1>1. up'[p] = up[p] \o <<m>> /\ up[p] \in Seq(Messages) /\ \A q \in Procs : q # p => up'[q] = up[q]
  BY DEF Post, TypeOK
<1>2. /\ Len(up'[p]) = Len(up[p]) + 1 /\ Len(up[p]) \in Nat
      /\ \A i \in 1..Len(up[p]) : up'[p][i] = up[p][i]
      /\ up'[p][Len(up[p]) + 1] = m
  BY PostDoes
<1>3. \A i \in 1..Len(up'[p]) : i \in 1..Len(up[p]) \/ i = Len(up[p]) + 1
  BY <1>2
<1>4. \A id \in Ids : ~About(m, id) /\ UpIn(up[p], sock[p][id], id) /\ sock'[p][id].state = sock[p][id].state
              => UpIn(up'[p], sock'[p][id], id)
  BY <1>1, UpPost
<1>5. \A id \in Ids : /\ sock[p][id].state = "open" /\ UpIn(up[p], sock[p][id], id)
                            /\ sock'[p][id].state = (IF m.type = "close" THEN "closed" ELSE "open")
              => UpIn(up'[p], sock'[p][id], id)
  BY <1>1, UpPost
<1> QED
  BY <1>1, <1>2, <1>3, <1>4, <1>5

\* What a process's own step makes of each of its ends.
LEMMA GuestEnds ==
  ASSUME TypeOK, EndsInOrder, NEW p \in Procs, Guest(p)
  PROVE  /\ \A q \in Procs : q # p => up'[q] = up[q] /\ sock'[q] = sock[q]
         /\ \A id \in Ids :
              /\ UpIn(up'[p], sock'[p][id], id)
              /\ (\E i \in 1..Len(up'[p]) : About(up'[p][i], id)) =>
                   Open(p, id) \/ \E i \in 1..Len(up[p]) : About(up[p][i], id)
              /\ \/ sock'[p][id] = sock[p][id]
                 \/ /\ Open(p, id) /\ sock'[p][id].state \in {"open", "closed"}
                    /\ sock'[p][id].state = "open" => sock'[p][id].known = sock[p][id].known
                    /\ sock'[p][id].reading => sock'[p][id].queue = <<>>
<1> DEFINE Fine(id) ==
              /\ UpIn(up'[p], sock'[p][id], id)
              /\ (\E i \in 1..Len(up'[p]) : About(up'[p][i], id)) =>
                   Open(p, id) \/ \E i \in 1..Len(up[p]) : About(up[p][i], id)
              /\ \/ sock'[p][id] = sock[p][id]
                 \/ /\ Open(p, id) /\ sock'[p][id].state \in {"open", "closed"}
                    /\ sock'[p][id].state = "open" => sock'[p][id].known = sock[p][id].known
                    /\ sock'[p][id].reading => sock'[p][id].queue = <<>>
<1>1. CASE sock' = sock /\ (up' = up \/ \E m \in Messages : Quiet(m) /\ Post(p, <<m>>))
  <2>1. CASE up' = up
    BY <1>1, <2>1 DEF EndsInOrder
  <2>2. CASE \E m \in Messages : Quiet(m) /\ Post(p, <<m>>)
    <3>1. PICK m \in Messages : Quiet(m) /\ Post(p, <<m>>)
      BY <2>2
    <3>2. \A id : ~About(m, id)
      BY <3>1 DEF Quiet, About
    <3> QED
      BY <1>1, <3>1, <3>2, PostMoves DEF EndsInOrder
  <2> QED
    BY <1>1, <2>1, <2>2
<1>2. ASSUME NEW id \in Ids, Writes(p, id) \/ Finishes(p, id) \/ Leaves(p, id) \/ Reads(p, id)
      PROVE  (\A q \in Procs : q # p => up'[q] = up[q] /\ sock'[q] = sock[q]) /\ \A o \in Ids : Fine(o)
  <2>1. PICK s : Moves(p, id, s) /\ \/ /\ s.state = "open" /\ s.known = sock[p][id].known
                                       /\ s.reading => s.queue = <<>>
                                       /\ \/ up' = up
                                          \/ \E m \in Messages : /\ m.type \in {"data", "shutdown"} /\ m.id = id
                                                                 /\ Post(p, <<m>>)
                                    \/ /\ s.state = "closed" /\ s.queue = <<>>
                                       /\ \E m \in Messages : m.type = "close" /\ m.id = id /\ Post(p, <<m>>)
    <3>1. sock[p][id] \in Sockets /\ SockIn(sock[p][id])
      BY DEF TypeOK, EndsInOrder
    <3>2. Open(p, id)
      BY <1>2 DEF Writes, Finishes, Leaves, Reads, Moves
    <3> DEFINE t == sock[p][id]
    <3>3. t.state = "open" /\ (t.reading => t.queue = <<>>)
      BY <3>1, <3>2 DEF SockIn, Open
    <3>4. CASE Writes(p, id)
      <4> DEFINE s == [t EXCEPT !.wrote = @ + 1]
                 m == [type |-> "data", id |-> id, chunk |-> sock[p][id].wrote + 1]
      <4>1. m \in Messages
        BY <3>4 DEF Messages, Writes
      <4>2. s.state = "open" /\ s.known = t.known /\ (s.reading => s.queue = <<>>)
        BY <3>1, <3>3 DEF Sockets
      <4>3. Moves(p, id, s) /\ Post(p, <<m>>)
        BY <3>4 DEF Writes
      <4> QED
        BY <4>1, <4>2, <4>3
    <3>5. CASE Finishes(p, id)
      <4> DEFINE s == [t EXCEPT !.fin = TRUE]
                 m == [type |-> "shutdown", id |-> id]
      <4>1. m \in Messages
        BY DEF Messages
      <4>2. s.state = "open" /\ s.known = t.known /\ (s.reading => s.queue = <<>>)
        BY <3>1, <3>3 DEF Sockets
      <4>3. Moves(p, id, s) /\ Post(p, <<m>>)
        BY <3>5 DEF Finishes
      <4> QED
        BY <4>1, <4>2, <4>3
    <3>6. CASE Leaves(p, id)
      <4> DEFINE s == [t EXCEPT !.state = "closed", !.known = FALSE, !.queue = <<>>]
                 m == [type |-> "close", id |-> id]
      <4>1. m \in Messages
        BY DEF Messages
      <4>2. s.state = "closed" /\ s.queue = <<>>
        BY <3>1 DEF Sockets
      <4>3. Moves(p, id, s) /\ Post(p, <<m>>)
        BY <3>6 DEF Leaves
      <4> QED
        BY <4>1, <4>2, <4>3
    <3>7. CASE Reads(p, id)
      <4> DEFINE s == [t EXCEPT !.reading = TRUE, !.queue = <<>>]
                 r == [t EXCEPT !.reading = FALSE]
      <4>1. s.state = "open" /\ s.known = t.known /\ (s.reading => s.queue = <<>>)
        BY <3>1, <3>3 DEF Sockets
      <4>2. r.state = "open" /\ r.known = t.known /\ (r.reading => r.queue = <<>>)
        BY <3>1, <3>3 DEF Sockets
      <4>3. (Moves(p, id, s) \/ Moves(p, id, r)) /\ up' = up
        BY <3>7 DEF Reads
      <4> QED
        BY <4>1, <4>2, <4>3
    <3> QED
      BY <1>2, <3>4, <3>5, <3>6, <3>7
  <2>2. /\ sock'[p][id] = s /\ Open(p, id) /\ sock[p][id].state = "open"
        /\ \A o \in Ids : o # id => sock'[p][o] = sock[p][o]
        /\ \A q \in Procs : q # p => sock'[q] = sock[q]
    BY <2>1 DEF Moves, TypeOK, Open
  <2>3. CASE up' = up /\ s.state = "open" /\ s.known = sock[p][id].known /\ (s.reading => s.queue = <<>>)
    <3>1. UpIn(up[p], sock[p][id], id) => UpIn(up[p], s, id)
      BY <2>2, <2>3 DEF UpIn
    <3>2. Fine(id)
      BY <2>2, <2>3, <3>1 DEF EndsInOrder
    <3>3. \A o \in Ids : o # id => Fine(o)
      BY <2>2, <2>3 DEF EndsInOrder
    <3> QED
      BY <2>2, <2>3, <3>2, <3>3
  <2>4. ASSUME NEW m \in Messages, m.id = id, Post(p, <<m>>), s.reading => s.queue = <<>>,
               \/ s.state = "open" /\ s.known = sock[p][id].known /\ m.type \in {"data", "shutdown"}
               \/ s.state = "closed" /\ m.type = "close"
        PROVE  (\A q \in Procs : q # p => up'[q] = up[q] /\ sock'[q] = sock[q]) /\ \A o \in Ids : Fine(o)
    <3>1. \A o \in Ids : o # id => ~About(m, o)
      BY <2>4 DEF About
    <3>2. UpIn(up'[p], sock'[p][id], id)
      BY <2>2, <2>4, PostMoves DEF EndsInOrder
    <3>3. Fine(id)
      BY <2>2, <2>4, <3>2
    <3>4. \A o \in Ids : o # id => Fine(o)
      BY <2>2, <2>4, <3>1, PostMoves DEF EndsInOrder
    <3> QED
      BY <2>2, <2>4, <3>3, <3>4, PostMoves
  <2> QED
    BY <2>1, <2>3, <2>4
<1> QED
  BY <1>1, <1>2, GuestMoves

\* A process's own steps keep the invariant.
LEMMA PipedKeptByGuest ==
  ASSUME TypeOK, Piped, NEW p \in Procs, Guest(p)
  PROVE  Piped'
<1>1. UNCHANGED <<down, conns, nextConn>>
  BY GuestMoves
<1>2. /\ \A q \in Procs : q # p => up'[q] = up[q] /\ sock'[q] = sock[q]
      /\ \A id \in Ids :
              /\ UpIn(up'[p], sock'[p][id], id)
              /\ (\E i \in 1..Len(up'[p]) : About(up'[p][i], id)) =>
                   Open(p, id) \/ \E i \in 1..Len(up[p]) : About(up[p][i], id)
              /\ \/ sock'[p][id] = sock[p][id]
                 \/ /\ Open(p, id) /\ sock'[p][id].state \in {"open", "closed"}
                    /\ sock'[p][id].state = "open" => sock'[p][id].known = sock[p][id].known
                    /\ sock'[p][id].reading => sock'[p][id].queue = <<>>
  BY GuestEnds DEF Piped
<1>3. ASSUME NEW id \in Ids
      PROVE  DownIn(down'[p], sock'[p][id], id) /\ SockIn(sock'[p][id])
  <2>1. DownIn(down[p], sock[p][id], id) /\ SockIn(sock[p][id])
    BY DEF Piped, EndsInOrder
  <2> QED
    BY <1>1, <1>2, <2>1 DEF DownIn, SockIn, Open
<1>4. EndsInOrder'
  BY <1>1, <1>2, <1>3 DEF Piped, EndsInOrder
<1>5. ASSUME NEW q \in Procs, NEW id \in Ids
      PROVE  /\ Traces(q, id)' => Traces(q, id)
             /\ Holds(q, id)' => Holds(q, id)
             /\ StillOn(down[q], sock[q][id], id) => StillOn(down'[q], sock'[q][id], id)
  <2>1. CASE q # p
    BY <1>1, <1>2, <2>1 DEF Traces, Holds, Open, Waits
  <2>2. CASE q = p
    <3>1. Open(p, id) => sock[p][id] # NoSock
      BY DEF Open, NoSock
    <3>2. Traces(p, id)' => Traces(p, id)
      BY <1>1, <1>2, <3>1 DEF Traces, Knows
    <3>3. Open(p, id)' => Open(p, id)
      BY <1>2 DEF Open
    <3>4. Waits(p, id)' => Waits(p, id)
      BY <1>1 DEF Waits
    <3>5. StillOn(down[p], sock[p][id], id) => StillOn(down'[p], sock'[p][id], id)
      BY <1>1, <1>2 DEF StillOn, Open
    <3> QED
      BY <2>2, <3>2, <3>3, <3>4, <3>5 DEF Holds
  <2> QED
    BY <2>1, <2>2
<1>6. \A id \in Ids : conns'[id] # NoConn => \A q \in Procs : StillOn(down'[q], sock'[q][id], id)
  BY <1>1, <1>5 DEF Piped, OnRecord
<1> QED
  BY <1>1, <1>4, <1>5, <1>6, PipedKept

\* The handle of a connection that has come.
Fresh(s) == \E st \in {"open", "closed"} : \E port \in AllPorts :
              s = [NoSock EXCEPT !.state = st, !.known = TRUE, !.port = port]

\* What an event is to a handle on record.
Takes(s, e) == Push([s EXCEPT !.known = e.type # "close"], IF e.type = "data" THEN e.chunk ELSE EOF)

\* What the dispatch of an event does.
LEMMA DispatchMoves ==
  ASSUME TypeOK, TicketsAnswered, NEW p \in Procs, Dispatch(p)
  PROVE  /\ UNCHANGED <<up, conns, nextConn>>
         /\ down[p] \in Seq(Events) /\ down[p] # <<>> /\ down'[p] = Tail(down[p])
         /\ \A q \in Procs : q # p => down'[q] = down[q]
         /\ Head(down[p]) \in Events
         /\ LET e == Head(down[p]) IN
              \/ /\ e.type \in {"result", "incoming"} /\ sock' = sock
                 /\ e.type = "result" => e.id = 0
              \/ /\ e.type \in {"result", "incoming"} /\ e.id \in Ids
                 /\ \E s : Fresh(s) /\ sock' = [sock EXCEPT ![p][e.id] = s]
              \/ /\ e.type \in {"data", "eof", "close"} /\ e.id \in Ids
                 /\ \/ ~sock[p][e.id].known /\ sock' = sock
                    \/ /\ sock[p][e.id].known
                       /\ sock' = [sock EXCEPT ![p][e.id] = Takes(sock[p][e.id], e)]
<1> DEFINE e == Head(down[p])
<1>1. UNCHANGED <<up, conns, nextConn>> /\ down[p] \in Seq(Events) /\ down[p] # <<>>
      /\ down'[p] = Tail(down[p]) /\ (\A q \in Procs : q # p => down'[q] = down[q])
      /\ (DispatchResult(p, e) \/ DispatchIncoming(p, e) \/ DispatchItem(p, e))
  BY DEF Dispatch, kernel, TypeOK
<1>2. e \in Events /\ e = down[p][1] /\ 1 \in 1..Len(down[p])
  BY <1>1, FromFront
<1> HIDE DEF e
<1>3. CASE DispatchResult(p, e)
  <2>1. e.type = "result" /\ e.port \in AllPorts /\ e.id \in Ids \cup {0}
    BY <1>2, <1>3, EventFields DEF DispatchResult
  <2>2. pending[p][e.ticket] \in {"open", "closed"}
    BY <1>2, <2>1 DEF TicketsAnswered, AnsweredIn
  <2>3. CASE e.id = 0
    BY <1>1, <1>2, <1>3, <2>1, <2>3 DEF DispatchResult, e
  <2>4. CASE e.id # 0
    <3> DEFINE s == [NoSock EXCEPT !.state = pending[p][e.ticket], !.known = TRUE, !.port = e.port]
    <3>1. Fresh(s)
      BY <2>1, <2>2 DEF Fresh
    <3>2. sock' = [sock EXCEPT ![p][e.id] = s]
      BY <1>3, <2>4 DEF DispatchResult
    <3> QED
      BY <1>1, <1>2, <2>1, <2>4, <3>1, <3>2 DEF e
  <2> QED
    BY <2>3, <2>4
<1>4. CASE DispatchIncoming(p, e)
  <2>1. e.type = "incoming" /\ e.port \in AllPorts /\ e.id \in Ids
    BY <1>2, <1>4, EventFields DEF DispatchIncoming
  <2>2. CASE sock' = sock
    BY <1>1, <1>2, <2>1, <2>2 DEF e
  <2>3. CASE sock' # sock
    <3> DEFINE s == [NoSock EXCEPT !.state = "open", !.known = TRUE, !.port = e.port]
    <3>1. Fresh(s)
      BY <2>1 DEF Fresh
    <3>2. sock' = [sock EXCEPT ![p][e.id] = s]
      BY <1>4, <2>3 DEF DispatchIncoming
    <3> QED
      BY <1>1, <1>2, <2>1, <3>1, <3>2 DEF e
  <2> QED
    BY <2>2, <2>3
<1>5. CASE DispatchItem(p, e)
  <2>1. e.type \in {"data", "eof", "close"} /\ e.id \in Ids
    BY <1>2, <1>5, EventFields DEF DispatchItem
  <2>2. sock' = IF ~sock[p][e.id].known THEN sock
                ELSE [sock EXCEPT ![p][e.id] = Takes(sock[p][e.id], e)]
    BY <1>5 DEF DispatchItem, Takes
  <2>3. \/ ~sock[p][e.id].known /\ sock' = sock
        \/ /\ sock[p][e.id].known
           /\ sock' = [sock EXCEPT ![p][e.id] = Takes(sock[p][e.id], e)]
    BY <2>2
  <2> QED
    BY <1>1, <1>2, <2>1, <2>3 DEF e
<1> QED
  BY <1>1, <1>3, <1>4, <1>5

\* A pushed item: queued at an open handle, unless that is reading.
LEMMA TakesDoes ==
  ASSUME NEW s \in Sockets, SockIn(s), NEW e \in Events, e.type \in {"data", "eof", "close"}
  PROVE  LET t == Takes(s, e)
             item == IF e.type = "data" THEN e.chunk ELSE EOF
         IN /\ t.state = s.state /\ t.known = (e.type # "close") /\ t.fin = s.fin
            /\ t.reading => t.queue = <<>>
            /\ item \in Items /\ s.queue \in Seq(Items)
            /\ s.state # "open" => t.queue = s.queue
            /\ s.state = "open" /\ s.reading => t.queue = <<>> /\ s.queue = <<>>
            /\ s.state = "open" /\ ~s.reading => t.queue = Append(s.queue, item)
<1> DEFINE item == IF e.type = "data" THEN e.chunk ELSE EOF
           k == [s EXCEPT !.known = e.type # "close"]
           q == [k EXCEPT !.queue = Append(k.queue, item), !.ended = @ \/ item = EOF]
<1>1. item \in Items
  BY EventFields DEF Items
<1>2. s.queue \in Seq(Items)
  BY DEF Sockets, Items
<1> HIDE DEF item
<1>3. /\ k.state = s.state /\ k.known = (e.type # "close") /\ k.fin = s.fin
      /\ k.reading = s.reading /\ k.queue = s.queue
  BY DEF Sockets
<1>4. /\ q.state = s.state /\ q.known = (e.type # "close") /\ q.fin = s.fin
      /\ q.reading = s.reading /\ q.queue = Append(s.queue, item)
  BY <1>3 DEF Sockets
<1>5. Takes(s, e) = IF k.state # "open" THEN k ELSE Drain(q)
  BY DEF Takes, Push, item
<1>6. Drain(q) = IF q.reading THEN [q EXCEPT !.queue = <<>>] ELSE q
  BY DEF Drain
<1>7. LET d == [q EXCEPT !.queue = <<>>]
      IN d.state = q.state /\ d.known = q.known /\ d.fin = q.fin /\ d.reading = q.reading /\ d.queue = <<>>
  BY DEF Sockets
<1>8. s.reading => s.queue = <<>>
  BY DEF SockIn
<1> HIDE DEF k, q
<1> QED
  BY <1>1, <1>2, <1>3, <1>4, <1>5, <1>6, <1>7, <1>8 DEF item

\* What a dispatch makes of each end of its process.
LEMMA DispatchEnds ==
  ASSUME TypeOK, TicketsAnswered, EndsInOrder, NEW p \in Procs, Dispatch(p), NEW id \in Ids
  PROVE  LET e == Head(down[p])
             s == sock[p][id]
             t == sock'[p][id]
         IN /\ \A q \in Procs : q # p => sock'[q] = sock[q]
            /\ UpIn(up[p], t, id) /\ DownIn(down'[p], t, id) /\ SockIn(t)
            /\ \/ t = s
               \/ e.id = id /\ Announces(e, id) /\ t.known /\ Fresh(t)
               \/ /\ e.id = id /\ e.type \in {"data", "eof", "close"} /\ s.known
                  /\ t = Takes(s, e) /\ t.state = s.state /\ t.known = (e.type # "close")
<1> DEFINE e == Head(down[p])
           s == sock[p][id]
           t == sock'[p][id]
<1>1. down[p] \in Seq(Events) /\ down[p] # <<>> /\ down'[p] = Tail(down[p]) /\ e \in Events
  BY DispatchMoves
<1>2. \/ sock' = sock
      \/ /\ e.type \in {"result", "incoming"} /\ e.id \in Ids
         /\ \E x : Fresh(x) /\ sock' = [sock EXCEPT ![p][e.id] = x]
      \/ /\ e.type \in {"data", "eof", "close"} /\ e.id \in Ids /\ sock[p][e.id].known
         /\ sock' = [sock EXCEPT ![p][e.id] = Takes(sock[p][e.id], e)]
  BY DispatchMoves
<1>3. s \in Sockets /\ UpIn(up[p], s, id) /\ DownIn(down[p], s, id) /\ SockIn(s)
  BY DEF TypeOK, EndsInOrder
<1> HIDE DEF e
<1>4. /\ \A q \in Procs : q # p => sock'[q] = sock[q]
      /\ \/ t = s
         \/ e.id = id /\ Announces(e, id) /\ Fresh(t)
         \/ e.id = id /\ e.type \in {"data", "eof", "close"} /\ s.known /\ t = Takes(s, e)
  <2>1. CASE sock' = sock
    BY <2>1
  <2>2. ASSUME e.type \in {"result", "incoming"}, e.id \in Ids,
               NEW x, Fresh(x), sock' = [sock EXCEPT ![p][e.id] = x]
        PROVE  /\ \A q \in Procs : q # p => sock'[q] = sock[q]
               /\ t = s \/ (e.id = id /\ Announces(e, id) /\ Fresh(t))
    BY <2>2 DEF Announces, TypeOK
  <2>3. ASSUME e.type \in {"data", "eof", "close"}, e.id \in Ids, sock[p][e.id].known,
               sock' = [sock EXCEPT ![p][e.id] = Takes(sock[p][e.id], e)]
        PROVE  /\ \A q \in Procs : q # p => sock'[q] = sock[q]
               /\ t = s \/ (e.id = id /\ s.known /\ t = Takes(s, e))
    BY <2>3 DEF TypeOK
  <2> HIDE DEF s, t
  <2> QED
    BY <1>2, <2>1, <2>2, <2>3
<1> HIDE DEF s, t
<1>5. /\ \/ t = s
         \/ e.id = id /\ Announces(e, id) /\ t.known /\ Fresh(t)
         \/ /\ e.id = id /\ e.type \in {"data", "eof", "close"} /\ s.known
            /\ t = Takes(s, e) /\ t.state = s.state /\ t.known = (e.type # "close")
      /\ SockIn(t)
  <2>1. CASE t = s
    BY <1>3, <2>1
  <2>2. CASE e.id = id /\ Announces(e, id) /\ Fresh(t)
    BY <2>2 DEF Fresh, NoSock, SockIn
  <2>3. CASE e.id = id /\ e.type \in {"data", "eof", "close"} /\ s.known /\ t = Takes(s, e)
    <3>1. s.state # "none"
      BY <1>3, <2>3 DEF SockIn, NoSock
    <3>2. t.state = s.state /\ t.known = (e.type # "close") /\ (t.reading => t.queue = <<>>)
      BY <1>1, <1>3, <2>3, TakesDoes
    <3> QED
      BY <2>3, <3>1, <3>2 DEF SockIn
  <2> QED
    BY <1>4, <2>1, <2>2, <2>3
<1>6. DownIn(down'[p], t, id) /\ (e.id = id /\ Announces(e, id) => s.state = "none")
  <2>1. \/ t.state = s.state /\ t.known = s.known
        \/ e.id = id /\ Announces(e, id) /\ t.known
        \/ e.id = id /\ t.state = s.state /\ t.known = (e.type # "close")
    BY <1>5
  <2>2. /\ DownIn(Tail(down[p]), t, id)
        /\ e.id = id /\ Announces(e, id) => s.state = "none"
    BY <2>1, <1>1, <1>3, DownTake DEF e
  <2> QED
    BY <2>2, <1>1
<1>7. UpIn(up[p], t, id)
  BY <1>3, <1>5, <1>6 DEF UpIn
<1> QED
  BY <1>4, <1>5, <1>6, <1>7 DEF e, s, t

\* Dispatching keeps the invariant.
LEMMA PipedKeptByDispatch ==
  ASSUME TypeOK, TicketsAnswered, Piped, NEW p \in Procs, Dispatch(p)
  PROVE  Piped'
<1> DEFINE e == Head(down[p])
<1>1. /\ UNCHANGED <<up, conns, nextConn>>
      /\ down[p] \in Seq(Events) /\ down[p] # <<>> /\ down'[p] = Tail(down[p])
      /\ \A q \in Procs : q # p => down'[q] = down[q]
      /\ e \in Events
  BY DispatchMoves
<1>2. \A i \in 1..Len(down'[p]) : \E j \in 1..Len(down[p]) : down'[p][i] = down[p][j]
  <2>1. \A i \in 1..Len(down'[p]) : i + 1 \in 1..Len(down[p]) /\ down'[p][i] = down[p][i + 1]
    BY <1>1, FromFront
  <2> QED
    BY <2>1
<1>3. e = down[p][1] /\ 1 \in 1..Len(down[p])
  BY <1>1, FromFront
<1> HIDE DEF e
<1>4. ASSUME NEW id \in Ids
      PROVE  /\ UpIn(up'[p], sock'[p][id], id) /\ DownIn(down'[p], sock'[p][id], id) /\ SockIn(sock'[p][id])
             /\ Traces(p, id)' => Traces(p, id)
             /\ Holds(p, id)' => Holds(p, id)
             /\ StillOn(down[p], sock[p][id], id) => StillOn(down'[p], sock'[p][id], id)
             /\ \A q \in Procs : q # p => sock'[q] = sock[q]
  <2> DEFINE s == sock[p][id]
             t == sock'[p][id]
  <2>1. /\ \A q \in Procs : q # p => sock'[q] = sock[q]
        /\ UpIn(up[p], t, id) /\ DownIn(down'[p], t, id) /\ SockIn(t)
        /\ \/ t = s
           \/ e.id = id /\ Announces(e, id) /\ t.known
           \/ e.id = id /\ t.state = s.state /\ t.known = (e.type # "close")
    BY DispatchEnds DEF Piped, e
  <2> HIDE DEF s, t
  <2>2. Traces(p, id)' => Traces(p, id)
    BY <1>1, <1>2, <1>3, <2>1 DEF Traces, Knows, s, t
  <2>3. Holds(p, id)' => Holds(p, id)
    BY <1>2, <1>3, <2>1 DEF Holds, Open, Waits, s, t
  <2>4. StillOn(down[p], s, id) => StillOn(down'[p], t, id)
    BY <1>2, <1>3, <2>1 DEF StillOn
  <2> QED
    BY <1>1, <2>1, <2>2, <2>3, <2>4 DEF s, t
<1>5. EndsInOrder'
  BY <1>1, <1>4 DEF EndsInOrder, Piped
<1>6. ASSUME NEW q \in Procs, NEW id \in Ids
      PROVE  /\ Traces(q, id)' => Traces(q, id)
             /\ Holds(q, id)' => Holds(q, id)
             /\ StillOn(down[q], sock[q][id], id) => StillOn(down'[q], sock'[q][id], id)
  <2>1. CASE q # p
    BY <1>1, <1>4, <2>1 DEF Traces, Holds, Open, Waits
  <2>2. CASE q = p
    BY <1>4, <2>2
  <2> QED
    BY <2>1, <2>2
<1>7. \A id \in Ids : conns'[id] # NoConn => \A q \in Procs : StillOn(down'[q], sock'[q][id], id)
  BY <1>1, <1>6 DEF Piped, OnRecord
<1> QED
  BY <1>1, <1>5, <1>6, <1>7, PipedKept

\* What the peer is told of a message, under its own id.
Tells(e, m) == /\ e.id = PeerOf[m.id] /\ e.type \in {"data", "eof", "close"}
               /\ e.type = "close" <=> m.type = "close"
               /\ Item(e) = Item(m)

\* What the kernel makes of a message that asks for no connection.
Heard(m) ==
  \/ /\ Quiet(m) \/ (m.type \in {"data", "shutdown", "close"} /\ m.id \in Ids /\ conns[m.id] = NoConn)
     /\ UNCHANGED <<down, conns>>
  \/ /\ m.type \in {"data", "shutdown", "close"} /\ m.id \in Ids
     /\ conns[m.id] # NoConn
     /\ \E e \in Events : Tells(e, m) /\ down' = [down EXCEPT ![conns[PeerOf[m.id]].pid] = Append(@, e)]
     /\ m.type # "close" => conns' = conns
     /\ m.type = "close" =>
          conns' = [conns EXCEPT ![m.id] = NoConn, ![PeerOf[m.id]] = NoConn]

\* The two ends of a connection on record.
LEMMA OnRecordBoth ==
  ASSUME TypeOK, Pairs, OnRecord, NEW id \in Ids, conns[id] # NoConn
  PROVE  /\ conns[id].peer = PeerOf[id] /\ PeerOf[id] \in Ids
         /\ conns[PeerOf[id]] # NoConn /\ conns[PeerOf[id]].peer = id
         /\ conns[PeerOf[id]].pid \in Procs /\ Alive(conns[PeerOf[id]].pid)
         /\ conns[id].pid \in Procs /\ Alive(conns[id].pid)
<1>1. conns[id].peer = PeerOf[id] /\ PeerOf[id] \in Ids
  BY PeersAre DEF OnRecord
<1>2. conns[PeerOf[id]] # NoConn /\ conns[PeerOf[id]].peer = id /\ Alive(conns[id].pid)
  BY <1>1 DEF Pairs
<1>3. Alive(conns[PeerOf[id]].pid)
  BY <1>1, <1>2 DEF Pairs
<1> QED
  BY <1>1, <1>2, <1>3, ConnFields

\* The handlers of the messages about an end, and of releases.
LEMMA RelayMoves ==
  ASSUME TypeOK, Pairs, OnRecord, NEW p \in Procs, NEW m \in Messages,
         RelayItem(p, m) \/ RelayClose(p, m) \/ RelayRelease(p, m)
  PROVE  Heard(m) /\ nextConn' = nextConn
<1>1. CASE RelayRelease(p, m)
  BY <1>1 DEF RelayRelease, Heard, Quiet
<1>2. CASE RelayItem(p, m) \/ RelayClose(p, m)
  <2>1. m.type \in {"data", "shutdown", "close"} /\ m.id \in Ids /\ nextConn' = nextConn
    BY <1>2, MessageFields DEF RelayItem, RelayClose, kernel
  <2>2. CASE conns[m.id] = NoConn
    BY <1>2, <2>1, <2>2 DEF RelayItem, RelayClose, ToPeer, kernel, Heard
  <2>3. CASE conns[m.id] # NoConn
    <3> DEFINE o == PeerOf[m.id]
               r == conns[o].pid
    <3>1. conns[m.id].peer = o /\ o \in Ids /\ conns[o] # NoConn /\ r \in Procs /\ life[r] # "gone"
      BY <2>1, <2>3, OnRecordBoth DEF Alive
    <3>2. \A e : ToPeer(m.id, e) = [down EXCEPT ![r] = Append(@, e)]
      BY <2>3, <3>1 DEF ToPeer, Notify
    <3> HIDE DEF r
    <3>3. CASE RelayItem(p, m) /\ m.type = "data"
      <4> DEFINE e == [type |-> "data", id |-> o, chunk |-> m.chunk]
      <4>1. e \in Events /\ Tells(e, m)
        BY <3>1, <3>3, MessageFields DEF Events, Tells, Item
      <4>2. down' = [down EXCEPT ![r] = Append(@, e)] /\ conns' = conns
        BY <3>1, <3>2, <3>3 DEF RelayItem, kernel
      <4> QED
        BY <2>1, <2>3, <3>3, <4>1, <4>2 DEF Heard, r
    <3>4. CASE RelayItem(p, m) /\ m.type = "shutdown"
      <4> DEFINE e == [type |-> "eof", id |-> o]
      <4>1. e \in Events /\ Tells(e, m)
        BY <3>1, <3>4 DEF Events, Tells, Item
      <4>2. down' = [down EXCEPT ![r] = Append(@, e)] /\ conns' = conns
        BY <3>1, <3>2, <3>4 DEF RelayItem, kernel
      <4> QED
        BY <2>1, <2>3, <3>4, <4>1, <4>2 DEF Heard, r
    <3>5. CASE RelayClose(p, m)
      <4> DEFINE e == [type |-> "close", id |-> o]
      <4>1. m.type = "close" /\ e \in Events /\ Tells(e, m)
        BY <3>1, <3>5 DEF RelayClose, Events, Tells, Item
      <4>2. down' = [down EXCEPT ![r] = Append(@, e)] /\ conns' = [conns EXCEPT ![m.id] = NoConn, ![o] = NoConn]
        BY <3>1, <3>2, <3>5, <2>3 DEF RelayClose
      <4> QED
        BY <2>1, <2>3, <4>1, <4>2 DEF Heard, r
    <3> QED
      BY <1>2, <3>3, <3>4, <3>5 DEF RelayItem
  <2> QED
    BY <2>2, <2>3
<1> QED
  BY <1>1, <1>2

\* A close that is heard is about an end nobody holds any more.
LEMMA ClosedIsLeft ==
  ASSUME TypeOK, Piped, NEW p \in Procs, up[p] # <<>>, Head(up[p]).type = "close", Head(up[p]).id \in Ids
  PROVE  \A q \in Procs : ~Holds(q, Head(up[p]).id)
<1> DEFINE m == Head(up[p])
           id == m.id
<1>1. up[p] \in Seq(Messages) /\ m = up[p][1] /\ 1 \in 1..Len(up[p]) /\ About(m, id)
  BY FromFront DEF TypeOK, About
<1> HIDE DEF m
<1>2. UpIn(up[p], sock[p][id], id) /\ DownIn(down[p], sock[p][id], id) /\ id \in Ids
  BY DEF Piped, EndsInOrder, m
<1>3. sock[p][id].state = "closed"
  BY <1>1, <1>2 DEF UpIn, m
<1>4. ~Holds(p, id)
  BY <1>2, <1>3 DEF Holds, Open, Waits, DownIn
<1>5. Traces(p, id)
  BY <1>1 DEF Traces, Knows
<1>6. \A q \in Procs : Holds(q, id) => q = p
  BY <1>2, <1>5, HoldsTraces DEF Piped, OneOwner
<1> QED
  BY <1>4, <1>6 DEF m

\* What the kernel makes of such a message keeps the invariant.
LEMMA PipedKeptByHearing ==
  ASSUME TypeOK, Pairs, Piped, NEW p \in Procs, up[p] # <<>>, up' = [up EXCEPT ![p] = Tail(@)],
         Heard(Head(up[p])), sock' = sock, nextConn' = nextConn
  PROVE  Piped'
<1>1. /\ up[p] \in Seq(Messages) /\ up'[p] = Tail(up[p])
      /\ Head(up[p]) \in Messages
      /\ \A q \in Procs : q # p => up'[q] = up[q]
  BY FromFront DEF TypeOK
<1>2. /\ \A id : UpIn(up[p], sock[p][id], id) => UpIn(up'[p], sock[p][id], id)
      /\ \A i \in 1..Len(up'[p]) : \E j \in 1..Len(up[p]) : up'[p][i] = up[p][j]
  BY <1>1, UpTake
<1>m. PICK m \in Messages : m = Head(up[p])
  BY <1>1
<1>3. ASSUME NEW q \in Procs, NEW id \in Ids
      PROVE  /\ UpIn(up'[q], sock'[q][id], id)
             /\ SockIn(sock'[q][id])
             /\ (\E i \in 1..Len(up'[q]) : About(up'[q][i], id)) => \E i \in 1..Len(up[q]) : About(up[q][i], id)
             /\ DownIn(down[q], sock'[q][id], id)
             /\ Open(q, id)' <=> Open(q, id)
  <2>1. UpIn(up[q], sock[q][id], id) /\ SockIn(sock[q][id]) /\ DownIn(down[q], sock[q][id], id)
    BY DEF Piped, EndsInOrder
  <2>2. CASE q = p
    BY <1>2, <2>1, <2>2 DEF Open
  <2>3. CASE q # p
    BY <1>1, <2>1, <2>3 DEF Open
  <2> QED
    BY <2>2, <2>3
<1>4. CASE UNCHANGED <<down, conns>>
  <2>1. EndsInOrder'
    BY <1>3, <1>4 DEF EndsInOrder
  <2>2. \A q \in Procs : \A id \in Ids : (Traces(q, id)' => Traces(q, id)) /\ (Holds(q, id)' => Holds(q, id))
    BY <1>3, <1>4 DEF Traces, Knows, Holds, Waits
  <2>3. \A id \in Ids : conns'[id] # NoConn => \A q \in Procs : StillOn(down'[q], sock'[q][id], id)
    BY <1>4 DEF Piped, OnRecord
  <2> QED
    BY <1>4, <2>1, <2>2, <2>3, PipedKept
<1>5. ASSUME m.type \in {"data", "shutdown", "close"}, m.id \in Ids, conns[m.id] # NoConn,
             NEW e \in Events, Tells(e, m), down' = [down EXCEPT ![conns[PeerOf[m.id]].pid] = Append(@, e)],
             m.type # "close" => conns' = conns,
             m.type = "close" => conns' = [conns EXCEPT ![m.id] = NoConn, ![PeerOf[m.id]] = NoConn]
      PROVE  Piped'
  <2>o. PICK o \in Ids : o = PeerOf[m.id]
    BY <1>5, PeersAre
  <2>r. PICK r \in Procs : r = conns[o].pid
    BY <1>5, <2>o, OnRecordBoth DEF Piped
  <2>1. conns[o] # NoConn /\ e.id = o /\ PeerOf[o] = m.id
        /\ e.type \in {"data", "eof", "close"} /\ (e.type = "close" <=> m.type = "close")
    BY <1>5, <2>o, OnRecordBoth, PeersAre DEF Piped, Tells
  <2>2. /\ down[r] \in Seq(Events) /\ down'[r] = down[r] \o <<e>> /\ e \in Events
        /\ \A q \in Procs : q # r => down'[q] = down[q]
    <3>1. down' = [down EXCEPT ![r] = Append(@, e)] /\ down \in [Procs -> Seq(Events)]
      BY <1>5, <2>o, <2>r DEF TypeOK
    <3>2. down'[r] = Append(down[r], e) /\ \A q \in Procs : q # r => down'[q] = down[q]
      BY <3>1
    <3>3. e \in Events /\ down[r] \in Seq(Events)
      BY <1>5, <3>1
    <3> QED
      BY <3>2, <3>3, AtEnd
  <2>3. \A i \in 1..Len(down'[r]) : (i \in 1..Len(down[r]) /\ down'[r][i] = down[r][i]) \/ down'[r][i] = e
    <3>1. /\ Len(down[r] \o <<e>>) = Len(down[r]) + 1 /\ Len(down[r]) \in Nat
          /\ \A i \in 1..Len(down[r]) : (down[r] \o <<e>>)[i] = down[r][i]
          /\ (down[r] \o <<e>>)[Len(down[r]) + 1] = e
      BY <2>2, AtEnd
    <3>2. \A i \in 1..Len(down'[r]) : i \in 1..Len(down[r]) \/ i = Len(down[r]) + 1
      BY <3>1, <2>2
    <3> QED
      BY <3>1, <3>2, <2>2
  <2>4. conns'[o] # NoConn => m.type # "close"
    BY <1>5, <2>o DEF TypeOK
  <2>5. \A id \in Ids : conns'[id] # conns[id] => m.type = "close" /\ id \in {m.id, o} /\ conns'[id] = NoConn
    BY <1>5, <2>o DEF TypeOK
  <2>6. \A id \in Ids : conns[id] # NoConn => \A q \in Procs : StillOn(down[q], sock[q][id], id)
    BY DEF Piped, OnRecord
  <2>7. ASSUME NEW q \in Procs, NEW id \in Ids PROVE DownIn(down'[q], sock'[q][id], id)
    <3>1. CASE q # r
      BY <1>3, <2>2, <3>1
    <3>2. CASE q = r
      <4>1. DownIn(down[r], sock'[r][id], id)
        BY <1>3, <3>2
      <4>2. e.id # id \/ (~Announces(e, id) /\ StillOn(down[r], sock'[r][id], id))
        BY <2>1, <2>6 DEF Announces
      <4> QED
        BY <2>2, <3>2, <4>1, <4>2, DownPost
    <3> QED
      BY <3>1, <3>2
  <2>8. EndsInOrder'
    BY <1>3, <2>7 DEF EndsInOrder
  <2>9. ASSUME NEW q \in Procs, NEW id \in Ids
        PROVE  /\ Traces(q, id)' => Traces(q, id) \/ (conns[id] # NoConn /\ conns[id].pid = q)
               /\ Holds(q, id)' => Holds(q, id)
               /\ conns'[id] # NoConn => StillOn(down'[q], sock'[q][id], id)
    <3>1. CASE q # r
      BY <1>3, <2>2, <2>5, <2>6, <3>1 DEF Traces, Knows, Holds, Waits
    <3>2. CASE q = r
      <4>1. Traces(r, id)' => Traces(r, id) \/ id = o
        BY <1>3, <2>1, <2>3, <3>2 DEF Traces, Knows
      <4>2. Holds(r, id)' => Holds(r, id)
        BY <1>3, <2>1, <2>3, <3>2 DEF Holds, Waits, Announces
      <4>3. conns'[id] # NoConn => StillOn(down'[r], sock'[r][id], id)
        BY <2>1, <2>3, <2>4, <2>5, <2>6, <3>2 DEF StillOn
      <4> QED
        BY <2>r, <2>1, <3>2, <4>1, <4>2, <4>3
    <3> QED
      BY <3>1, <3>2
  <2>10. m.type = "close" => \A q \in Procs : ~Holds(q, m.id)
    BY <1>5, <1>m, ClosedIsLeft
  <2>11. ASSUME NEW id \in Ids
         PROVE  \/ conns'[id] = conns[id]
                \/ /\ conns'[id] = NoConn
                   /\ \A q, s \in Procs : ~(Holds(q, id)' /\ Holds(s, PeerOf[id])')
    <3>1. CASE conns'[id] # conns[id]
      <4>1. m.type = "close" /\ id \in {m.id, o} /\ conns'[id] = NoConn
        BY <2>5, <3>1
      <4>2. \A q \in Procs : ~Holds(q, m.id)'
        BY <1>5, <2>9, <2>10, <4>1
      <4> QED
        BY <2>1, <2>o, <4>1, <4>2
    <3> QED
      BY <3>1
  <2> QED
    BY <2>8, <2>9, <2>11, PipedKept
<1> QED
  BY <1>4, <1>5, <1>m DEF Heard

\* What a connect does: it is refused, or two ends are made and announced.
Refused(p) == \E e \in Events : /\ e.type = "result" /\ e.id = 0
                                /\ down' = [down EXCEPT ![p] = Append(@, e)]
                                /\ UNCHANGED <<conns, nextConn>>
Connected(p, q, a, b) ==
  \E e, f \in Events : /\ e.type = "result" /\ e.id = a /\ f.type = "incoming" /\ f.id = b
                       /\ \E d \in [Procs -> Seq(Events)] :
                            /\ d = [down EXCEPT ![p] = Append(@, e)]
                            /\ down' = [d EXCEPT ![q] = Append(@, f)]
                       /\ conns' = [conns EXCEPT ![a] = [pid |-> p, peer |-> b], ![b] = [pid |-> q, peer |-> a]]
                       /\ nextConn' = nextConn + 2

\* The handler of a connect.
LEMMA ConnectMoves ==
  ASSUME Inv, NEW p \in Procs, up[p] # <<>>, RelayConnect(p, Head(up[p]))
  PROVE  /\ Quiet(Head(up[p]))
         /\ \/ Refused(p)
            \/ /\ nextConn \in Ids /\ nextConn + 1 \in Ids
               /\ \E q \in Procs : Connected(p, q, nextConn, nextConn + 1)
<1> DEFINE m == Head(up[p])
           q == bound[<<"tcp", m.port>>]
           R(id) == [type |-> "result", ticket |-> m.ticket, port |-> m.port, id |-> id]
           J == [type |-> "incoming", id |-> nextConn + 1, port |-> m.port]
<1>1. TypeOK /\ Room /\ GoneIsGone /\ PortsAgree
  BY DEF Inv, Typed
<1>2. /\ m \in Messages /\ m.type = "connect"
      /\ nextConn \in Ids /\ nextConn + 1 \in Ids
      /\ \/ /\ R(0) \in Events /\ down' = Notify(down, p, R(0))
            /\ UNCHANGED <<conns, nextConn>>
         \/ /\ q \in Procs /\ R(nextConn) \in Events /\ J \in Events
            /\ down' = Notify(Notify(down, p, R(nextConn)), q, J)
            /\ conns' = [conns EXCEPT ![nextConn] = [pid |-> p, peer |-> nextConn + 1],
                                      ![nextConn + 1] = [pid |-> q, peer |-> nextConn]]
            /\ nextConn' = nextConn + 2
  BY <1>1, ConnectDoes
<1>3. life[p] # "gone"
  BY <1>1 DEF GoneIsGone, Alive
<1>4. Quiet(m)
  BY <1>2 DEF Quiet
<1>5. CASE R(0) \in Events /\ down' = Notify(down, p, R(0)) /\ UNCHANGED <<conns, nextConn>>
  <2>1. down' = [down EXCEPT ![p] = Append(@, R(0))]
    BY <1>3, <1>5 DEF Notify
  <2>2. R(0).type = "result" /\ R(0).id = 0
    OBVIOUS
  <2> HIDE DEF R
  <2> QED
    BY <1>4, <1>5, <2>1, <2>2 DEF Refused
<1>6. CASE /\ q \in Procs /\ R(nextConn) \in Events /\ J \in Events
           /\ down' = Notify(Notify(down, p, R(nextConn)), q, J)
           /\ conns' = [conns EXCEPT ![nextConn] = [pid |-> p, peer |-> nextConn + 1],
                                     ![nextConn + 1] = [pid |-> q, peer |-> nextConn]]
           /\ nextConn' = nextConn + 2
  <2>1. life[q] # "gone"
    <3>1. m.port \in AllPorts
      BY <1>2, MessageFields
    <3>2. <<"tcp", m.port>> \in Protos \X AllPorts
      BY <3>1, NetAssumption
    <3>3. <<"tcp", m.port>> \in servers[q] \/ Frees(up[q], <<"tcp", m.port>>)
      BY <1>1, <1>6, <3>2 DEF PortsAgree
    <3>4. ~Frees(<<>>, <<"tcp", m.port>>)
      BY DEF Frees
    <3> QED
      BY <1>1, <1>6, <3>3, <3>4 DEF GoneIsGone, Alive
  <2>2. R(nextConn).type = "result" /\ R(nextConn).id = nextConn /\ J.type = "incoming" /\ J.id = nextConn + 1
    OBVIOUS
  <2>q. PICK qq \in Procs : qq = q
    BY <1>6
  <2>e. PICK e \in Events : e = R(nextConn)
    BY <1>6
  <2>f. PICK f \in Events : f = J
    BY <1>6
  <2> HIDE DEF q, R, J
  <2>3. PICK d : d = [down EXCEPT ![p] = Append(@, e)]
    OBVIOUS
  <2>4. d \in [Procs -> Seq(Events)]
    BY <2>3, <1>1 DEF TypeOK
  <2>5. Notify(down, p, e) = d
    BY <2>3, <1>3 DEF Notify
  <2>6. down' = [d EXCEPT ![qq] = Append(@, f)]
    BY <2>1, <2>5, <2>q, <2>e, <2>f, <1>6 DEF Notify
  <2>7. Connected(p, qq, nextConn, nextConn + 1)
    <3>1. e.type = "result" /\ e.id = nextConn /\ f.type = "incoming" /\ f.id = nextConn + 1
      BY <2>2, <2>e, <2>f
    <3>2. conns' = [conns EXCEPT ![nextConn] = [pid |-> p, peer |-> nextConn + 1],
                                 ![nextConn + 1] = [pid |-> qq, peer |-> nextConn]]
      BY <1>6, <2>q
    <3>3. nextConn' = nextConn + 2
      BY <1>6
    <3>4. e \in Events /\ f \in Events
      OBVIOUS
    <3> QED
      BY <3>1, <3>2, <3>3, <3>4, <2>3, <2>4, <2>6 DEF Connected
  <2> QED
    BY <1>2, <1>4, <2>7
<1> QED
  BY <1>2, <1>5, <1>6

\* A message that is about no end, taken.
LEMMA QuietTaken ==
  ASSUME TypeOK, EndsInOrder, NEW p \in Procs, up[p] # <<>>, up' = [up EXCEPT ![p] = Tail(@)], sock' = sock,
         NEW q \in Procs, NEW id \in Ids
  PROVE  /\ UpIn(up'[q], sock'[q][id], id) /\ SockIn(sock'[q][id])
         /\ (\E i \in 1..Len(up'[q]) : About(up'[q][i], id)) => \E i \in 1..Len(up[q]) : About(up[q][i], id)
         /\ DownIn(down[q], sock'[q][id], id)
<1>1. UpIn(up[q], sock[q][id], id) /\ SockIn(sock[q][id]) /\ DownIn(down[q], sock[q][id], id)
  BY DEF EndsInOrder
<1>2. CASE q # p
  BY <1>1, <1>2 DEF TypeOK
<1>3. CASE q = p
  <2>1. up[p] \in Seq(Messages) /\ up'[p] = Tail(up[p])
    BY DEF TypeOK
  <2> QED
    BY <1>1, <1>3, <2>1, UpTake
<1> QED
  BY <1>2, <1>3

\* The events of a process that one event more has been posted to.
LEMMA OneMore ==
  ASSUME NEW d \in Seq(Events), NEW e \in Events
  PROVE  /\ Append(d, e) = d \o <<e>> /\ Append(d, e) \in Seq(Events)
         /\ \A i \in 1..Len(Append(d, e)) :
              (i \in 1..Len(d) /\ Append(d, e)[i] = d[i]) \/ (i = Len(d) + 1 /\ Append(d, e)[i] = e)
         /\ \A i \in 1..Len(d) : i \in 1..Len(Append(d, e)) /\ Append(d, e)[i] = d[i]
<1>1. /\ d \o <<e>> = Append(d, e) /\ d \o <<e>> \in Seq(Events)
      /\ Len(d \o <<e>>) = Len(d) + 1 /\ Len(d) \in Nat
      /\ \A i \in 1..Len(d) : (d \o <<e>>)[i] = d[i]
      /\ (d \o <<e>>)[Len(d) + 1] = e
  BY AtEnd
<1> QED
  BY <1>1

\* A refused connect keeps the invariant.
LEMMA PipedKeptByRefusal ==
  ASSUME TypeOK, Piped, NEW p \in Procs, up[p] # <<>>, up' = [up EXCEPT ![p] = Tail(@)], sock' = sock,
         Refused(p)
  PROVE  Piped'
<1>1. PICK e \in Events : e.type = "result" /\ e.id = 0 /\ down' = [down EXCEPT ![p] = Append(@, e)]
                          /\ UNCHANGED <<conns, nextConn>>
  BY DEF Refused
<1>2. /\ down[p] \in Seq(Events) /\ down'[p] = down[p] \o <<e>>
      /\ \A i \in 1..Len(down'[p]) : (i \in 1..Len(down[p]) /\ down'[p][i] = down[p][i]) \/ down'[p][i].id = 0
      /\ \A q \in Procs : q # p => down'[q] = down[q]
  BY <1>1, OneMore DEF TypeOK
<1>3. ASSUME NEW q \in Procs, NEW id \in Ids
      PROVE  /\ UpIn(up'[q], sock'[q][id], id) /\ SockIn(sock'[q][id]) /\ DownIn(down'[q], sock'[q][id], id)
             /\ Traces(q, id)' => Traces(q, id)
             /\ Holds(q, id)' => Holds(q, id)
             /\ StillOn(down[q], sock[q][id], id) => StillOn(down'[q], sock'[q][id], id)
  <2>1. id # 0
    BY DEF Ids
  <2>2. /\ UpIn(up'[q], sock'[q][id], id) /\ SockIn(sock'[q][id]) /\ DownIn(down[q], sock'[q][id], id)
        /\ (\E i \in 1..Len(up'[q]) : About(up'[q][i], id)) => \E i \in 1..Len(up[q]) : About(up[q][i], id)
    BY QuietTaken DEF Piped
  <2>3. CASE q # p
    BY <1>2, <2>2, <2>3 DEF Traces, Knows, Holds, Open, Waits
  <2>4. CASE q = p
    <3>1. DownIn(down'[q], sock'[q][id], id)
      BY <1>1, <1>2, <2>1, <2>2, <2>4, DownPost
    <3>2. Traces(p, id)' => Traces(p, id)
      BY <1>2, <2>1, <2>2, <2>4 DEF Traces, Knows
    <3>3. Holds(p, id)' => Holds(p, id)
      BY <1>2, <2>1 DEF Holds, Open, Waits, Announces
    <3>4. StillOn(down[p], sock[p][id], id) => StillOn(down'[p], sock'[p][id], id)
      BY <1>2, <2>1 DEF StillOn
    <3> QED
      BY <2>2, <2>4, <3>1, <3>2, <3>3, <3>4
  <2> QED
    BY <2>3, <2>4
<1>4. EndsInOrder'
  BY <1>3 DEF EndsInOrder
<1>5. \A id \in Ids : conns'[id] # NoConn => \A q \in Procs : StillOn(down'[q], sock'[q][id], id)
  BY <1>1, <1>3 DEF Piped, OnRecord
<1> QED
  BY <1>1, <1>3, <1>4, <1>5, PipedKept

\* An event that announces an end, behind the others of a process.
LEMMA Announced ==
  ASSUME NEW d \in Seq(Events), NEW e \in Events, e.type \in {"result", "incoming"},
         NEW id \in Ids, NEW s, DownIn(d, s, id),
         e.id = id => s.state = "none" /\ \A i \in 1..Len(d) : d[i].id # id
  PROVE  /\ Append(d, e) \in Seq(Events) /\ DownIn(Append(d, e), s, id)
         /\ \A i \in 1..Len(Append(d, e)) : \/ i \in 1..Len(d) /\ Append(d, e)[i] = d[i]
                                            \/ Append(d, e)[i] = e
         /\ \A i \in 1..Len(d) : i \in 1..Len(Append(d, e)) /\ Append(d, e)[i] = d[i]
         /\ \E i \in 1..Len(Append(d, e)) : Append(d, e)[i] = e
         /\ ItemsOf(Append(d, e), id) = ItemsOf(d, id)
<1> DEFINE c == Append(d, e)
<1>1. DownIn(d \o <<e>>, s, id)
  BY DownPost
<1>2. /\ c = d \o <<e>> /\ c \in Seq(Events)
      /\ \A i \in 1..Len(c) : (i \in 1..Len(d) /\ c[i] = d[i]) \/ c[i] = e
      /\ \A i \in 1..Len(d) : i \in 1..Len(c) /\ c[i] = d[i]
  BY OneMore
<1>3. Len(c) \in 1..Len(c) /\ c[Len(c)] = e
  OBVIOUS
<1>4. ~IsItem(e, id)
  BY DEF IsItem
<1>5. ItemsOf(c, id) = IF IsItem(e, id) THEN Append(ItemsOf(d, id), Item(e)) ELSE ItemsOf(d, id)
  BY ItemsAppend
<1> HIDE DEF c
<1> QED
  BY <1>1, <1>2, <1>3, <1>4, <1>5 DEF c

\* What an accepted connect makes of each end at each process.
LEMMA ConnectEnds ==
  ASSUME TypeOK, Piped, NEW p \in Procs, NEW q \in Procs, NEW a \in Ids, NEW b \in Ids,
         a = nextConn, b = a + 1, Connected(p, q, a, b), NEW x \in Procs, NEW id \in Ids
  PROVE  /\ DownIn(down'[x], sock[x][id], id)
         /\ ItemsOf(down'[x], id) = ItemsOf(down[x], id)
         /\ (\E i \in 1..Len(down'[x]) : down'[x][i].id = id) =>
              \/ \E i \in 1..Len(down[x]) : down[x][i].id = id
              \/ (id = a /\ x = p) \/ (id = b /\ x = q)
         /\ (\E i \in 1..Len(down'[x]) : Announces(down'[x][i], id)) <=>
              \/ \E i \in 1..Len(down[x]) : Announces(down[x][i], id)
              \/ (id = a /\ x = p) \/ (id = b /\ x = q)
         /\ StillOn(down[x], sock[x][id], id) => StillOn(down'[x], sock[x][id], id)
<1>1. PICK e \in Events, f \in Events, d \in [Procs -> Seq(Events)] :
        /\ e.type = "result" /\ e.id = a /\ f.type = "incoming" /\ f.id = b
        /\ d = [down EXCEPT ![p] = Append(@, e)]
        /\ down' = [d EXCEPT ![q] = Append(@, f)]
  BY DEF Connected
<1> DEFINE s == sock[x][id]
<1>2. DownIn(down[x], s, id) /\ down \in [Procs -> Seq(Events)]
  BY DEF Piped, EndsInOrder, TypeOK
<1>3. id \in {a, b} => s.state = "none" /\ \A i \in 1..Len(down[x]) : down[x][i].id # id
  <2>1. id \in {a, b} => id >= nextConn
    BY DEF TypeOK
  <2>2. id \in {a, b} => ~Traces(x, id)
    BY <2>1 DEF Piped, NewIds
  <2>3. ~Traces(x, id) => s = NoSock /\ \A i \in 1..Len(down[x]) : down[x][i].id # id
    BY DEF Traces, Knows
  <2>4. NoSock.state = "none"
    BY DEF NoSock
  <2> HIDE DEF s
  <2> QED
    BY <2>2, <2>3, <2>4
<1>4. a # b
  BY DEF Ids
<1> HIDE DEF s
<1>5. /\ DownIn(d[x], s, id)
      /\ \A i \in 1..Len(d[x]) : (i \in 1..Len(down[x]) /\ d[x][i] = down[x][i]) \/ (x = p /\ d[x][i] = e)
      /\ \A i \in 1..Len(down[x]) : i \in 1..Len(d[x]) /\ d[x][i] = down[x][i]
      /\ x = p => \E i \in 1..Len(d[x]) : d[x][i] = e
      /\ ItemsOf(d[x], id) = ItemsOf(down[x], id)
  <2>1. CASE x # p
    <3>1. d[x] = down[x]
      BY <1>1, <1>2, <2>1
    <3> QED
      BY <1>2, <2>1, <3>1
  <2>2. CASE x = p
    <3>1. d[x] = Append(down[x], e) /\ down[x] \in Seq(Events) /\ e \in Events /\ e.type \in {"result", "incoming"}
      BY <1>1, <1>2, <2>2
    <3>2. e.id = id => s.state = "none" /\ \A i \in 1..Len(down[x]) : down[x][i].id # id
      BY <1>1, <1>3
    <3> QED
      BY <1>2, <2>2, <3>1, <3>2, Announced
  <2> QED
    BY <2>1, <2>2
<1>6. /\ DownIn(down'[x], s, id)
      /\ \A i \in 1..Len(down'[x]) : (i \in 1..Len(d[x]) /\ down'[x][i] = d[x][i]) \/ (x = q /\ down'[x][i] = f)
      /\ \A i \in 1..Len(d[x]) : i \in 1..Len(down'[x]) /\ down'[x][i] = d[x][i]
      /\ x = q => \E i \in 1..Len(down'[x]) : down'[x][i] = f
      /\ ItemsOf(down'[x], id) = ItemsOf(d[x], id)
  <2>1. id = b => \A i \in 1..Len(d[x]) : d[x][i].id # id
    BY <1>1, <1>3, <1>4, <1>5
  <2>2. CASE x # q
    <3>1. down'[x] = d[x]
      BY <1>1, <2>2
    <3> QED
      BY <1>5, <2>2, <3>1
  <2>3. CASE x = q
    <3>1. down'[x] = Append(d[x], f) /\ d[x] \in Seq(Events) /\ f \in Events /\ f.type \in {"result", "incoming"}
      BY <1>1, <2>3
    <3>2. f.id = id => s.state = "none" /\ \A i \in 1..Len(d[x]) : d[x][i].id # id
      BY <1>1, <1>3, <2>1
    <3> QED
      BY <1>5, <2>3, <3>1, <3>2, Announced
  <2> QED
    BY <2>2, <2>3
<1>7. ASSUME NEW i \in 1..Len(down'[x])
      PROVE  \/ i \in 1..Len(down[x]) /\ down'[x][i] = down[x][i]
             \/ x = p /\ down'[x][i] = e
             \/ x = q /\ down'[x][i] = f
  BY <1>5, <1>6
<1>8. \A i \in 1..Len(down[x]) : i \in 1..Len(down'[x]) /\ down'[x][i] = down[x][i]
  BY <1>5, <1>6
<1>9. /\ x = p => \E i \in 1..Len(down'[x]) : down'[x][i] = e
      /\ x = q => \E i \in 1..Len(down'[x]) : down'[x][i] = f
  BY <1>5, <1>6
<1>10. (\E i \in 1..Len(down'[x]) : down'[x][i].id = id) =>
              \/ \E i \in 1..Len(down[x]) : down[x][i].id = id
              \/ (id = a /\ x = p) \/ (id = b /\ x = q)
  BY <1>1, <1>7
<1>11. (\E i \in 1..Len(down'[x]) : Announces(down'[x][i], id)) =>
              \/ \E i \in 1..Len(down[x]) : Announces(down[x][i], id)
              \/ (id = a /\ x = p) \/ (id = b /\ x = q)
  BY <1>1, <1>7 DEF Announces
<1>12. (\E i \in 1..Len(down[x]) : Announces(down[x][i], id)) => \E i \in 1..Len(down'[x]) : Announces(down'[x][i], id)
  BY <1>8
<1>13. (id = a /\ x = p) \/ (id = b /\ x = q) => \E i \in 1..Len(down'[x]) : Announces(down'[x][i], id)
  BY <1>1, <1>9 DEF Announces
<1>14. StillOn(down[x], s, id) => StillOn(down'[x], s, id)
  <2>1. e.type # "close" /\ f.type # "close"
    BY <1>1
  <2> QED
    BY <1>7, <2>1 DEF StillOn
<1> QED
  BY <1>5, <1>6, <1>10, <1>11, <1>12, <1>13, <1>14 DEF s

\* A connection made keeps the invariant.
LEMMA PipedKeptByConnection ==
  ASSUME TypeOK, Piped, NEW p \in Procs, up[p] # <<>>, up' = [up EXCEPT ![p] = Tail(@)], sock' = sock,
         NEW q \in Procs, NEW a \in Ids, NEW b \in Ids, a = nextConn, b = a + 1, Connected(p, q, a, b)
  PROVE  Piped'
<1>1. /\ conns' = [conns EXCEPT ![a] = [pid |-> p, peer |-> b], ![b] = [pid |-> q, peer |-> a]]
      /\ nextConn' = nextConn + 2 /\ a # b /\ nextConn \in Nat
  BY DEF Connected, TypeOK, Ids
<1>2. PeerOf[a] = b /\ PeerOf[b] = a
  <2>1. Odd(a)
    BY DEF Piped, NewIds
  <2>2. PeerOf[a] = b
    BY <2>1 DEF PeerOf
  <2> QED
    BY <2>2, PeersAre
<1>3. /\ conns'[a] = [pid |-> p, peer |-> b] /\ conns'[b] = [pid |-> q, peer |-> a]
      /\ \A id \in Ids : id \notin {a, b} => conns'[id] = conns[id]
  BY <1>1 DEF TypeOK
<1>4. ASSUME NEW x \in Procs, NEW id \in Ids
      PROVE  /\ UpIn(up'[x], sock'[x][id], id) /\ SockIn(sock'[x][id]) /\ DownIn(down'[x], sock'[x][id], id)
             /\ Traces(x, id)' => Traces(x, id) \/ (id = a /\ x = p) \/ (id = b /\ x = q)
             /\ Holds(x, id)' => Holds(x, id) \/ id \in {a, b}
             /\ StillOn(down[x], sock[x][id], id) => StillOn(down'[x], sock'[x][id], id)
  <2>1. /\ UpIn(up'[x], sock'[x][id], id) /\ SockIn(sock'[x][id])
        /\ (\E i \in 1..Len(up'[x]) : About(up'[x][i], id)) => \E i \in 1..Len(up[x]) : About(up[x][i], id)
    BY QuietTaken DEF Piped
  <2>2. /\ DownIn(down'[x], sock[x][id], id)
        /\ (\E i \in 1..Len(down'[x]) : down'[x][i].id = id) =>
              \/ \E i \in 1..Len(down[x]) : down[x][i].id = id
              \/ (id = a /\ x = p) \/ (id = b /\ x = q)
        /\ (\E i \in 1..Len(down'[x]) : Announces(down'[x][i], id)) =>
              \/ \E i \in 1..Len(down[x]) : Announces(down[x][i], id)
              \/ (id = a /\ x = p) \/ (id = b /\ x = q)
        /\ StillOn(down[x], sock[x][id], id) => StillOn(down'[x], sock[x][id], id)
    BY ConnectEnds
  <2>3. Traces(x, id)' => Traces(x, id) \/ (id = a /\ x = p) \/ (id = b /\ x = q)
    BY <2>1, <2>2 DEF Traces, Knows
  <2>4. Holds(x, id)' => Holds(x, id) \/ id \in {a, b}
    BY <2>2 DEF Holds, Open, Waits
  <2> QED
    BY <2>1, <2>2, <2>3, <2>4
<1>5. EndsInOrder'
  BY <1>4 DEF EndsInOrder
<1>6. \A id \in Ids : id >= nextConn => conns[id] = NoConn /\ \A x \in Procs : ~Traces(x, id)
  BY DEF Piped, NewIds
<1>7. a >= nextConn /\ b >= nextConn /\ \A id \in Ids : id \in Nat
  BY <1>1, PeersAre
<1>8. OneOwner'
  BY <1>1, <1>4, <1>6, <1>7 DEF Piped, OneOwner
<1>9. OnRecord'
  <2>1. ASSUME NEW id \in Ids, conns'[id] # NoConn
        PROVE  /\ conns'[id].peer = PeerOf[id]
               /\ \A x \in Procs : /\ Traces(x, id)' => conns'[id].pid = x
                                   /\ StillOn(down'[x], sock'[x][id], id)
    <3>1. CASE id \notin {a, b}
      BY <1>3, <1>4, <2>1, <3>1 DEF Piped, OnRecord
    <3>2. CASE id \in {a, b}
      <4>1. conns'[id].peer = PeerOf[id] /\ conns'[id].pid = IF id = a THEN p ELSE q
        BY <1>1, <1>2, <1>3, <3>2
      <4>2. ASSUME NEW x \in Procs
            PROVE  Traces(x, id)' => conns'[id].pid = x
        BY <1>1, <1>4, <1>6, <1>7, <3>2, <4>1
      <4>3. ASSUME NEW x \in Procs
            PROVE  StillOn(down'[x], sock'[x][id], id)
        <5>1. ~Traces(x, id)
          BY <1>6, <1>7, <3>2
        <5>2. StillOn(down[x], sock[x][id], id)
          BY <5>1 DEF Traces, Knows, StillOn, NoSock
        <5> QED
          BY <5>2, <1>4
      <4> QED
        BY <4>1, <4>2, <4>3
    <3> QED
      BY <3>1, <3>2
  <2> QED
    BY <2>1 DEF OnRecord
<1>10. Hung'
  <2> SUFFICES ASSUME NEW id \in Ids, id < nextConn', conns'[id] = NoConn,
                      NEW x \in Procs, NEW y \in Procs, Holds(x, id)', Holds(y, PeerOf[id])'
               PROVE  FALSE
    BY DEF Hung
  <2>1. id \notin {a, b}
    BY <1>3 DEF NoConn, Ids
  <2>2. PeerOf[id] \in Ids /\ PeerOf[id] \notin {a, b}
    BY <1>2, <2>1, PeersAre
  <2>3. id < nextConn
    BY <1>1, <1>7, <2>1
  <2>4. Holds(x, id) /\ Holds(y, PeerOf[id]) /\ conns[id] = NoConn
    BY <1>3, <1>4, <2>1, <2>2
  <2> QED
    BY <2>3, <2>4 DEF Piped, Hung
<1>11. NewIds'
  <2>1. Odd(nextConn')
    <3>1. Odd(nextConn)
      BY DEF Piped, NewIds
    <3> QED
      BY <1>1, <3>1 DEF Odd
  <2>2. ASSUME NEW id \in Ids, id >= nextConn'
        PROVE  conns'[id] = NoConn /\ \A x \in Procs : ~Traces(x, id)'
    <3>1. id \notin {a, b} /\ id >= nextConn
      BY <1>1, <1>7, <2>2
    <3> QED
      BY <1>3, <1>4, <1>6, <3>1
  <2> QED
    BY <2>1, <2>2 DEF NewIds
<1> QED
  BY <1>5, <1>8, <1>9, <1>10, <1>11 DEF Piped

\* The ends of q that the end of p leaves without the other.
Widowed(p, q) == {id \in Ids : conns[id] # NoConn /\ conns[id].pid = q /\ conns[PeerOf[id]].pid = p}
Ends(p) == {id \in Ids : conns[id] # NoConn /\ p \in {conns[id].pid, conns[PeerOf[id]].pid}}

\* What the end of a process makes of the connections.
LEMMA FinalizeMoves ==
  ASSUME TypeOK, OnRecord, NEW p \in Procs, Finalize(p), up' = [up EXCEPT ![p] = <<>>]
  PROVE  /\ nextConn' = nextConn
         /\ up'[p] = <<>> /\ down'[p] = <<>> /\ \A id \in Ids : sock'[p][id] = NoSock
         /\ \A q \in Procs : q # p => /\ up'[q] = up[q] /\ sock'[q] = sock[q]
                                      /\ down'[q] = down[q] \o Closes(Widowed(p, q))
         /\ \A id \in Ids : conns'[id] = IF id \in Ends(p) THEN NoConn ELSE conns[id]
<1>1. Held(p) = Ends(p)
  BY DEF Held, Ends, OnRecord
<1>2. \A q \in Procs : q # p => {id \in Survivors(p) : conns[id].pid = q} = Widowed(p, q)
  BY <1>1 DEF Survivors, Widowed, Ends
<1>3. nextConn' = nextConn /\ up'[p] = <<>> /\ down'[p] = <<>>
  BY DEF Finalize, TypeOK
<1>4. \A id \in Ids : sock'[p][id] = NoSock
  BY DEF Finalize, TypeOK
<1>5. \A q \in Procs : q # p => up'[q] = up[q] /\ sock'[q] = sock[q]
  BY DEF Finalize, TypeOK
<1>6. \A q \in Procs : q # p => down'[q] = down[q] \o Closes({id \in Survivors(p) : conns[id].pid = q})
  BY DEF Finalize
<1>7. \A q \in Procs : q # p => down'[q] = down[q] \o Closes(Widowed(p, q))
  BY <1>2, <1>6
<1>8. \A id \in Ids : conns'[id] = IF id \in Ends(p) THEN NoConn ELSE conns[id]
  BY <1>1 DEF Finalize
<1> QED
  BY <1>3, <1>4, <1>5, <1>7, <1>8

\* The end of a process keeps the invariant: whoever has an end of one of its
\* connections is told once.
LEMMA PipedKeptByFinalize ==
  ASSUME TypeOK, Pairs, Piped, NEW p \in Procs, Finalize(p), up' = [up EXCEPT ![p] = <<>>]
  PROVE  Piped'
<1>1. /\ nextConn' = nextConn
      /\ up'[p] = <<>> /\ down'[p] = <<>> /\ \A id \in Ids : sock'[p][id] = NoSock
      /\ \A q \in Procs : q # p => /\ up'[q] = up[q] /\ sock'[q] = sock[q]
                                   /\ down'[q] = down[q] \o Closes(Widowed(p, q))
      /\ \A id \in Ids : conns'[id] = IF id \in Ends(p) THEN NoConn ELSE conns[id]
  BY FinalizeMoves DEF Piped
<1>2. \A id \in Ids : conns[id] # NoConn => \A q \in Procs : StillOn(down[q], sock[q][id], id)
  BY DEF Piped, OnRecord
<1>3. ASSUME NEW id \in Ids
      PROVE  /\ UpIn(up'[p], sock'[p][id], id) /\ DownIn(down'[p], sock'[p][id], id) /\ SockIn(sock'[p][id])
             /\ ~Traces(p, id)' /\ ~Holds(p, id)' /\ StillOn(down'[p], sock'[p][id], id)
  <2>1. NoSock.state = "none" /\ NoSock.reading = FALSE
    BY DEF NoSock
  <2> QED
    BY <1>1, <2>1 DEF UpIn, DownIn, SockIn, Traces, Knows, Holds, Open, Waits, StillOn
<1>4. ASSUME NEW q \in Procs, q # p, NEW id \in Ids
      PROVE  /\ UpIn(up'[q], sock'[q][id], id) /\ DownIn(down'[q], sock'[q][id], id) /\ SockIn(sock'[q][id])
             /\ Traces(q, id)' => Traces(q, id) \/ (conns[id] # NoConn /\ conns[id].pid = q)
             /\ Waits(q, id)' <=> Waits(q, id)
             /\ Open(q, id)' <=> Open(q, id)
             /\ conns'[id] # NoConn => StillOn(down'[q], sock'[q][id], id)
  <2>1. UpIn(up[q], sock[q][id], id) /\ SockIn(sock[q][id]) /\ DownIn(down[q], sock[q][id], id)
    BY DEF Piped, EndsInOrder
  <2>2. down[q] \in Seq(Events) /\ down'[q] = down[q] \o Closes(Widowed(p, q)) /\ up'[q] = up[q] /\ sock'[q] = sock[q]
    BY <1>1, <1>4 DEF TypeOK
  <2> DEFINE W == Widowed(p, q)
  <2>3. W \in SUBSET Ids /\ \A i \in W : conns[i] # NoConn /\ conns[i].pid = q /\ i \in Ends(p)
    BY DEF Widowed, Ends
  <2>4. id \in W => StillOn(down[q], sock[q][id], id)
    BY <1>2, <2>3
  <2>w. PICK V \in SUBSET Ids : V = W
    BY <2>3
  <2>5. /\ DownIn(down'[q], sock[q][id], id)
        /\ \A i \in 1..Len(down'[q]) : \/ i \in 1..Len(down[q]) /\ down'[q][i] = down[q][i]
                                       \/ down'[q][i].type = "close" /\ down'[q][i].id \in V
        /\ \A i \in 1..Len(down[q]) : i \in 1..Len(down'[q]) /\ down'[q][i] = down[q][i]
    <3> HIDE DEF W
    <3>1. down'[q] = down[q] \o Closes(V)
      BY <2>2, <2>w DEF W
    <3> QED
      BY <2>1, <2>2, <2>4, <2>w, <3>1, DownCloses
  <2> HIDE DEF W
  <2>6. Traces(q, id)' => Traces(q, id) \/ id \in V
    BY <2>2, <2>5 DEF Traces, Knows
  <2>7. Waits(q, id)' <=> Waits(q, id)
    BY <2>5 DEF Waits, Announces
  <2>8. conns'[id] # NoConn => StillOn(down'[q], sock'[q][id], id)
    <3>1. id \in V => id \in Ends(p)
      BY <2>3, <2>w
    <3>2. conns'[id] = IF id \in Ends(p) THEN NoConn ELSE conns[id]
      BY <1>1
    <3>3. conns'[id] # NoConn => conns[id] # NoConn /\ id \notin V
      BY <3>1, <3>2
    <3> SUFFICES ASSUME conns'[id] # NoConn PROVE StillOn(down'[q], sock'[q][id], id)
      OBVIOUS
    <3>4. StillOn(down[q], sock'[q][id], id) /\ id \notin V
      BY <1>2, <2>2, <3>3
    <3> QED
      BY <2>5, <3>4 DEF StillOn
  <2> QED
    BY <2>1, <2>2, <2>3, <2>5, <2>6, <2>7, <2>8, <2>w DEF Open
<1>5. EndsInOrder'
  <2>1. ASSUME NEW q \in Procs, NEW id \in Ids
        PROVE  UpIn(up'[q], sock'[q][id], id) /\ DownIn(down'[q], sock'[q][id], id) /\ SockIn(sock'[q][id])
    BY <1>3, <1>4
  <2> QED
    BY <2>1 DEF EndsInOrder
<1>6. ASSUME NEW q \in Procs, NEW id \in Ids
      PROVE  /\ Traces(q, id)' => Traces(q, id) \/ (conns[id] # NoConn /\ conns[id].pid = q)
             /\ Holds(q, id)' => Holds(q, id) /\ q # p
             /\ conns'[id] # NoConn => StillOn(down'[q], sock'[q][id], id)
  <2>1. CASE q = p
    BY <1>3, <2>1
  <2>2. CASE q # p
    BY <1>4, <2>2 DEF Holds
  <2> QED
    BY <2>1, <2>2
<1>7. ASSUME NEW id \in Ids, conns'[id] # conns[id]
      PROVE  conns'[id] = NoConn /\ \A q, r \in Procs : ~(Holds(q, id)' /\ Holds(r, PeerOf[id])')
  <2>1. conns'[id] = NoConn /\ id \in Ends(p)
    BY <1>1, <1>7
  <2>2. conns[id] # NoConn /\ PeerOf[id] \in Ids /\ conns[PeerOf[id]] # NoConn
    BY <2>1, OnRecordBoth DEF Ends, Piped
  <2>3. \A q \in Procs : /\ Holds(q, id) => conns[id].pid = q
                         /\ Holds(q, PeerOf[id]) => conns[PeerOf[id]].pid = q
    BY <2>2, HoldsTraces DEF Piped, OnRecord
  <2>4. \A q, r \in Procs : Holds(q, id)' /\ Holds(r, PeerOf[id])' =>
          q # p /\ r # p /\ Holds(q, id) /\ Holds(r, PeerOf[id])
    BY <1>6, <2>2
  <2> QED
    BY <2>1, <2>3, <2>4 DEF Ends
<1> QED
  BY <1>1, <1>5, <1>6, <1>7, PipedKept

\* Every step keeps the invariant.
LEMMA PipedIsKept ==
  ASSUME Inv, Piped, [Next]_vars
  PROVE  Piped'
<1>1. TypeOK /\ TicketsAnswered /\ Pairs
  BY DEF Inv, Typed
<1>2. CASE UNCHANGED <<up, down, sock, conns, nextConn>>
  <2>1. EndsInOrder' /\ OneOwner' /\ OnRecord'
    BY <1>2 DEF Piped, EndsInOrder, OneOwner, OnRecord, Traces
  <2>2. Hung' /\ NewIds'
    BY <1>2 DEF Piped, Hung, NewIds, Holds, Open, Waits, Traces
  <2> QED
    BY <2>1, <2>2 DEF Piped
<1>3. ASSUME NEW p \in Procs, Relay(p) PROVE Piped'
  <2>1. up[p] # <<>> /\ Head(up[p]) \in Messages
    BY <1>1, <1>3, RelayDoes
  <2>2. CASE Finalize(p) /\ up' = [up EXCEPT ![p] = <<>>]
    BY <1>1, <2>2, PipedKeptByFinalize
  <2>3. CASE /\ up' = [up EXCEPT ![p] = Tail(@)] /\ sock' = sock
             /\ RelayConnect(p, Head(up[p]))
    <3>1. CASE Refused(p)
      BY <1>1, <2>1, <2>3, <3>1, PipedKeptByRefusal
    <3>2. ASSUME nextConn \in Ids, nextConn + 1 \in Ids, NEW q \in Procs, Connected(p, q, nextConn, nextConn + 1)
          PROVE  Piped'
      BY <1>1, <2>1, <2>3, <3>2, PipedKeptByConnection
    <3> QED
      BY <2>1, <2>3, <3>1, <3>2, ConnectMoves
  <2>4. CASE /\ up' = [up EXCEPT ![p] = Tail(@)] /\ sock' = sock
             /\ RelayRelease(p, Head(up[p])) \/ RelayItem(p, Head(up[p])) \/ RelayClose(p, Head(up[p]))
    <3>1. Heard(Head(up[p])) /\ nextConn' = nextConn
      BY <1>1, <2>1, <2>4, RelayMoves DEF Piped
    <3> QED
      BY <1>1, <2>1, <2>4, <3>1, PipedKeptByHearing
  <2> QED
    BY <1>3, <2>2, <2>3, <2>4 DEF Relay, RelayExit, handles
<1>4. ASSUME NEW p \in Procs, Service(p) PROVE UNCHANGED <<up, down, sock, conns, nextConn>>
  BY <1>4 DEF Service
<1>5. ASSUME NEW p \in Procs, Kill(p) PROVE Piped'
  BY <1>1, <1>5, PipedKeptByFinalize DEF Kill
<1>6. ASSUME UNCHANGED vars PROVE UNCHANGED <<up, down, sock, conns, nextConn>>
  BY <1>6 DEF vars, kernel, handles
<1> QED
  BY <1>1, <1>2, <1>3, <1>4, <1>5, <1>6, PipedKeptByGuest, PipedKeptByDispatch DEF Next

\* Nobody has to do with an end at first.
LEMMA PipedAtFirst ==
  ASSUME Init
  PROVE  Piped
<1>1. \A p \in Procs : up[p] = <<>> /\ down[p] = <<>> /\ \A id \in Ids : sock[p][id] = NoSock
  BY DEF Init
<1>2. NoSock.state = "none" /\ NoSock.reading = FALSE
  BY DEF NoSock
<1>3. EndsInOrder
  BY <1>1, <1>2 DEF EndsInOrder, UpIn, DownIn, SockIn
<1>4. \A p \in Procs : \A id \in Ids : ~Traces(p, id) /\ ~Holds(p, id)
  BY <1>1, <1>2 DEF Traces, Knows, Holds, Open, Waits
<1>5. nextConn = 1 /\ \A id \in Ids : conns[id] = NoConn
  BY DEF Init
<1>6. Odd(nextConn)
  BY <1>5 DEF Odd
<1>7. OneOwner /\ OnRecord /\ NewIds
  BY <1>4, <1>5, <1>6 DEF OneOwner, OnRecord, NewIds
<1>8. Hung
  BY <1>4 DEF Hung
<1> QED
  BY <1>3, <1>7, <1>8 DEF Piped

\* So it holds always.
LEMMA PipedHolds == Spec => [](Inv /\ Piped)
<1>1. Init => Inv /\ Piped
  BY InvAtFirst, PipedAtFirst
<1>2. Inv /\ Piped /\ [Next]_vars => Inv' /\ Piped'
  BY InvKept, PipedIsKept
<1> QED
  BY <1>1, <1>2, PTL DEF Spec

-----------------------------------------------------------------------------
(* The steps of a pipe, end by end.                                         *)

\* Nothing that the ends can see happens.
LEMMA AsStutter ==
  ASSUME \A x \in Ids : End(x)' = End(x) /\ Flow(x)' = Flow(x)
  PROVE  UNCHANGED Pipe!vars
<1>1. [x \in Ids |-> End(x)'] = [x \in Ids |-> End(x)]
  OBVIOUS
<1>2. [x \in Ids |-> Flow(x)'] = [x \in Ids |-> Flow(x)]
  OBVIOUS
<1> QED
  BY <1>1, <1>2 DEF Pipe!vars

\* Two ends that were none wait.
LEMMA AsConnect ==
  ASSUME NEW a \in Ids, PeerOf[a] \in Ids, PeerOf[a] # a, End(a) = "none", End(PeerOf[a]) = "none",
         End(a)' = "waiting", End(PeerOf[a])' = "waiting",
         \A x \in Ids : x \notin {a, PeerOf[a]} => End(x)' = End(x),
         \A x \in Ids : Flow(x)' = Flow(x)
  PROVE  Pipe!Next
<1>1. [x \in Ids |-> End(x)'] = [[x \in Ids |-> End(x)] EXCEPT ![a] = "waiting", ![PeerOf[a]] = "waiting"]
  OBVIOUS
<1>2. [x \in Ids |-> Flow(x)'] = [x \in Ids |-> Flow(x)]
  OBVIOUS
<1>3. Pipe!Connect(a)
  BY <1>1, <1>2 DEF Pipe!Connect
<1> QED
  BY <1>3 DEF Pipe!Next

\* An end that waited is open.
LEMMA AsAttach ==
  ASSUME NEW a \in Ids, End(a) = "waiting", End(a)' = "open",
         \A x \in Ids : x # a => End(x)' = End(x),
         \A x \in Ids : Flow(x)' = Flow(x)
  PROVE  Pipe!Next
<1>1. [x \in Ids |-> End(x)'] = [[x \in Ids |-> End(x)] EXCEPT ![a] = "open"]
  OBVIOUS
<1>2. [x \in Ids |-> Flow(x)'] = [x \in Ids |-> Flow(x)]
  OBVIOUS
<1>3. Pipe!Attach(a)
  BY <1>1, <1>2 DEF Pipe!Attach
<1> QED
  BY <1>3 DEF Pipe!Next

\* An end that waited is gone.
LEMMA AsVanish ==
  ASSUME NEW a \in Ids, End(a) = "waiting", End(a)' = "gone", Flow(a)' = <<>>,
         \A x \in Ids : x # a => End(x)' = End(x) /\ Flow(x)' = Flow(x)
  PROVE  Pipe!Next
<1>1. [x \in Ids |-> End(x)'] = [[x \in Ids |-> End(x)] EXCEPT ![a] = "gone"]
  OBVIOUS
<1>2. [x \in Ids |-> Flow(x)'] = [[x \in Ids |-> Flow(x)] EXCEPT ![a] = <<>>]
  OBVIOUS
<1>3. Pipe!Vanish(a)
  BY <1>1, <1>2 DEF Pipe!Vanish
<1> QED
  BY <1>3 DEF Pipe!Next

\* The front of what is on its way to an end is read.
LEMMA AsRead ==
  ASSUME NEW a \in Ids, End(a) \in {"open", "finished"}, NEW k \in 1..Len(Flow(a)),
         Flow(a)' = SubSeq(Flow(a), k + 1, Len(Flow(a))),
         \A x \in Ids : End(x)' = End(x),
         \A x \in Ids : x # a => Flow(x)' = Flow(x)
  PROVE  Pipe!Next
<1>1. [x \in Ids |-> End(x)'] = [x \in Ids |-> End(x)]
  OBVIOUS
<1>2. [x \in Ids |-> Flow(x)'] = [[x \in Ids |-> Flow(x)] EXCEPT ![a] = SubSeq(@, k + 1, Len(@))]
  OBVIOUS
<1>3. Pipe!Read(a)
  BY <1>1, <1>2 DEF Pipe!Read
<1> QED
  BY <1>3 DEF Pipe!Next

\* What an end says comes behind what is on its way to the other.
Adds(x, item) == IF End(x) = "gone" THEN Flow(x)' = Flow(x) ELSE Flow(x)' = Append(Flow(x), item)

\* Said so, it is Put of the abstract pipe.
LEMMA AsPut ==
  ASSUME NEW a \in Ids, PeerOf[a] \in Ids, NEW item, Adds(PeerOf[a], item),
         \A x \in Ids : x # PeerOf[a] => Flow(x)' = Flow(x)
  PROVE  [x \in Ids |-> Flow(x)'] = Pipe!Put(PeerOf[a], item)
<1>1. CASE End(PeerOf[a]) = "gone"
  <2>1. [x \in Ids |-> Flow(x)'] = [x \in Ids |-> Flow(x)]
    BY <1>1 DEF Adds
  <2> QED
    BY <1>1, <2>1 DEF Pipe!Put
<1>2. CASE End(PeerOf[a]) # "gone"
  <2>1. [x \in Ids |-> Flow(x)'] = [[x \in Ids |-> Flow(x)] EXCEPT ![PeerOf[a]] = Append(@, item)]
    BY <1>2 DEF Adds
  <2> QED
    BY <1>2, <2>1 DEF Pipe!Put
<1> QED
  BY <1>1, <1>2

\* An open end writes.
LEMMA AsWrite ==
  ASSUME NEW a \in Ids, PeerOf[a] \in Ids, End(a) = "open", NEW c \in Chunks, Adds(PeerOf[a], c),
         \A x \in Ids : End(x)' = End(x),
         \A x \in Ids : x # PeerOf[a] => Flow(x)' = Flow(x)
  PROVE  Pipe!Next
<1>1. [x \in Ids |-> End(x)'] = [x \in Ids |-> End(x)]
  OBVIOUS
<1>2. [x \in Ids |-> Flow(x)'] = Pipe!Put(PeerOf[a], c)
  BY AsPut
<1>3. Pipe!Write(a)
  BY <1>1, <1>2 DEF Pipe!Write
<1> QED
  BY <1>3 DEF Pipe!Next

\* An open end says its last.
LEMMA AsFinish ==
  ASSUME NEW a \in Ids, PeerOf[a] \in Ids, End(a) = "open", Adds(PeerOf[a], EOF), End(a)' = "finished",
         \A x \in Ids : x # a => End(x)' = End(x),
         \A x \in Ids : x # PeerOf[a] => Flow(x)' = Flow(x)
  PROVE  Pipe!Next
<1>1. [x \in Ids |-> End(x)'] = [[x \in Ids |-> End(x)] EXCEPT ![a] = "finished"]
  OBVIOUS
<1>2. [x \in Ids |-> Flow(x)'] = Pipe!Put(PeerOf[a], EOF)
  BY AsPut
<1>3. Pipe!Finish(a)
  BY <1>1, <1>2 DEF Pipe!Finish
<1> QED
  BY <1>3 DEF Pipe!Next

\* An end is closed.
LEMMA AsLeave ==
  ASSUME NEW a \in Ids, PeerOf[a] \in Ids, PeerOf[a] # a, End(a) \in {"open", "finished"},
         Adds(PeerOf[a], EOF), End(a)' = "gone", Flow(a)' = <<>>,
         \A x \in Ids : x # a => End(x)' = End(x),
         \A x \in Ids : x \notin {a, PeerOf[a]} => Flow(x)' = Flow(x)
  PROVE  Pipe!Next
<1>1. [x \in Ids |-> End(x)'] = [[x \in Ids |-> End(x)] EXCEPT ![a] = "gone"]
  OBVIOUS
<1>2. [x \in Ids |-> Flow(x)'] = [Pipe!Put(PeerOf[a], EOF) EXCEPT ![a] = <<>>]
  <2>1. CASE End(PeerOf[a]) = "gone"
    <3>1. [x \in Ids |-> Flow(x)'] = [[x \in Ids |-> Flow(x)] EXCEPT ![a] = <<>>]
      BY <2>1 DEF Adds
    <3> QED
      BY <2>1, <3>1 DEF Pipe!Put
  <2>2. CASE End(PeerOf[a]) # "gone"
    <3>1. [x \in Ids |-> Flow(x)'] =
            [[[x \in Ids |-> Flow(x)] EXCEPT ![PeerOf[a]] = Append(@, EOF)] EXCEPT ![a] = <<>>]
      BY <2>2 DEF Adds
    <3> QED
      BY <2>2, <3>1 DEF Pipe!Put
  <2> QED
    BY <2>1, <2>2
<1>3. Pipe!Leave(a)
  BY <1>1, <1>2 DEF Pipe!Leave
<1> QED
  BY <1>3 DEF Pipe!Next

\* The ends in D are gone, and those across from them see the end of file.
LEMMA AsDie ==
  ASSUME NEW D \in SUBSET Ids,
         \A x \in Ids : End(x)' = IF x \in D THEN "gone" ELSE End(x),
         \A x \in D : Flow(x)' = <<>>,
         \A x \in Ids \ D : \/ Flow(x)' = Flow(x)
                            \/ /\ PeerOf[x] \in D
                               /\ \E k \in 0..Len(Flow(x)) : Flow(x)' = Append(SubSeq(Flow(x), 1, k), EOF)
  PROVE  Pipe!Next
<1>1. [x \in Ids |-> End(x)'] = [e \in Ids |-> IF e \in D THEN "gone" ELSE [x \in Ids |-> End(x)][e]]
  OBVIOUS
<1>2. ASSUME NEW e \in Ids
      PROVE  \/ e \in D /\ [x \in Ids |-> Flow(x)'][e] = <<>>
             \/ e \notin D /\ [x \in Ids |-> Flow(x)'][e] = [x \in Ids |-> Flow(x)][e]
             \/ /\ e \notin D /\ PeerOf[e] \in D
                /\ \E k \in 0..Len([x \in Ids |-> Flow(x)][e]) :
                     [x \in Ids |-> Flow(x)'][e] = Append(SubSeq([x \in Ids |-> Flow(x)][e], 1, k), EOF)
  OBVIOUS
<1>3. Pipe!Die(D)
  BY <1>1, <1>2 DEF Pipe!Die
<1> QED
  BY <1>3 DEF Pipe!Next

\* What an end is, and what is on its way to it, by the process that has it.
EndAt(p, id) == IF Waits(p, id) THEN "waiting"
                ELSE IF sock[p][id].fin THEN "finished" ELSE "open"
Coming(id) == IF conns[id] = NoConn THEN <<>>
              ELSE ItemsOf(up[conns[PeerOf[id]].pid], PeerOf[id])
Arrived(p, id) == sock[p][id].queue \o ItemsOf(down[p], id)

Seen ==
  \A id \in Ids :
    /\ \A p \in Procs : Holds(p, id) =>
         /\ End(id) = EndAt(p, id) /\ End(id) \in {"waiting", "finished", "open"}
         /\ Flow(id) = Arrived(p, id) \o Coming(id)
    /\ (\A p \in Procs : ~Holds(p, id)) =>
         /\ End(id) = IF id >= nextConn THEN "none" ELSE "gone"
         /\ Flow(id) = <<>>

\* What End and Flow say of an end, by the one process that has it, if any.
LEMMA EndsAreSeen == Inv /\ Piped => Seen
<1> SUFFICES ASSUME Inv, Piped, NEW id \in Ids
             PROVE  /\ \A p \in Procs : Holds(p, id) =>
                         /\ End(id) = EndAt(p, id) /\ End(id) \in {"waiting", "finished", "open"}
                         /\ Flow(id) = Arrived(p, id) \o Coming(id)
                    /\ (\A p \in Procs : ~Holds(p, id)) =>
                         /\ End(id) = IF id >= nextConn THEN "none" ELSE "gone"
                         /\ Flow(id) = <<>>
  BY DEF Seen
<1>1. TypeOK /\ Pairs
  BY DEF Inv, Typed
<1>2. ASSUME NEW p \in Procs, Holds(p, id)
      PROVE  /\ End(id) = EndAt(p, id) /\ End(id) \in {"waiting", "finished", "open"}
             /\ Flow(id) = Arrived(p, id) \o Coming(id)
  <2>1. Traces(p, id) /\ id < nextConn /\ ~(id >= nextConn)
    <3>1. Traces(p, id) /\ id < nextConn
      BY <1>1, <1>2, HoldsTraces
    <3>2. id \in Nat /\ nextConn \in Nat
      BY <1>1, PeersAre DEF TypeOK
    <3> QED
      BY <3>1, <3>2
  <2>2. \A q \in Procs : Holds(q, id) => q = p
    BY <1>1, <2>1, HoldsTraces DEF Piped, OneOwner
  <2>3. ~(Waits(p, id) /\ Open(p, id))
    <3>1. DownIn(down[p], sock[p][id], id)
      BY DEF Piped, EndsInOrder
    <3> QED
      BY <3>1 DEF DownIn, Waits, Open
  <2>4. /\ (\E q \in Procs : Waits(q, id)) <=> Waits(p, id)
        /\ (\E q \in Procs : Open(q, id) /\ sock[q][id].fin) <=> Open(p, id) /\ sock[p][id].fin
        /\ (\E q \in Procs : Open(q, id) /\ ~sock[q][id].fin) <=> Open(p, id) /\ ~sock[p][id].fin
    BY <2>2 DEF Holds
  <2>5. End(id) = EndAt(p, id)
    <3>1. CASE Waits(p, id)
      BY <2>1, <2>3, <2>4, <3>1 DEF End, EndAt
    <3>2. CASE ~Waits(p, id) /\ Open(p, id) /\ sock[p][id].fin
      BY <2>1, <2>4, <3>2 DEF End, EndAt
    <3>3. CASE ~Waits(p, id) /\ Open(p, id) /\ ~sock[p][id].fin
      BY <2>1, <2>4, <3>3 DEF End, EndAt
    <3> QED
      BY <1>2, <3>1, <3>2, <3>3 DEF Holds
  <2>6. End(id) \in {"waiting", "finished", "open"}
    BY <2>5 DEF EndAt
  <2>7. Holder(id) = p
    BY <1>2, <2>2 DEF Holder, Holds
  <2>8. conns[id] # NoConn => conns[id].peer = PeerOf[id]
    BY DEF Piped, OnRecord
  <2>9. Flow(id) = Arrived(p, id) \o Coming(id)
    BY <2>6, <2>7, <2>8 DEF Flow, Arrived, Coming
  <2> QED
    BY <2>5, <2>6, <2>9
<1>3. ASSUME \A p \in Procs : ~Holds(p, id)
      PROVE  /\ End(id) = IF id >= nextConn THEN "none" ELSE "gone"
             /\ Flow(id) = <<>>
  <2>1. \A p \in Procs : ~Waits(p, id) /\ ~Open(p, id)
    BY <1>3 DEF Holds
  <2>2. End(id) = IF id >= nextConn THEN "none" ELSE "gone"
    BY <2>1 DEF End
  <2>3. Flow(id) = <<>>
    BY <2>2 DEF Flow
  <2> QED
    BY <2>2, <2>3
<1> QED
  BY <1>2, <1>3

\* All of it is items.
LEMMA FlowTyped ==
  ASSUME TypeOK, Pairs, OnRecord, NEW p \in Procs, NEW id \in Ids
  PROVE  /\ sock[p][id].queue \in Seq(Items) /\ ItemsOf(down[p], id) \in Seq(Items)
         /\ Arrived(p, id) \in Seq(Items) /\ Coming(id) \in Seq(Items)
<1>1. down[p] \in Seq(Events) /\ sock[p][id] \in Sockets
  BY DEF TypeOK
<1>2. sock[p][id].queue \in Seq(Items)
  BY <1>1 DEF Sockets, Items
<1>3. ItemsOf(down[p], id) \in Seq(Items)
  BY <1>1, Carriers, ItemsTyped
<1>4. Coming(id) \in Seq(Items)
  <2>1. CASE conns[id] = NoConn
    BY <2>1 DEF Coming
  <2>2. CASE conns[id] # NoConn
    <3>1. conns[PeerOf[id]].pid \in Procs /\ PeerOf[id] \in Ids
      BY <2>2, OnRecordBoth
    <3>2. up[conns[PeerOf[id]].pid] \in Seq(Messages)
      BY <3>1 DEF TypeOK
    <3>3. ItemsOf(up[conns[PeerOf[id]].pid], PeerOf[id]) \in Seq(Items)
      BY <3>1, <3>2, Carriers, ItemsTyped
    <3> QED
      BY <2>2, <3>3 DEF Coming
  <2> QED
    BY <2>1, <2>2
<1> QED
  BY <1>2, <1>3, <1>4 DEF Arrived

\* Who has an end, and whether it has said its last.
Same(p, id) == /\ Waits(p, id)' <=> Waits(p, id)
               /\ Open(p, id)' <=> Open(p, id)
               /\ Open(p, id) => sock'[p][id].fin = sock[p][id].fin

\* An end stays what it is where it stays with its process.
LEMMA EndStays ==
  ASSUME Seen, Seen', Piped, NEW id \in Ids, \A p \in Procs : Same(p, id),
         id >= nextConn <=> id >= nextConn'
  PROVE  End(id)' = End(id)
<1>1. CASE \E p \in Procs : Holds(p, id)
  <2>1. PICK p \in Procs : Holds(p, id)
    BY <1>1
  <2>2. Holds(p, id)'
    BY <2>1 DEF Holds, Same
  <2>3. ~(Waits(p, id) /\ Open(p, id))
    <3>1. DownIn(down[p], sock[p][id], id)
      BY DEF Piped, EndsInOrder
    <3> QED
      BY <3>1 DEF DownIn, Waits, Open
  <2>4. EndAt(p, id)' = EndAt(p, id)
    BY <2>1, <2>3 DEF EndAt, Same, Holds
  <2>5. End(id) = EndAt(p, id)
    BY <2>1 DEF Seen
  <2>6. End(id)' = EndAt(p, id)'
    BY <2>2 DEF Seen
  <2> QED
    BY <2>4, <2>5, <2>6
<1>2. CASE \A p \in Procs : ~Holds(p, id)
  <2>1. \A p \in Procs : ~Holds(p, id)'
    BY <1>2 DEF Same, Holds
  <2> QED
    BY <1>2, <2>1 DEF Seen
<1> QED
  BY <1>1, <1>2

\* So does what is on its way to it.
LEMMA FlowStays ==
  ASSUME Seen, Seen', NEW id \in Ids, \A p \in Procs : Same(p, id),
         \A p \in Procs : Holds(p, id) => Arrived(p, id)' \o Coming(id)' = Arrived(p, id) \o Coming(id)
  PROVE  Flow(id)' = Flow(id)
<1>1. \A p \in Procs : Holds(p, id)' <=> Holds(p, id)
  BY DEF Same, Holds
<1>2. CASE \E p \in Procs : Holds(p, id)
  <2>1. PICK p \in Procs : Holds(p, id) /\ Holds(p, id)'
    BY <1>1, <1>2
  <2>2. Flow(id) = Arrived(p, id) \o Coming(id)
    BY <2>1 DEF Seen
  <2>3. Flow(id)' = Arrived(p, id)' \o Coming(id)'
    BY <2>1 DEF Seen
  <2> QED
    BY <2>1, <2>2, <2>3
<1>3. CASE \A p \in Procs : ~Holds(p, id)
  <2>1. \A p \in Procs : ~Holds(p, id)'
    BY <1>1, <1>3
  <2>2. Flow(id)' = <<>>
    BY <2>1 DEF Seen
  <2>3. Flow(id) = <<>>
    BY <1>3 DEF Seen
  <2> QED
    BY <2>2, <2>3
<1> QED
  BY <1>2, <1>3

\* Taking sequences apart and putting them together.
LEMMA Pieces ==
  ASSUME NEW S, NEW q \in Seq(S), NEW r \in Seq(S)
  PROVE  /\ SubSeq(q \o r, Len(q) + 1, Len(q \o r)) = r
         /\ SubSeq(q \o r, 1, Len(q)) = q
         /\ q \o r \in Seq(S) /\ Len(q \o r) = Len(q) + Len(r) /\ Len(q) \in Nat /\ Len(r) \in Nat
<1> DEFINE b == SubSeq(q \o r, Len(q) + 1, Len(q \o r))
           a == SubSeq(q \o r, 1, Len(q))
<1>1. q \o r \in Seq(S) /\ Len(q \o r) = Len(q) + Len(r) /\ Len(q) \in Nat /\ Len(r) \in Nat
  OBVIOUS
<1>2. b \in Seq(S) /\ Len(b) = Len(r) /\ \A i \in 1..Len(b) : b[i] = r[i]
  OBVIOUS
<1>3. a \in Seq(S) /\ Len(a) = Len(q) /\ \A i \in 1..Len(a) : a[i] = q[i]
  OBVIOUS
<1> HIDE DEF a, b
<1>4. b = r
  BY <1>2, SeqEqual
<1>5. a = q
  BY <1>3, SeqEqual
<1> QED
  BY <1>1, <1>4, <1>5 DEF a, b

\* What concatenation and appending make of sequences.
LEMMA Together ==
  ASSUME NEW S, NEW q \in Seq(S), NEW r \in Seq(S), NEW t \in Seq(S), NEW x \in S
  PROVE  /\ (q \o r) \o t = q \o (r \o t)
         /\ Append(q \o r, x) = q \o Append(r, x)
         /\ Append(q, x) = q \o <<x>>
         /\ q \o <<>> = q /\ <<>> \o q = q
         /\ Append(q, x) \o r = q \o (<<x>> \o r)
         /\ <<x>> \in Seq(S) /\ Len(<<x>>) = 1
         /\ (q = <<>> <=> Len(q) = 0)
<1>1. (q \o r) \o t = q \o (r \o t)
  BY ConcatAssociative
<1>2. Append(q, x) = q \o <<x>> /\ Append(r, x) = r \o <<x>> /\ Append(q \o r, x) = (q \o r) \o <<x>>
  BY AppendIsConcat, q \o r \in Seq(S)
<1>3. <<x>> \in Seq(S) /\ Len(<<x>>) = 1
  OBVIOUS
<1>4. (q \o r) \o <<x>> = q \o (r \o <<x>>) /\ (q \o <<x>>) \o r = q \o (<<x>> \o r)
  BY <1>3, ConcatAssociative
<1>5. q \o <<>> = q /\ <<>> \o q = q
  BY ConcatEmptySeq
<1>6. q = <<>> <=> Len(q) = 0
  BY EmptySeq
<1> QED
  BY <1>1, <1>2, <1>3, <1>4, <1>5, <1>6

\* One message more in the queues to the kernel.
LEMMA ItemsPosted ==
  ASSUME TypeOK, NEW p \in Procs, NEW m \in Messages, Post(p, <<m>>), NEW q \in Procs, NEW id \in Ids
  PROVE  ItemsOf(up'[q], id) = IF q = p /\ IsItem(m, id) THEN Append(ItemsOf(up[q], id), Item(m))
                               ELSE ItemsOf(up[q], id)
<1>1. CASE q # p
  BY <1>1 DEF Post, TypeOK
<1>2. CASE q = p
  <2>1. up'[p] = Append(up[p], m) /\ up[p] \in Seq(Messages)
    <3>1. up'[p] = up[p] \o <<m>> /\ up[p] \in Seq(Messages)
      BY DEF Post, TypeOK
    <3> QED
      BY <3>1, AtEnd
  <2>2. ItemsOf(Append(up[p], m), id) = IF IsItem(m, id) THEN Append(ItemsOf(up[p], id), Item(m)) ELSE ItemsOf(up[p], id)
    BY <2>1, ItemsAppend
  <2> QED
    BY <1>2, <2>1, <2>2
<1> QED
  BY <1>1, <1>2

\* Where the kernel's tables and the queues to it stay as they are, so does
\* what comes.
LEMMA ComingStays ==
  ASSUME TypeOK, Pairs, OnRecord, NEW id \in Ids, conns'[id] = conns[id], conns'[PeerOf[id]] = conns[PeerOf[id]],
         \A q \in Procs : ItemsOf(up'[q], PeerOf[id]) = ItemsOf(up[q], PeerOf[id])
  PROVE  Coming(id)' = Coming(id)
<1>1. conns[id] # NoConn => conns[PeerOf[id]].pid \in Procs
  BY OnRecordBoth
<1> QED
  BY <1>1 DEF Coming

\* A process says something more about one of its ends: it comes behind what is
\* on its way to the other.
LEMMA SaysMore ==
  ASSUME Inv, Piped, Seen, Seen', UNCHANGED <<down, conns, nextConn>>,
         NEW p \in Procs, NEW id \in Ids, Open(p, id), NEW m \in Messages, IsItem(m, id), Post(p, <<m>>),
         \A q \in Procs : q # p => sock'[q] = sock[q],
         \A x \in Ids : x # id => sock'[p][x] = sock[p][x]
  PROVE  /\ Adds(PeerOf[id], Item(m))
         /\ \A x \in Ids : x # id => End(x)' = End(x)
         /\ \A x \in Ids : x \notin {id, PeerOf[id]} => Flow(x)' = Flow(x)
         /\ Coming(id)' = Coming(id)
<1>1. TypeOK /\ Pairs /\ OnRecord
  BY DEF Inv, Typed, Piped
<1>2. ASSUME NEW x \in Ids, NEW q \in Procs, x # id
      PROVE  Same(q, x) /\ Arrived(q, x)' = Arrived(q, x)
  <2>1. sock'[q][x] = sock[q][x] /\ down'[q] = down[q]
    BY <1>2
  <2> QED
    BY <2>1 DEF Same, Open, Waits, Arrived
<1>3. \A x \in Ids : x # id => End(x)' = End(x)
  BY <1>2, EndStays
<1>4. /\ PeerOf[id] \in Ids /\ PeerOf[id] # id /\ PeerOf[PeerOf[id]] = id
      /\ \A x \in Ids : x # PeerOf[id] => PeerOf[x] # id
      /\ \A x \in Ids : PeerOf[x] \in Ids
  BY PeersAre
<1>5. \A x \in Ids : x # id => ~IsItem(m, x)
  BY DEF IsItem
<1>6. ASSUME NEW x \in Ids, x # PeerOf[id] PROVE Coming(x)' = Coming(x)
  <2>1. PeerOf[x] \in Ids /\ PeerOf[x] # id
    BY <1>4, <1>6
  <2>2. \A q \in Procs : ItemsOf(up'[q], PeerOf[x]) = ItemsOf(up[q], PeerOf[x])
    BY <1>1, <1>5, <2>1, ItemsPosted
  <2> QED
    BY <1>1, <2>2, ComingStays
<1>7. \A x \in Ids : x \notin {id, PeerOf[id]} => Flow(x)' = Flow(x)
  BY <1>2, <1>6, FlowStays
<1>8. Adds(PeerOf[id], Item(m))
  <2>o. PICK o \in Ids : o = PeerOf[id]
    BY <1>4
  <2>1. CASE \E q \in Procs : Holds(q, o)
    <3>1. PICK q \in Procs : Holds(q, o)
      BY <2>1
    <3>2. End(o) # "gone" /\ Flow(o) = Arrived(q, o) \o Coming(o)
      BY <3>1 DEF Seen
    <3>3. Holds(p, id)
      BY DEF Holds
    <3>4. Traces(p, id) /\ id < nextConn
      BY <1>1, <3>3, HoldsTraces
    <3>5. conns[id] # NoConn
      BY <2>o, <3>1, <3>3, <3>4 DEF Piped, Hung
    <3>6. conns[id].pid = p /\ conns[o] # NoConn
      BY <1>1, <2>o, <3>4, <3>5, OnRecordBoth DEF OnRecord
    <3>7. Coming(o) = ItemsOf(up[p], id) /\ Coming(o)' = ItemsOf(up'[p], id)
      BY <1>4, <2>o, <3>6 DEF Coming
    <3>8. Coming(o)' = Append(Coming(o), Item(m))
      BY <1>1, <3>7, ItemsPosted
    <3>9. Holds(q, o)' /\ Arrived(q, o)' = Arrived(q, o)
      BY <1>2, <1>4, <2>o, <3>1 DEF Same, Holds
    <3>10. Flow(o)' = Arrived(q, o) \o Append(Coming(o), Item(m))
      BY <3>8, <3>9 DEF Seen
    <3>11. Arrived(q, o) \in Seq(Items) /\ Coming(o) \in Seq(Items) /\ Item(m) \in Items
      BY <1>1, FlowTyped, Carriers DEF Carrier
    <3>12. Flow(o)' = Append(Flow(o), Item(m))
      BY <3>2, <3>10, <3>11, Together
    <3> QED
      BY <2>o, <3>2, <3>12 DEF Adds
  <2>2. CASE \A q \in Procs : ~Holds(q, o)
    <3>1. \A q \in Procs : ~Holds(q, o)'
      BY <1>2, <1>4, <2>2, <2>o DEF Same, Holds
    <3>2. id < nextConn /\ nextConn \in Nat /\ Odd(nextConn)
      BY <1>1, HoldsTraces DEF Holds, Piped, NewIds, TypeOK
    <3>3. ~(o >= nextConn)
      BY <2>o, <3>2, PeersAre
    <3>4. End(o) = "gone" /\ Flow(o) = <<>>
      BY <2>2, <3>3 DEF Seen
    <3>5. Flow(o)' = <<>>
      BY <3>1 DEF Seen
    <3> QED
      BY <2>o, <3>4, <3>5 DEF Adds
  <2> QED
    BY <2>1, <2>2
<1> QED
  BY <1>3, <1>4, <1>6, <1>7, <1>8

\* An end a process has open is an open or finished one.
LEMMA OpenEnd ==
  ASSUME TypeOK, Piped, Seen, NEW p \in Procs, NEW id \in Ids, Open(p, id)
  PROVE  /\ End(id) = IF sock[p][id].fin THEN "finished" ELSE "open"
         /\ Flow(id) = Arrived(p, id) \o Coming(id)
         /\ id < nextConn /\ \A q \in Procs : Holds(q, id) => q = p
         /\ ~Waits(p, id)
<1>1. Holds(p, id)
  BY DEF Holds
<1>2. ~Waits(p, id)
  <2>1. DownIn(down[p], sock[p][id], id)
    BY DEF Piped, EndsInOrder
  <2> QED
    BY <2>1 DEF DownIn, Waits, Open
<1>3. End(id) = EndAt(p, id) /\ Flow(id) = Arrived(p, id) \o Coming(id)
  BY <1>1 DEF Seen
<1>4. id < nextConn /\ \A q \in Procs : Holds(q, id) => q = p
  BY <1>1, HoldsTraces DEF Piped, OneOwner
<1> QED
  BY <1>2, <1>3, <1>4 DEF EndAt

\* write().
LEMMA WritesIsPipe ==
  ASSUME Inv, Piped, Seen, Seen', UNCHANGED <<down, conns, nextConn>>,
         NEW p \in Procs, NEW id \in Ids, Writes(p, id)
  PROVE  Pipe!Next
<1>1. TypeOK /\ sock[p][id] \in Sockets /\ Open(p, id)
  BY DEF Inv, Typed, TypeOK, Writes, Moves
<1>2. PICK c \in Chunks : c = sock[p][id].wrote + 1
  BY DEF Writes
<1>3. PICK m \in Messages : m = [type |-> "data", id |-> id, chunk |-> c] /\ Post(p, <<m>>)
  <2>1. [type |-> "data", id |-> id, chunk |-> c] \in Messages
    BY DEF Messages
  <2> QED
    BY <1>2, <2>1 DEF Writes
<1>4. IsItem(m, id) /\ Item(m) = c
  BY <1>3 DEF IsItem, Item
<1>5. /\ sock' = [sock EXCEPT ![p][id] = [sock[p][id] EXCEPT !.wrote = @ + 1]]
      /\ ~sock[p][id].fin
  BY DEF Writes, Moves
<1>6. /\ \A q \in Procs : q # p => sock'[q] = sock[q]
      /\ \A x \in Ids : x # id => sock'[p][x] = sock[p][x]
      /\ sock'[p][id].state = sock[p][id].state /\ sock'[p][id].fin = sock[p][id].fin
      /\ sock'[p][id].queue = sock[p][id].queue
  BY <1>1, <1>5 DEF TypeOK, Sockets
<1>7. /\ Adds(PeerOf[id], c)
      /\ \A x \in Ids : x # id => End(x)' = End(x)
      /\ \A x \in Ids : x \notin {id, PeerOf[id]} => Flow(x)' = Flow(x)
      /\ Coming(id)' = Coming(id)
  BY <1>1, <1>3, <1>4, <1>6, SaysMore
<1>8. \A q \in Procs : Same(q, id) /\ Arrived(q, id)' = Arrived(q, id)
  BY <1>6 DEF Same, Open, Waits, Arrived
<1>9. End(id)' = End(id) /\ Flow(id)' = Flow(id)
  BY <1>7, <1>8, EndStays, FlowStays
<1>10. End(id) = "open"
  BY <1>1, <1>5, OpenEnd
<1> QED
  BY <1>7, <1>9, <1>10, PeersAre, AsWrite

\* shutdown().
LEMMA FinishesIsPipe ==
  ASSUME Inv, Piped, Seen, Seen', UNCHANGED <<down, conns, nextConn>>,
         NEW p \in Procs, NEW id \in Ids, Finishes(p, id)
  PROVE  Pipe!Next
<1>1. TypeOK /\ sock[p][id] \in Sockets /\ Open(p, id)
  BY DEF Inv, Typed, TypeOK, Finishes, Moves
<1>3. PICK m \in Messages : m = [type |-> "shutdown", id |-> id] /\ Post(p, <<m>>)
  <2>1. [type |-> "shutdown", id |-> id] \in Messages
    BY DEF Messages
  <2> QED
    BY <2>1 DEF Finishes
<1>4. IsItem(m, id) /\ Item(m) = EOF
  BY <1>3 DEF IsItem, Item
<1>5. /\ sock' = [sock EXCEPT ![p][id] = [sock[p][id] EXCEPT !.fin = TRUE]]
      /\ ~sock[p][id].fin
  BY DEF Finishes, Moves
<1>6. /\ \A q \in Procs : q # p => sock'[q] = sock[q]
      /\ \A x \in Ids : x # id => sock'[p][x] = sock[p][x]
      /\ sock'[p][id].state = sock[p][id].state /\ sock'[p][id].fin = TRUE
      /\ sock'[p][id].queue = sock[p][id].queue
  BY <1>1, <1>5 DEF TypeOK, Sockets
<1>7. /\ Adds(PeerOf[id], EOF)
      /\ \A x \in Ids : x # id => End(x)' = End(x)
      /\ \A x \in Ids : x \notin {id, PeerOf[id]} => Flow(x)' = Flow(x)
      /\ Coming(id)' = Coming(id)
  BY <1>1, <1>3, <1>4, <1>6, SaysMore
<1>8. End(id) = "open" /\ Flow(id) = Arrived(p, id) \o Coming(id) /\ ~Waits(p, id)
  BY <1>1, <1>5, OpenEnd
<1>9. Holds(p, id)' /\ ~Waits(p, id)' /\ Arrived(p, id)' = Arrived(p, id)
  BY <1>1, <1>6, <1>8 DEF Holds, Open, Waits, Arrived
<1>10. End(id)' = EndAt(p, id)' /\ Flow(id)' = Arrived(p, id)' \o Coming(id)'
  BY <1>9 DEF Seen
<1>11. End(id)' = "finished" /\ Flow(id)' = Flow(id)
  BY <1>6, <1>7, <1>8, <1>9, <1>10 DEF EndAt
<1> QED
  BY <1>7, <1>8, <1>11, PeersAre, AsFinish

\* close().
LEMMA LeavesIsPipe ==
  ASSUME Inv, Piped, Seen, Seen', UNCHANGED <<down, conns, nextConn>>,
         NEW p \in Procs, NEW id \in Ids, Leaves(p, id)
  PROVE  Pipe!Next
<1>1. TypeOK /\ sock[p][id] \in Sockets /\ Open(p, id)
  BY DEF Inv, Typed, TypeOK, Leaves, Moves
<1>3. PICK m \in Messages : m = [type |-> "close", id |-> id] /\ Post(p, <<m>>)
  <2>1. [type |-> "close", id |-> id] \in Messages
    BY DEF Messages
  <2> QED
    BY <2>1 DEF Leaves
<1>4. IsItem(m, id) /\ Item(m) = EOF
  BY <1>3 DEF IsItem, Item
<1>5. sock' = [sock EXCEPT ![p][id] = [sock[p][id] EXCEPT !.state = "closed", !.known = FALSE, !.queue = <<>>]]
  BY DEF Leaves, Moves
<1>6. /\ \A q \in Procs : q # p => sock'[q] = sock[q]
      /\ \A x \in Ids : x # id => sock'[p][x] = sock[p][x]
      /\ sock'[p][id].state = "closed"
  BY <1>1, <1>5 DEF TypeOK, Sockets
<1>7. /\ Adds(PeerOf[id], EOF)
      /\ \A x \in Ids : x # id => End(x)' = End(x)
      /\ \A x \in Ids : x \notin {id, PeerOf[id]} => Flow(x)' = Flow(x)
  BY <1>1, <1>3, <1>4, <1>6, SaysMore
<1>8. /\ End(id) \in {"open", "finished"} /\ ~Waits(p, id) /\ id < nextConn
      /\ \A q \in Procs : Holds(q, id) => q = p
  BY <1>1, OpenEnd
<1>9. \A q \in Procs : ~Holds(q, id)'
  <2>1. \A q \in Procs : q # p => (Holds(q, id)' => Holds(q, id))
    BY <1>6 DEF Holds, Open, Waits
  <2>2. ~Holds(p, id)'
    BY <1>6, <1>8 DEF Holds, Open, Waits
  <2> QED
    BY <1>8, <2>1, <2>2
<1>10. End(id)' = (IF id >= nextConn THEN "none" ELSE "gone") /\ Flow(id)' = <<>>
  BY <1>9 DEF Seen
<1>11. End(id)' = "gone"
  <2>1. id \in Nat /\ nextConn \in Nat
    BY <1>1, PeersAre DEF TypeOK
  <2> QED
    BY <1>8, <1>10, <2>1
<1> QED
  BY <1>7, <1>8, <1>10, <1>11, PeersAre, AsLeave

\* Reading an end's queue: all of it, or nothing.
LEMMA ReadsIsPipe ==
  ASSUME Inv, Piped, Seen, Seen', UNCHANGED <<down, conns, nextConn>>,
         NEW p \in Procs, NEW id \in Ids, Reads(p, id)
  PROVE  Pipe!Next \/ UNCHANGED Pipe!vars
<1>1. TypeOK /\ sock[p][id] \in Sockets /\ Open(p, id) /\ up' = up /\ Pairs /\ OnRecord
  BY DEF Inv, Typed, TypeOK, Reads, Moves, Piped
<1>2. /\ \A q \in Procs : q # p => sock'[q] = sock[q]
      /\ \A x \in Ids : x # id => sock'[p][x] = sock[p][x]
      /\ sock'[p][id].state = sock[p][id].state /\ sock'[p][id].fin = sock[p][id].fin
      /\ sock'[p][id].queue = sock[p][id].queue \/ sock'[p][id].queue = <<>>
  <2>1. CASE sock' = [sock EXCEPT ![p][id] = [sock[p][id] EXCEPT !.reading = TRUE, !.queue = <<>>]]
    BY <1>1, <2>1 DEF TypeOK, Sockets
  <2>2. CASE sock' = [sock EXCEPT ![p][id] = [sock[p][id] EXCEPT !.reading = FALSE]]
    BY <1>1, <2>2 DEF TypeOK, Sockets
  <2> QED
    BY <2>1, <2>2 DEF Reads, Moves
<1>3. \A x \in Ids : \A q \in Procs : Same(q, x) /\ (x # id => Arrived(q, x)' = Arrived(q, x))
  BY <1>2 DEF Same, Open, Waits, Arrived
<1>4. \A x \in Ids : Coming(x)' = Coming(x)
  BY <1>1 DEF Coming
<1>5. \A x \in Ids : End(x)' = End(x)
  BY <1>3, EndStays
<1>6. \A x \in Ids : x # id => Flow(x)' = Flow(x)
  BY <1>3, <1>4, FlowStays
<1>7. CASE sock'[p][id].queue = sock[p][id].queue
  <2>1. \A q \in Procs : Arrived(q, id)' = Arrived(q, id)
    BY <1>2, <1>7 DEF Arrived
  <2>2. Flow(id)' = Flow(id)
    BY <1>3, <1>4, <2>1, FlowStays
  <2> QED
    BY <1>5, <1>6, <2>2, AsStutter
<1>8. CASE sock'[p][id].queue = <<>> /\ sock[p][id].queue # <<>>
  <2>1. /\ sock[p][id].queue \in Seq(Items) /\ ItemsOf(down[p], id) \in Seq(Items) /\ Coming(id) \in Seq(Items)
    BY <1>1, FlowTyped
  <2> DEFINE q == sock[p][id].queue
             r == ItemsOf(down[p], id)
             t == Coming(id)
  <2>2. /\ End(id) \in {"open", "finished"} /\ Flow(id) = (q \o r) \o t
    BY <1>1, OpenEnd DEF Arrived
  <2>3. Holds(p, id)'
    BY <1>1, <1>2 DEF Holds, Open
  <2>4. Flow(id)' = Arrived(p, id)' \o Coming(id)'
    BY <2>3 DEF Seen
  <2>5. Flow(id)' = (<<>> \o r) \o t
    BY <1>4, <1>8, <2>4 DEF Arrived
  <2> HIDE DEF q, r, t
  <2>6. q \in Seq(Items) /\ r \in Seq(Items) /\ t \in Seq(Items)
    BY <2>1 DEF q, r, t
  <2>7. Flow(id)' = r \o t /\ Flow(id) = q \o (r \o t) /\ r \o t \in Seq(Items)
    BY <2>2, <2>5, <2>6, ConcatEmptySeq, ConcatAssociative, Pieces
  <2>8. Len(q) \in 1..Len(Flow(id)) /\ Flow(id)' = SubSeq(Flow(id), Len(q) + 1, Len(Flow(id)))
    <3>1. Len(q) \in Nat \ {0}
      BY <1>8, <2>6, EmptySeq DEF q
    <3>2. /\ SubSeq(q \o (r \o t), Len(q) + 1, Len(q \o (r \o t))) = r \o t
          /\ Len(q \o (r \o t)) = Len(q) + Len(r \o t) /\ Len(r \o t) \in Nat
      <4>1. PICK v \in Seq(Items) : v = r \o t
        BY <2>7
      <4>2. /\ SubSeq(q \o v, Len(q) + 1, Len(q \o v)) = v
            /\ Len(q \o v) = Len(q) + Len(v) /\ Len(v) \in Nat
        BY <2>6, Pieces
      <4> QED
        BY <4>1, <4>2
    <3> QED
      BY <2>7, <3>1, <3>2
  <2> QED
    BY <1>5, <1>6, <2>2, <2>8, AsRead
<1> QED
  BY <1>2, <1>7, <1>8

\* A process's own step is one of its ends, or none of a pipe's.
LEMMA GuestIsPipe ==
  ASSUME Inv, Piped, Seen, Seen', NEW p \in Procs, Guest(p)
  PROVE  Pipe!Next \/ UNCHANGED Pipe!vars
<1>1. TypeOK /\ Pairs /\ OnRecord
  BY DEF Inv, Typed, Piped
<1>2. UNCHANGED <<down, conns, nextConn>>
  BY <1>1, GuestMoves
<1>3. CASE sock' = sock /\ (up' = up \/ \E m \in Messages : Quiet(m) /\ Post(p, <<m>>))
  <2>1. \A x \in Ids : \A q \in Procs : Same(q, x) /\ Arrived(q, x)' = Arrived(q, x)
    BY <1>2, <1>3 DEF Same, Open, Waits, Arrived
  <2>2. ASSUME NEW q \in Procs, NEW x \in Ids PROVE ItemsOf(up'[q], x) = ItemsOf(up[q], x)
    <3>1. ASSUME NEW m \in Messages, Quiet(m), Post(p, <<m>>) PROVE ItemsOf(up'[q], x) = ItemsOf(up[q], x)
      <4>1. ~IsItem(m, x)
        BY <3>1 DEF Quiet, IsItem
      <4> QED
        BY <1>1, <3>1, <4>1, ItemsPosted
    <3> QED
      BY <1>3, <3>1
  <2>3. \A x \in Ids : Coming(x)' = Coming(x)
    BY <1>1, <1>2, <2>2, ComingStays, PeersAre
  <2>4. \A x \in Ids : End(x)' = End(x) /\ Flow(x)' = Flow(x)
    BY <1>2, <2>1, <2>3, EndStays, FlowStays
  <2> QED
    BY <2>4, AsStutter
<1>4. CASE \E id \in Ids : Writes(p, id) \/ Finishes(p, id) \/ Leaves(p, id) \/ Reads(p, id)
  BY <1>2, <1>4, WritesIsPipe, FinishesIsPipe, LeavesIsPipe, ReadsIsPipe
<1> QED
  BY <1>1, <1>3, <1>4, GuestMoves

\* The first event of a process taken, by what it is to each end.
LEMMA EventTaken ==
  ASSUME TypeOK, Piped, NEW p \in Procs, NEW e \in Events, down[p] # <<>>, e = Head(down[p]),
         down'[p] = Tail(down[p]), NEW id \in Ids
  PROVE  /\ ItemsOf(down[p], id) \in Seq(Items) /\ ItemsOf(down'[p], id) \in Seq(Items)
         /\ IsItem(e, id) => Item(e) \in Items /\ ItemsOf(down[p], id) = <<Item(e)>> \o ItemsOf(down'[p], id)
         /\ ~IsItem(e, id) => ItemsOf(down'[p], id) = ItemsOf(down[p], id)
         /\ Waits(p, id) <=> Announces(e, id) \/ Waits(p, id)'
         /\ e.id = id => ~Waits(p, id)'
         /\ Announces(e, id) => sock[p][id].state = "none"
         /\ e.id = id => ~(Open(p, id) /\ ~sock[p][id].known)
<1>1. down[p] \in Seq(Events) /\ Tail(down[p]) \in Seq(Events) /\ DownIn(down[p], sock[p][id], id)
  BY DEF TypeOK, Piped, EndsInOrder
<1>2. /\ ItemsOf(down[p], id) \in Seq(Items) /\ ItemsOf(Tail(down[p]), id) \in Seq(Items)
      /\ IsItem(e, id) => Item(e) \in Items
  BY <1>1, Carriers, ItemsTyped DEF Carrier
<1>3. ItemsOf(down[p], id) = (IF IsItem(e, id) THEN <<Item(e)>> ELSE <<>>) \o ItemsOf(Tail(down[p]), id)
  BY <1>1, Carriers, ItemsFront
<1>4. <<>> \o ItemsOf(Tail(down[p]), id) = ItemsOf(Tail(down[p]), id)
  BY <1>2, ConcatEmptySeq
<1>5. /\ e = down[p][1] /\ 1 \in 1..Len(down[p])
      /\ \A i \in 1..Len(down[p]) : i = 1 \/ (i - 1 \in 1..Len(Tail(down[p])) /\ Tail(down[p])[i - 1] = down[p][i])
      /\ \A i \in 1..Len(Tail(down[p])) : i + 1 \in 1..Len(down[p]) /\ Tail(down[p])[i] = down[p][i + 1] /\ 1 < i + 1
  BY <1>1, FromFront
<1>6. Waits(p, id) <=> Announces(e, id) \/ Waits(p, id)'
  BY <1>5 DEF Waits
<1>7. e.id = id => ~Waits(p, id)'
  <2>1. \A i, j \in 1..Len(down[p]) : down[p][i].id = id /\ down[p][j].id = id /\ i < j =>
          ~Announces(down[p][j], id)
    BY <1>1 DEF DownIn
  <2>2. \A m : Announces(m, id) => m.id = id
    BY DEF Announces
  <2> QED
    BY <1>5, <2>1, <2>2 DEF Waits
<1>8. /\ Announces(e, id) => sock[p][id].state = "none"
      /\ e.id = id => ~(Open(p, id) /\ ~sock[p][id].known)
  BY <1>1, <1>5 DEF DownIn, Open
<1> QED
  BY <1>2, <1>3, <1>4, <1>6, <1>7, <1>8

\* Nothing changes for the ends an event is not about.
LEMMA OthersStay ==
  ASSUME TypeOK, Piped, Seen, Seen', UNCHANGED <<up, conns, nextConn>>, NEW p \in Procs, NEW e \in Events,
         down[p] # <<>>, e = Head(down[p]), down'[p] = Tail(down[p]),
         \A q \in Procs : q # p => down'[q] = down[q] /\ sock'[q] = sock[q],
         NEW id \in Ids, e.id # id, sock'[p][id] = sock[p][id]
  PROVE  End(id)' = End(id) /\ Flow(id)' = Flow(id)
<1>1. ~IsItem(e, id) /\ ~Announces(e, id)
  BY DEF IsItem, Announces
<1>2. ASSUME NEW q \in Procs PROVE Same(q, id) /\ Arrived(q, id)' = Arrived(q, id)
  <2>1. CASE q # p
    BY <2>1 DEF Same, Open, Waits, Arrived
  <2>2. CASE q = p
    <3>1. ItemsOf(down'[p], id) = ItemsOf(down[p], id) /\ (Waits(p, id) <=> Waits(p, id)')
      BY <1>1, EventTaken
    <3> QED
      BY <2>2, <3>1 DEF Same, Open, Arrived
  <2> QED
    BY <2>1, <2>2
<1>3. Coming(id)' = Coming(id)
  BY DEF Coming
<1> QED
  BY <1>2, <1>3, EndStays, FlowStays

\* The announcement of an end, dispatched: the end is open, or gone before it was.
LEMMA AnnouncementIsPipe ==
  ASSUME Inv, Piped, Seen, Seen', NEW p \in Procs, Dispatch(p), NEW a \in Ids, Announces(Head(down[p]), a)
  PROVE  Pipe!Next
<1>1. TypeOK /\ TicketsAnswered
  BY DEF Inv, Typed
<1>2. /\ UNCHANGED <<up, conns, nextConn>> /\ down[p] # <<>> /\ down'[p] = Tail(down[p])
      /\ \A q \in Procs : q # p => down'[q] = down[q]
  BY <1>1, DispatchMoves
<1>e. PICK e \in Events : e = Head(down[p])
  BY <1>1, DispatchMoves
<1>3. e.type \in {"result", "incoming"} /\ e.id = a /\ ~IsItem(e, a)
  BY <1>e DEF Announces, IsItem
<1>4. a # 0
  BY DEF Ids
<1>5. sock' = sock \/ \E s : Fresh(s) /\ sock' = [sock EXCEPT ![p][a] = s]
  BY <1>1, <1>3, <1>4, <1>e, DispatchMoves
<1>6. /\ \A q \in Procs : q # p => sock'[q] = sock[q]
      /\ \A x \in Ids : x # a => sock'[p][x] = sock[p][x]
      /\ sock'[p][a] = sock[p][a] \/ Fresh(sock'[p][a])
  BY <1>1, <1>5 DEF TypeOK
<1>7. \A x \in Ids : x # a => End(x)' = End(x) /\ Flow(x)' = Flow(x)
  BY <1>1, <1>2, <1>3, <1>6, <1>e, OthersStay
<1>8. /\ Waits(p, a) /\ ~Waits(p, a)' /\ sock[p][a].state = "none"
      /\ ItemsOf(down'[p], a) = ItemsOf(down[p], a) /\ ItemsOf(down[p], a) \in Seq(Items)
  BY <1>1, <1>2, <1>3, <1>e, EventTaken
<1>9. sock[p][a] = NoSock
  BY <1>8 DEF Piped, EndsInOrder, SockIn
<1>10. Holds(p, a) /\ End(a) = "waiting" /\ Flow(a) = Arrived(p, a) \o Coming(a)
  BY <1>8 DEF Holds, Seen, EndAt
<1>11. a < nextConn /\ Traces(p, a) /\ \A q \in Procs : Holds(q, a) => q = p
  BY <1>1, <1>10, HoldsTraces DEF Piped, OneOwner
<1>12. CASE Open(p, a)'
  <2>1. Fresh(sock'[p][a]) /\ sock'[p][a].state = "open"
    BY <1>6, <1>8, <1>12 DEF Open
  <2>2. ~sock'[p][a].fin /\ sock'[p][a].queue = <<>>
    BY <2>1 DEF Fresh, NoSock
  <2>3. Holds(p, a)'
    BY <1>12 DEF Holds
  <2>4. End(a)' = "open"
    <3>1. End(a)' = EndAt(p, a)'
      BY <2>3 DEF Seen
    <3> QED
      BY <1>8, <2>2, <3>1 DEF EndAt
  <2>5. Flow(a)' = Flow(a)
    <3>1. Flow(a)' = Arrived(p, a)' \o Coming(a)'
      BY <2>3 DEF Seen
    <3>2. Arrived(p, a)' = Arrived(p, a) /\ Coming(a)' = Coming(a)
      BY <1>2, <1>8, <1>9, <2>2 DEF Arrived, Coming, NoSock
    <3> QED
      BY <1>10, <3>1, <3>2
  <2> QED
    BY <1>7, <1>10, <2>4, <2>5, AsAttach
<1>13. CASE ~Open(p, a)'
  <2>1. \A q \in Procs : ~Holds(q, a)'
    <3>1. \A q \in Procs : q # p => (Holds(q, a)' <=> Holds(q, a))
      BY <1>2, <1>6 DEF Holds, Open, Waits
    <3> QED
      BY <1>8, <1>11, <1>13, <3>1 DEF Holds
  <2>2. Flow(a)' = <<>> /\ End(a)' = (IF a >= nextConn' THEN "none" ELSE "gone")
    BY <2>1 DEF Seen
  <2>3. End(a)' = "gone"
    <3>1. a \in Nat /\ nextConn \in Nat
      BY <1>1, PeersAre DEF TypeOK
    <3> QED
      BY <1>2, <1>11, <2>2, <3>1
  <2> QED
    BY <1>7, <1>10, <2>2, <2>3, AsVanish
<1> QED
  BY <1>12, <1>13

\* An item dispatched: queued where it was under way, or read.
LEMMA ItemIsPipe ==
  ASSUME Inv, Piped, Seen, Seen', NEW p \in Procs, Dispatch(p), NEW a \in Ids, IsItem(Head(down[p]), a),
         Head(down[p]).type \in {"data", "eof", "close"}
  PROVE  Pipe!Next \/ UNCHANGED Pipe!vars
<1>1. TypeOK /\ TicketsAnswered /\ EndsInOrder /\ Pairs /\ OnRecord
  BY DEF Inv, Typed, Piped
<1>2. /\ UNCHANGED <<up, conns, nextConn>> /\ down[p] # <<>> /\ down'[p] = Tail(down[p])
      /\ \A q \in Procs : q # p => down'[q] = down[q]
  BY <1>1, DispatchMoves
<1>e. PICK e \in Events : e = Head(down[p])
  BY <1>1, DispatchMoves
<1>3. e.type \in {"data", "eof", "close"} /\ e.id = a /\ ~Announces(e, a) /\ IsItem(e, a)
  BY <1>e DEF Announces, IsItem
<1>4. \/ ~sock[p][a].known /\ sock' = sock
      \/ sock[p][a].known /\ sock' = [sock EXCEPT ![p][a] = Takes(sock[p][a], e)]
  BY <1>1, <1>3, <1>e, DispatchMoves
<1>s. PICK s \in Sockets : s = sock[p][a]
  BY <1>1 DEF TypeOK
<1>5. /\ \A q \in Procs : q # p => sock'[q] = sock[q]
      /\ \A x \in Ids : x # a => sock'[p][x] = sock[p][x]
      /\ \/ ~s.known /\ sock'[p][a] = s
         \/ s.known /\ sock'[p][a] = Takes(s, e)
  BY <1>1, <1>4, <1>s DEF TypeOK
<1>6. \A x \in Ids : x # a => End(x)' = End(x) /\ Flow(x)' = Flow(x)
  BY <1>1, <1>2, <1>3, <1>5, <1>e, OthersStay
<1>7. /\ ~Waits(p, a) /\ ~Waits(p, a)' /\ ~(Open(p, a) /\ ~s.known) /\ Item(e) \in Items
      /\ ItemsOf(down[p], a) = <<Item(e)>> \o ItemsOf(down'[p], a) /\ ItemsOf(down'[p], a) \in Seq(Items)
  BY <1>1, <1>2, <1>3, <1>e, <1>s, EventTaken
<1>8. /\ sock'[p][a].state = s.state /\ sock'[p][a].fin = s.fin
      /\ s.state = "open" => \/ s.queue = <<>> /\ sock'[p][a].queue = <<>>
                             \/ s.queue \in Seq(Items) /\ sock'[p][a].queue = Append(s.queue, Item(e))
  <2>1. SockIn(s)
    BY <1>1, <1>s DEF EndsInOrder
  <2>2. CASE ~s.known /\ sock'[p][a] = s
    BY <1>7, <1>s, <2>2 DEF Open
  <2>3. CASE s.known /\ sock'[p][a] = Takes(s, e)
    <3> DEFINE t == Takes(s, e)
    <3>1. /\ t.state = s.state /\ t.fin = s.fin /\ s.queue \in Seq(Items)
          /\ s.state = "open" /\ s.reading => t.queue = <<>> /\ s.queue = <<>>
          /\ s.state = "open" /\ ~s.reading => t.queue = Append(s.queue, IF e.type = "data" THEN e.chunk ELSE EOF)
      BY <1>3, <2>1, TakesDoes
    <3> QED
      BY <2>3, <3>1 DEF Item
  <2> QED
    BY <1>5, <2>2, <2>3
<1>9. \A q \in Procs : Same(q, a)
  <2>1. \A q \in Procs : q # p => Same(q, a)
    BY <1>2, <1>5 DEF Same, Open, Waits
  <2>2. Same(p, a)
    BY <1>7, <1>8, <1>s DEF Same, Open
  <2> QED
    BY <2>1, <2>2
<1>10. End(a)' = End(a)
  BY <1>2, <1>9, EndStays
<1>11. Coming(a)' = Coming(a)
  BY <1>2 DEF Coming
<1>12. \A q \in Procs : q # p => Arrived(q, a)' = Arrived(q, a)
  BY <1>2, <1>5 DEF Arrived
<1>r. PICK r \in Seq(Items) : r = ItemsOf(down'[p], a)
  BY <1>7
<1>i. PICK i \in Items : i = Item(e)
  BY <1>7
<1>13. CASE ~Open(p, a) \/ (sock'[p][a].queue = Append(s.queue, Item(e)) /\ s.queue \in Seq(Items))
  <2>1. Holds(p, a) => Arrived(p, a)' = Arrived(p, a)
    <3> SUFFICES ASSUME Holds(p, a) PROVE Arrived(p, a)' = Arrived(p, a)
      OBVIOUS
    <3>1. sock'[p][a].queue = Append(s.queue, i) /\ s.queue \in Seq(Items)
      BY <1>7, <1>13, <1>i DEF Holds
    <3>2. PICK g \in Seq(Items) : g = s.queue
      BY <3>1
    <3>3. Append(g, i) \o r = g \o (<<i>> \o r)
      BY Together
    <3> QED
      BY <1>7, <1>i, <1>r, <1>s, <3>1, <3>2, <3>3 DEF Arrived
  <2>2. Flow(a)' = Flow(a)
    <3>1. \A q \in Procs : Holds(q, a) => Arrived(q, a)' \o Coming(a)' = Arrived(q, a) \o Coming(a)
      BY <1>11, <1>12, <2>1
    <3> QED
      BY <1>9, <3>1, FlowStays
  <2> QED
    BY <1>6, <1>10, <2>2, AsStutter
<1>14. CASE Open(p, a) /\ s.queue = <<>> /\ sock'[p][a].queue = <<>>
  <2>1. End(a) \in {"open", "finished"} /\ Flow(a) = Arrived(p, a) \o Coming(a)
    BY <1>1, <1>14, OpenEnd
  <2>2. Holds(p, a)'
    BY <1>8, <1>14, <1>s DEF Holds, Open
  <2>3. Flow(a)' = Arrived(p, a)' \o Coming(a)
    BY <1>11, <2>2 DEF Seen
  <2>c. PICK c \in Seq(Items) : c = Coming(a)
    BY <1>1, FlowTyped
  <2>4. Arrived(p, a) = <<i>> \o r /\ Arrived(p, a)' = r
    <3>1. Arrived(p, a) = <<>> \o (<<i>> \o r) /\ Arrived(p, a)' = <<>> \o r
      BY <1>7, <1>14, <1>i, <1>r, <1>s DEF Arrived
    <3>2. PICK w \in Seq(Items) : w = <<i>>
      BY Together
    <3>3. PICK u \in Seq(Items) : u = w \o r
      BY Pieces
    <3> QED
      BY <3>1, <3>2, <3>3, ConcatEmptySeq
  <2>u. PICK u \in Seq(Items) : u = <<i>> /\ Len(u) = 1
    BY Together
  <2>v. PICK v \in Seq(Items) : v = r \o c
    BY Pieces
  <2>5. Flow(a) = u \o v /\ Flow(a)' = v
    <3>1. (u \o r) \o c = u \o v
      BY <2>v, ConcatAssociative
    <3> QED
      BY <2>1, <2>3, <2>4, <2>c, <2>u, <2>v, <3>1
  <2>6. 1 \in 1..Len(Flow(a)) /\ Flow(a)' = SubSeq(Flow(a), 1 + 1, Len(Flow(a)))
    <3>1. SubSeq(u \o v, Len(u) + 1, Len(u \o v)) = v /\ Len(u \o v) = Len(u) + Len(v) /\ Len(v) \in Nat
      BY Pieces
    <3> QED
      BY <2>5, <2>u, <3>1
  <2> QED
    BY <1>6, <1>10, <2>1, <2>6, AsRead
<1>15. \/ ~Open(p, a) \/ (sock'[p][a].queue = Append(s.queue, Item(e)) /\ s.queue \in Seq(Items))
       \/ Open(p, a) /\ s.queue = <<>> /\ sock'[p][a].queue = <<>>
  <2>1. Open(p, a) <=> s.state = "open"
    BY <1>s DEF Open
  <2> QED
    BY <1>8, <2>1
<1> QED
  BY <1>13, <1>14, <1>15

\* A dispatch is a step of the pipe it is about, or of none.
LEMMA DispatchIsPipe ==
  ASSUME Inv, Piped, Seen, Seen', NEW p \in Procs, Dispatch(p)
  PROVE  Pipe!Next \/ UNCHANGED Pipe!vars
<1>1. TypeOK /\ TicketsAnswered
  BY DEF Inv, Typed
<1>2. /\ UNCHANGED <<up, conns, nextConn>> /\ down[p] # <<>> /\ down'[p] = Tail(down[p])
      /\ \A q \in Procs : q # p => down'[q] = down[q]
  BY <1>1, DispatchMoves
<1>e. PICK e \in Events : e = Head(down[p])
  BY <1>1, DispatchMoves
<1>3. \/ e.type = "result" /\ e.id = 0 /\ sock' = sock
      \/ e.type \in {"result", "incoming"} /\ e.id \in Ids
      \/ e.type \in {"data", "eof", "close"} /\ e.id \in Ids
  <2>1. e.type = "incoming" => e.id \in Ids
    BY EventFields
  <2> QED
    BY <1>1, <1>e, <2>1, DispatchMoves
<1>4. CASE e.type = "result" /\ e.id = 0 /\ sock' = sock
  <2>1. \A x \in Ids : e.id # x
    BY <1>4 DEF Ids
  <2>2. \A x \in Ids : End(x)' = End(x) /\ Flow(x)' = Flow(x)
    BY <1>1, <1>2, <1>4, <1>e, <2>1, OthersStay
  <2> QED
    BY <2>2, AsStutter
<1>5. CASE e.type \in {"result", "incoming"} /\ e.id \in Ids
  <2>1. Announces(e, e.id)
    BY <1>5 DEF Announces
  <2> QED
    BY <1>5, <1>e, <2>1, AnnouncementIsPipe
<1>6. CASE e.type \in {"data", "eof", "close"} /\ e.id \in Ids
  <2>1. IsItem(e, e.id)
    BY <1>6 DEF IsItem
  <2> QED
    BY <1>6, <1>e, <2>1, ItemIsPipe
<1> QED
  BY <1>3, <1>4, <1>5, <1>6

\* An item more at the end of the second of two queues.
LEMMA AppendLater ==
  ASSUME NEW S, NEW q \in Seq(S), NEW r \in Seq(S), NEW x \in S, NEW t, NEW s, t = q \o r, s = Append(r, x)
  PROVE  Append(t, x) = q \o s
<1>1. Append(r, x) = r \o <<x>> /\ Append(q \o r, x) = (q \o r) \o <<x>>
  BY AppendIsConcat, q \o r \in Seq(S)
<1>2. <<x>> \in Seq(S)
  OBVIOUS
<1>3. (q \o r) \o <<x>> = q \o (r \o <<x>>)
  BY <1>2, ConcatAssociative
<1> QED
  BY <1>1, <1>3

\* The first message of a process taken, by what it is to each end.
LEMMA MessageTaken ==
  ASSUME TypeOK, NEW p \in Procs, NEW m \in Messages, up[p] # <<>>, m = Head(up[p]),
         up' = [up EXCEPT ![p] = Tail(@)], NEW q \in Procs, NEW id \in Ids
  PROVE  /\ ItemsOf(up[q], id) \in Seq(Items) /\ ItemsOf(up'[q], id) \in Seq(Items)
         /\ q = p /\ IsItem(m, id) => Item(m) \in Items /\ ItemsOf(up[q], id) = <<Item(m)>> \o ItemsOf(up'[q], id)
         /\ ~(q = p /\ IsItem(m, id)) => ItemsOf(up'[q], id) = ItemsOf(up[q], id)
<1>1. /\ up[q] \in Seq(Messages) /\ up'[q] \in Seq(Messages)
      /\ q = p => up'[q] = Tail(up[q])
      /\ q # p => up'[q] = up[q]
  BY DEF TypeOK
<1>2. /\ ItemsOf(up[q], id) \in Seq(Items) /\ ItemsOf(up'[q], id) \in Seq(Items)
      /\ IsItem(m, id) => Item(m) \in Items
  BY <1>1, Carriers, ItemsTyped DEF Carrier
<1>3. q = p => ItemsOf(up[q], id) = (IF IsItem(m, id) THEN <<Item(m)>> ELSE <<>>) \o ItemsOf(up'[q], id)
  BY <1>1, Carriers, ItemsFront
<1>4. <<>> \o ItemsOf(up'[q], id) = ItemsOf(up'[q], id)
  BY <1>2, ConcatEmptySeq
<1> QED
  BY <1>1, <1>2, <1>3, <1>4

\* It is nothing to the other ends.
LEMMA OthersHearNothing ==
  ASSUME TypeOK, NEW p \in Procs, NEW m \in Messages, up[p] # <<>>, m = Head(up[p]),
         up' = [up EXCEPT ![p] = Tail(@)], NEW id \in Ids, ~IsItem(m, id)
  PROVE  \A q \in Procs : ItemsOf(up'[q], id) = ItemsOf(up[q], id)
<1>1. ASSUME NEW q \in Procs, q # p PROVE ItemsOf(up'[q], id) = ItemsOf(up[q], id)
  BY <1>1 DEF TypeOK
<1>2. ItemsOf(up'[p], id) = ItemsOf(up[p], id)
  <2>1. up[p] \in Seq(Messages) /\ up'[p] \in Seq(Messages) /\ up'[p] = Tail(up[p])
    BY DEF TypeOK
  <2>2. ItemsOf(up[p], id) = <<>> \o ItemsOf(up'[p], id)
    BY <2>1, Carriers, ItemsFront
  <2>3. ItemsOf(up'[p], id) \in Seq(Items)
    BY <2>1, Carriers, ItemsTyped
  <2> QED
    BY <2>2, <2>3, ConcatEmptySeq
<1> QED
  BY <1>1, <1>2

\* Nothing of an end a process has nothing to do with is in its queues.
LEMMA NoTraces ==
  ASSUME TypeOK, NEW p \in Procs, NEW id \in Ids, ~Traces(p, id)
  PROVE  /\ ItemsOf(up[p], id) = <<>> /\ ItemsOf(down[p], id) = <<>>
         /\ sock[p][id] = NoSock /\ ~Waits(p, id) /\ ~Open(p, id)
<1>1. up[p] \in Seq(Messages) /\ down[p] \in Seq(Events)
  BY DEF TypeOK
<1>2. \A i \in 1..Len(up[p]) : ~IsItem(up[p][i], id)
  <2>1. \A m \in Messages : IsItem(m, id) => About(m, id)
    BY DEF Messages, IsItem, About
  <2> QED
    BY <1>1, <2>1 DEF Traces, Knows
<1>3. \A i \in 1..Len(down[p]) : ~IsItem(down[p][i], id) /\ ~Announces(down[p][i], id)
  BY DEF Traces, Knows, IsItem, Announces
<1>4. sock[p][id] = NoSock
  BY DEF Traces, Knows
<1>5. ItemsOf(up[p], id) = <<>> /\ ItemsOf(down[p], id) = <<>>
  BY <1>1, <1>2, <1>3, Carriers, ItemsTyped
<1> QED
  BY <1>3, <1>4, <1>5 DEF Waits, Open, NoSock

\* What the kernel hears of an end goes from one queue to the next: no step of a
\* pipe.
LEMMA HearingIsPipe ==
  ASSUME Inv, Piped, Seen, Seen', NEW p \in Procs, up[p] # <<>>, up' = [up EXCEPT ![p] = Tail(@)],
         Heard(Head(up[p])), sock' = sock, nextConn' = nextConn
  PROVE  UNCHANGED Pipe!vars
<1>1. TypeOK /\ Pairs /\ OnRecord
  BY DEF Inv, Typed, Piped
<1>m. PICK m \in Messages : m = Head(up[p])
  BY <1>1, FromFront DEF TypeOK
<1>2. CASE /\ Quiet(m) \/ (m.type \in {"data", "shutdown", "close"} /\ m.id \in Ids /\ conns[m.id] = NoConn)
           /\ UNCHANGED <<down, conns>>
  <2>1. ASSUME NEW x \in Ids PROVE Coming(x)' = Coming(x)
    <3>1. CASE conns[x] = NoConn
      BY <1>2, <3>1 DEF Coming
    <3>2. CASE conns[x] # NoConn
      <4>1. PeerOf[x] \in Ids /\ conns[PeerOf[x]] # NoConn
        BY <1>1, <3>2, OnRecordBoth
      <4>2. ~IsItem(m, PeerOf[x])
        BY <1>2, <4>1 DEF IsItem, Quiet
      <4>3. \A q \in Procs : ItemsOf(up'[q], PeerOf[x]) = ItemsOf(up[q], PeerOf[x])
        BY <1>1, <1>m, <4>1, <4>2, OthersHearNothing
      <4> QED
        BY <1>1, <1>2, <4>3, ComingStays
    <3> QED
      BY <3>1, <3>2
  <2>2. \A x \in Ids : \A q \in Procs : Same(q, x) /\ Arrived(q, x)' = Arrived(q, x)
    BY <1>2 DEF Same, Open, Waits, Arrived
  <2>3. \A x \in Ids : End(x)' = End(x) /\ Flow(x)' = Flow(x)
    BY <2>1, <2>2, EndStays, FlowStays
  <2> QED
    BY <2>3, AsStutter
<1>3. ASSUME m.type \in {"data", "shutdown", "close"}, m.id \in Ids, conns[m.id] # NoConn,
             NEW e \in Events, Tells(e, m), down' = [down EXCEPT ![conns[PeerOf[m.id]].pid] = Append(@, e)],
             m.type # "close" => conns' = conns,
             m.type = "close" => conns' = [conns EXCEPT ![m.id] = NoConn, ![PeerOf[m.id]] = NoConn]
      PROVE  UNCHANGED Pipe!vars
  <2>i. PICK id \in Ids : id = m.id
    BY <1>3
  <2>o. PICK o \in Ids : o = PeerOf[id]
    BY PeersAre
  <2>r. PICK r \in Procs : r = conns[o].pid
    BY <1>1, <1>3, <2>i, <2>o, OnRecordBoth
  <2>1. /\ IsItem(m, id) /\ e.id = o /\ Item(e) = Item(m) /\ IsItem(e, o)
        /\ \A x \in Ids : ~Announces(e, x) /\ (x # o => ~IsItem(e, x)) /\ (x # id => ~IsItem(m, x))
    BY <1>3, <2>i, <2>o DEF IsItem, Tells, Announces
  <2>2. /\ conns[id] # NoConn /\ conns[o] # NoConn /\ PeerOf[o] = id /\ o # id
        /\ \A x \in Ids : x \notin {id, o} => PeerOf[x] \in Ids /\ PeerOf[x] \notin {id, o}
    BY <1>1, <1>3, <2>i, <2>o, OnRecordBoth, PeersAre
  <2>3. conns[id].pid = p
    <3>1. About(m, id) /\ m = up[p][1] /\ 1 \in 1..Len(up[p])
      BY <1>1, <1>3, <1>m, <2>i, FromFront DEF About, TypeOK
    <3>2. Traces(p, id)
      BY <3>1 DEF Traces, Knows
    <3> QED
      BY <1>1, <2>2, <3>2 DEF OnRecord
  <2>4. /\ down[r] \in Seq(Events) /\ down'[r] = Append(down[r], e)
        /\ \A q \in Procs : q # r => down'[q] = down[q]
    BY <1>1, <1>3, <2>i, <2>o, <2>r DEF TypeOK
  <2>5. \A q \in Procs : \A x \in Ids : Waits(q, x)' <=> Waits(q, x)
    <3>1. ASSUME NEW x \in Ids PROVE Waits(r, x)' <=> Waits(r, x)
      <4>1. /\ \A i \in 1..Len(down'[r]) : (i \in 1..Len(down[r]) /\ down'[r][i] = down[r][i]) \/ down'[r][i] = e
            /\ \A i \in 1..Len(down[r]) : i \in 1..Len(down'[r]) /\ down'[r][i] = down[r][i]
        BY <2>4, OneMore
      <4> QED
        BY <2>1, <4>1 DEF Waits
    <3> QED
      BY <2>4, <3>1 DEF Waits
  <2>6. \A q \in Procs : \A x \in Ids : Same(q, x)
    BY <2>5 DEF Same, Open
  <2>7. \A x \in Ids : End(x)' = End(x)
    BY <2>6, EndStays
  <2>8. ASSUME NEW q \in Procs, NEW x \in Ids, ~(q = r /\ x = o)
        PROVE  Arrived(q, x)' = Arrived(q, x)
    <3>1. ItemsOf(down'[q], x) = ItemsOf(down[q], x)
      <4>1. CASE q # r
        BY <2>4, <4>1
      <4>2. CASE q = r
        <5>1. ~IsItem(e, x)
          BY <2>1, <2>8, <4>2
        <5>2. ItemsOf(Append(down[r], e), x) = IF IsItem(e, x) THEN Append(ItemsOf(down[r], x), Item(e)) ELSE ItemsOf(down[r], x)
          BY <2>4, ItemsAppend
        <5> QED
          BY <2>4, <4>2, <5>1, <5>2
      <4> QED
        BY <4>1, <4>2
    <3> QED
      BY <3>1 DEF Arrived
  <2>9. \A x \in Ids \ {id, o} : Coming(x)' = Coming(x)
    <3> SUFFICES ASSUME NEW x \in Ids, x \notin {id, o} PROVE Coming(x)' = Coming(x)
      OBVIOUS
    <3>1. conns'[x] = conns[x] /\ conns'[PeerOf[x]] = conns[PeerOf[x]]
      BY <1>1, <1>3, <2>i, <2>o, <2>2 DEF TypeOK
    <3>2. \A q \in Procs : ItemsOf(up'[q], PeerOf[x]) = ItemsOf(up[q], PeerOf[x])
      <4>1. PeerOf[x] \in Ids /\ ~IsItem(m, PeerOf[x])
        BY <2>1, <2>2
      <4> QED
        BY <1>1, <1>m, <4>1, OthersHearNothing
    <3> QED
      BY <1>1, <3>1, <3>2, ComingStays
  <2>10. \A x \in Ids \ {id, o} : Flow(x)' = Flow(x)
    BY <2>6, <2>8, <2>9, FlowStays
  <2>11. Flow(id)' = Flow(id)
    <3>1. CASE m.type # "close"
      <4>1. \A q \in Procs : ItemsOf(up'[q], PeerOf[id]) = ItemsOf(up[q], PeerOf[id])
        <5>1. PeerOf[id] \in Ids /\ ~IsItem(m, PeerOf[id])
          BY <2>o, <2>1, <2>2
        <5> QED
          BY <1>1, <1>m, <5>1, OthersHearNothing
      <4>2. Coming(id)' = Coming(id)
        BY <1>1, <1>3, <3>1, <4>1, ComingStays
      <4> QED
        BY <2>2, <2>6, <2>8, <4>2, FlowStays
    <3>2. CASE m.type = "close"
      <4>1. \A q \in Procs : ~Holds(q, id)
        BY <1>1, <1>3, <1>m, <2>i, <3>2, ClosedIsLeft
      <4> QED
        BY <2>6, <4>1, FlowStays
    <3> QED
      BY <3>1, <3>2
  <2>12. Coming(o) = <<Item(m)>> \o Coming(o)' /\ Item(m) \in Items /\ Coming(o)' \in Seq(Items)
    <3>1. /\ ItemsOf(up[p], id) = <<Item(m)>> \o ItemsOf(up'[p], id) /\ Item(m) \in Items
          /\ ItemsOf(up'[p], id) \in Seq(Items)
      BY <1>1, <1>m, <2>1, MessageTaken
    <3>2. Coming(o) = ItemsOf(up[p], id)
      BY <2>2, <2>3 DEF Coming
    <3>3. Coming(o)' = ItemsOf(up'[p], id)
      <4>1. CASE m.type # "close"
        BY <1>3, <2>2, <2>3, <4>1 DEF Coming
      <4>2. CASE m.type = "close"
        <5>1. conns'[o] = NoConn
          BY <1>1, <1>3, <2>i, <2>o, <4>2 DEF TypeOK
        <5>2. Coming(o)' = <<>>
          BY <5>1 DEF Coming
        <5>3. up[p] \in Seq(Messages) /\ UpIn(up[p], sock[p][id], id) /\ up'[p] = Tail(up[p])
              /\ Tail(up[p]) \in Seq(Messages)
          BY <1>1 DEF Piped, EndsInOrder, TypeOK
        <5>4. About(m, id)
          BY <2>i, <4>2 DEF About
        <5>5. \A i \in 1..Len(up'[p]) : ~About(up'[p][i], id)
          BY <1>m, <4>2, <5>3, <5>4, UpTake
        <5>6. \A i \in 1..Len(up'[p]) : ~IsItem(up'[p][i], id)
          <6>1. \A n \in Messages : IsItem(n, id) => About(n, id)
            BY DEF Messages, IsItem, About
          <6>2. \A i \in 1..Len(up'[p]) : up'[p][i] \in Messages
            BY <5>3
          <6> QED
            BY <5>5, <6>1, <6>2
        <5>7. ItemsOf(up'[p], id) = <<>>
          BY <5>3, <5>6, Carriers, ItemsTyped
        <5> QED
          BY <5>2, <5>7
      <4> QED
        BY <4>1, <4>2
    <3> QED
      BY <3>1, <3>2, <3>3
  <2>13. Arrived(r, o)' = Append(Arrived(r, o), Item(m)) /\ Arrived(r, o) \in Seq(Items)
    <3>1. ItemsOf(down'[r], o) = Append(ItemsOf(down[r], o), Item(m))
      BY <2>1, <2>4, ItemsAppend
    <3>a. PICK a \in Seq(Items) : a = sock[r][o].queue
      BY <1>1, FlowTyped
    <3>b. PICK b \in Seq(Items) : b = ItemsOf(down[r], o)
      BY <1>1, FlowTyped
    <3>c. PICK c \in Items : c = Item(m)
      BY <2>12
    <3>2. Append(a \o b, c) = a \o Append(b, c) /\ a \o b \in Seq(Items)
      <4>t. PICK t \in Seq(Items) : t = a \o b
        BY Pieces
      <4>s. PICK s : s = Append(b, c)
        OBVIOUS
      <4>1. Append(t, c) = a \o s
        BY <4>t, <4>s, AppendLater
      <4> QED
        BY <4>1, <4>s, <4>t
    <3> QED
      BY <3>1, <3>2, <3>a, <3>b, <3>c DEF Arrived
  <2>14. Arrived(r, o)' \o Coming(o)' = Arrived(r, o) \o Coming(o)
    <3>a. PICK a \in Seq(Items) : a = Arrived(r, o)
      BY <2>13
    <3>b. PICK b \in Seq(Items) : b = Coming(o)'
      BY <2>12
    <3>c. PICK c \in Items : c = Item(m)
      BY <2>12
    <3>1. Append(a, c) \o b = a \o (<<c>> \o b)
      BY Together
    <3> QED
      BY <2>12, <2>13, <3>1, <3>a, <3>b, <3>c
  <2>15. Flow(o)' = Flow(o)
    <3>1. \A q \in Procs : Holds(q, o) => q = r
      BY <1>1, <2>r, <2>2, HoldsTraces DEF OnRecord
    <3>2. \A q \in Procs : Holds(q, o) => Arrived(q, o)' \o Coming(o)' = Arrived(q, o) \o Coming(o)
      BY <2>14, <3>1
    <3> QED
      BY <2>6, <3>2, FlowStays
  <2> QED
    BY <2>7, <2>10, <2>11, <2>15, AsStutter
<1> QED
  BY <1>2, <1>3, <1>m DEF Heard

\* A connect that is refused makes no pipe.
LEMMA RefusalIsPipe ==
  ASSUME Inv, Piped, Seen, Seen', NEW p \in Procs, up[p] # <<>>, up' = [up EXCEPT ![p] = Tail(@)], sock' = sock,
         Quiet(Head(up[p])), Refused(p)
  PROVE  UNCHANGED Pipe!vars
<1>1. TypeOK /\ Pairs /\ OnRecord
  BY DEF Inv, Typed, Piped
<1>m. PICK m \in Messages : m = Head(up[p])
  BY <1>1, FromFront DEF TypeOK
<1>2. PICK e \in Events : e.type = "result" /\ e.id = 0 /\ down' = [down EXCEPT ![p] = Append(@, e)]
                          /\ UNCHANGED <<conns, nextConn>>
  BY DEF Refused
<1>3. /\ down[p] \in Seq(Events) /\ down'[p] = Append(down[p], e)
      /\ \A q \in Procs : q # p => down'[q] = down[q]
  BY <1>1, <1>2 DEF TypeOK
<1>4. /\ \A i \in 1..Len(down'[p]) : (i \in 1..Len(down[p]) /\ down'[p][i] = down[p][i]) \/ down'[p][i] = e
      /\ \A i \in 1..Len(down[p]) : i \in 1..Len(down'[p]) /\ down'[p][i] = down[p][i]
  BY <1>3, OneMore
<1>5. \A x \in Ids : ~Announces(e, x) /\ ~IsItem(e, x) /\ ~IsItem(m, x)
  BY <1>2, <1>m DEF Announces, IsItem, Quiet, Ids
<1>6. ASSUME NEW x \in Ids, NEW q \in Procs PROVE Same(q, x) /\ Arrived(q, x)' = Arrived(q, x)
  <2>1. CASE q # p
    BY <1>3, <2>1 DEF Same, Open, Waits, Arrived
  <2>2. CASE q = p
    <3>1. ItemsOf(down'[p], x) = ItemsOf(down[p], x)
      BY <1>3, <1>5, ItemsAppend
    <3>2. Waits(p, x)' <=> Waits(p, x)
      BY <1>4, <1>5 DEF Waits
    <3> QED
      BY <2>2, <3>1, <3>2 DEF Same, Open, Arrived
  <2> QED
    BY <2>1, <2>2
<1>7. ASSUME NEW x \in Ids PROVE Coming(x)' = Coming(x)
  <2>1. PeerOf[x] \in Ids
    BY PeersAre
  <2>2. \A q \in Procs : ItemsOf(up'[q], PeerOf[x]) = ItemsOf(up[q], PeerOf[x])
    BY <1>1, <1>5, <1>m, <2>1, OthersHearNothing
  <2> QED
    BY <1>1, <1>2, <2>2, ComingStays
<1>8. \A x \in Ids : End(x)' = End(x) /\ Flow(x)' = Flow(x)
  BY <1>2, <1>6, <1>7, EndStays, FlowStays
<1> QED
  BY <1>8, AsStutter

\* One that is not makes two ends, with nothing on the way to either.
LEMMA ConnectionIsPipe ==
  ASSUME Inv, Piped, Seen, Seen', NEW p \in Procs, up[p] # <<>>, up' = [up EXCEPT ![p] = Tail(@)], sock' = sock,
         Quiet(Head(up[p])),
         NEW q \in Procs, NEW a \in Ids, NEW b \in Ids, a = nextConn, b = a + 1, Connected(p, q, a, b)
  PROVE  Pipe!Next
<1>1. TypeOK /\ Pairs /\ OnRecord
  BY DEF Inv, Typed, Piped
<1>m. PICK m \in Messages : m = Head(up[p])
  BY <1>1, FromFront DEF TypeOK
<1>2. /\ nextConn' = nextConn + 2 /\ nextConn \in Nat /\ a # b
      /\ conns'[a] = [pid |-> p, peer |-> b] /\ conns'[b] = [pid |-> q, peer |-> a]
      /\ \A x \in Ids : x \notin {a, b} => conns'[x] = conns[x]
  BY <1>1 DEF Connected, TypeOK, Ids
<1>3. PeerOf[a] = b /\ PeerOf[b] = a /\ \A x \in Ids : x \in Nat /\ (x \notin {a, b} => PeerOf[x] \notin {a, b})
  <2>1. Odd(a)
    BY DEF Piped, NewIds
  <2>2. PeerOf[a] = b
    BY <2>1 DEF PeerOf
  <2> QED
    BY <2>2, PeersAre
<1>4. \A x \in {a, b} : \A r \in Procs : ~Traces(r, x)
  BY <1>2 DEF Piped, NewIds
<1>5. \A x \in Ids : ~IsItem(m, x)
  BY <1>m DEF IsItem, Quiet
<1>6. \A x \in Ids : \A r \in Procs : ItemsOf(up'[r], x) = ItemsOf(up[r], x)
  BY <1>1, <1>5, <1>m, OthersHearNothing
<1>7. ASSUME NEW r \in Procs, NEW x \in Ids
      PROVE  /\ Waits(r, x)' <=> Waits(r, x) \/ (x = a /\ r = p) \/ (x = b /\ r = q)
             /\ Arrived(r, x)' = Arrived(r, x)
  <2>1. ItemsOf(down'[r], x) = ItemsOf(down[r], x)
    BY <1>1, ConnectEnds
  <2>2. Waits(r, x)' <=> Waits(r, x) \/ (x = a /\ r = p) \/ (x = b /\ r = q)
    BY <1>1, ConnectEnds DEF Waits
  <2> QED
    BY <2>1, <2>2 DEF Arrived
<1>8. ASSUME NEW x \in Ids, x \notin {a, b} PROVE End(x)' = End(x) /\ Flow(x)' = Flow(x)
  <2>1. \A r \in Procs : Same(r, x) /\ Arrived(r, x)' = Arrived(r, x)
    BY <1>7, <1>8 DEF Same, Open
  <2>2. x >= nextConn <=> x >= nextConn'
    <3>1. x \in Nat /\ x # nextConn /\ x # nextConn + 1
      BY <1>3, <1>8
    <3> QED
      BY <1>2, <3>1
  <2>3. Coming(x)' = Coming(x)
    <3>1. PeerOf[x] \in Ids /\ PeerOf[x] \notin {a, b}
      BY <1>3, <1>8, PeersAre
    <3> QED
      BY <1>1, <1>2, <1>6, <1>8, <3>1, ComingStays
  <2> QED
    BY <2>1, <2>2, <2>3, EndStays, FlowStays
<1>9. ASSUME NEW x \in {a, b}
      PROVE  /\ End(x) = "none" /\ End(x)' = "waiting"
             /\ Flow(x) = <<>> /\ Flow(x)' = <<>>
  <2>x. x \in Ids /\ PeerOf[x] \in {a, b} /\ x >= nextConn
    BY <1>2, <1>3
  <2>1. \A r \in Procs : ~Holds(r, x)
    BY <1>1, <1>4, <2>x, NoTraces DEF Holds
  <2>2. End(x) = "none" /\ Flow(x) = <<>>
    BY <2>1, <2>x DEF Seen
  <2>r. PICK r \in Procs : (x = a /\ r = p) \/ (x = b /\ r = q)
    OBVIOUS
  <2>3. Waits(r, x)' /\ Holds(r, x)'
    BY <1>7, <2>r, <2>x DEF Holds
  <2>4. End(x)' = "waiting"
    <3>1. End(x)' = EndAt(r, x)'
      BY <2>3, <2>x DEF Seen
    <3> QED
      BY <2>3, <3>1 DEF EndAt
  <2>5. Flow(x)' = Arrived(r, x)' \o Coming(x)'
    BY <2>3, <2>x DEF Seen
  <2>6. Arrived(r, x)' = <<>> \o <<>>
    <3>1. ItemsOf(down[r], x) = <<>> /\ sock[r][x] = NoSock
      BY <1>1, <1>4, <2>x, NoTraces
    <3>2. Arrived(r, x) = <<>> \o <<>>
      BY <3>1 DEF Arrived, NoSock
    <3> QED
      BY <1>7, <2>x, <3>2
  <2>7. Coming(x)' = <<>>
    <3>o. PICK o \in Ids : o = PeerOf[x] /\ o \in {a, b}
      BY <2>x
    <3>1. PICK t \in Procs : conns'[o].pid = t
      BY <1>2, <3>o
    <3>2. ItemsOf(up[t], o) = <<>>
      BY <1>1, <1>4, <3>o, NoTraces
    <3>3. ItemsOf(up'[t], o) = <<>>
      BY <1>6, <3>2
    <3> QED
      <4>1. Coming(x)' = IF conns'[x] = NoConn THEN <<>> ELSE ItemsOf(up'[conns'[PeerOf[x]].pid], PeerOf[x])
        BY DEF Coming
      <4> QED
        BY <3>1, <3>3, <3>o, <4>1
  <2>8. <<>> \o <<>> = <<>>
    OBVIOUS
  <2> QED
    BY <2>2, <2>4, <2>5, <2>6, <2>7, <2>8
<1>10. \A x \in Ids : Flow(x)' = Flow(x)
  BY <1>8, <1>9
<1> QED
  BY <1>2, <1>3, <1>8, <1>9, <1>10, AsConnect

\* What the end of a process leaves to another: its ends, and an end of file for
\* each that lost the other.
LEMMA SurvivorsHear ==
  ASSUME TypeOK, Pairs, Piped, NEW p \in Procs, Finalize(p), up' = [up EXCEPT ![p] = <<>>],
         NEW q \in Procs, q # p, NEW id \in Ids
  PROVE  /\ Same(q, id)
         /\ id \notin Widowed(p, q) => Arrived(q, id)' = Arrived(q, id)
         /\ id \in Widowed(p, q) => Arrived(q, id)' = Append(Arrived(q, id), EOF)
         /\ Arrived(q, id) \in Seq(Items) /\ EOF \in Items
<1>1. /\ down'[q] = down[q] \o Closes(Widowed(p, q)) /\ sock'[q] = sock[q]
      /\ down[q] \in Seq(Events) /\ EOF \in Items
  BY FinalizeMoves DEF TypeOK, Piped, Items
<1>w. PICK W \in SUBSET Ids : W = Widowed(p, q)
  BY DEF Widowed
<1>2. DownIn(down[q], sock[q][id], id)
  BY DEF Piped, EndsInOrder
<1>3. id \in W => StillOn(down[q], sock[q][id], id)
  BY <1>w DEF Widowed, Piped, OnRecord
<1>4. /\ DownIn(down'[q], sock[q][id], id)
      /\ \A i \in 1..Len(down'[q]) : \/ i \in 1..Len(down[q]) /\ down'[q][i] = down[q][i]
                                     \/ down'[q][i].type = "close" /\ down'[q][i].id \in W
      /\ \A i \in 1..Len(down[q]) : i \in 1..Len(down'[q]) /\ down'[q][i] = down[q][i]
  <2>1. down'[q] = down[q] \o Closes(W) /\ down[q] \in Seq(Events)
    BY <1>1, <1>w
  <2> QED
    BY <1>2, <1>3, <2>1, DownCloses
<1>5. Waits(q, id)' <=> Waits(q, id)
  BY <1>4 DEF Waits, Announces
<1>6. Same(q, id)
  BY <1>1, <1>5 DEF Same, Open
<1>c. PICK c \in Seq(Events) : c = Closes(W) /\ ItemsOf(c, id) = IF id \in W THEN <<EOF>> ELSE <<>>
  BY ClosesItems
<1>7. ItemsOf(down'[q], id) = ItemsOf(down[q], id) \o (IF id \in W THEN <<EOF>> ELSE <<>>)
  <2>1. down'[q] = down[q] \o c /\ down[q] \in Seq(Events)
    BY <1>1, <1>c, <1>w
  <2>2. ItemsOf(down[q] \o c, id) = ItemsOf(down[q], id) \o ItemsOf(c, id)
    BY <2>1, Carriers, ItemsConcat
  <2> QED
    BY <1>c, <2>1, <2>2
<1>a. PICK a \in Seq(Items) : a = sock[q][id].queue
  BY FlowTyped DEF Piped
<1>b. PICK b \in Seq(Items) : b = ItemsOf(down[q], id)
  BY FlowTyped DEF Piped
<1>8. Arrived(q, id) = a \o b /\ a \o b \in Seq(Items)
  BY <1>a, <1>b, Pieces DEF Arrived
<1>9. CASE id \notin W
  <2>1. ItemsOf(down'[q], id) = b
    BY <1>7, <1>9, <1>b, ConcatEmptySeq
  <2> QED
    BY <1>1, <1>6, <1>8, <1>9, <1>a, <1>w, <2>1 DEF Arrived
<1>10. CASE id \in W
  <2>e. PICK e \in Items : e = EOF
    BY <1>1
  <2>1. PICK s : s = Append(b, e)
    OBVIOUS
  <2>2. b \o <<EOF>> = s
    BY <2>1, <2>e, AppendIsConcat
  <2>3. ItemsOf(down'[q], id) = s
    BY <1>7, <1>10, <1>b, <2>2
  <2>4. Arrived(q, id)' = a \o s
    BY <1>1, <1>a, <2>3 DEF Arrived
  <2>5. PICK t \in Seq(Items) : t = a \o b
    BY <1>8
  <2>6. Append(t, e) = a \o s
    <3>0. <<e>> \in Seq(Items)
      OBVIOUS
    <3>1. PICK l \in Seq(Items) : l = <<e>>
      BY <3>0
    <3>2. (a \o b) \o l = a \o (b \o l)
      BY ConcatAssociative
    <3>3. Append(t, e) = t \o <<e>>
      BY AppendIsConcat
    <3> QED
      BY <2>2, <2>e, <2>5, <3>1, <3>2, <3>3
  <2> QED
    BY <1>1, <2>e, <1>6, <1>8, <1>10, <1>w, <2>4, <2>5, <2>6
<1> QED
  BY <1>1, <1>6, <1>8, <1>9, <1>10, <1>w

\* The end of a process is the end of its ends.
LEMMA FinalizeIsPipe ==
  ASSUME Inv, Piped, Seen, Seen', NEW p \in Procs, Finalize(p), up' = [up EXCEPT ![p] = <<>>]
  PROVE  Pipe!Next
<1>1. TypeOK /\ Pairs /\ OnRecord
  BY DEF Inv, Typed, Piped
<1>d. PICK D \in SUBSET Ids : D = {id \in Ids : Holds(p, id) \/ (conns[id] # NoConn /\ conns[id].pid = p)}
  OBVIOUS
<1>2. /\ nextConn' = nextConn
      /\ up'[p] = <<>> /\ down'[p] = <<>> /\ \A id \in Ids : sock'[p][id] = NoSock
      /\ \A q \in Procs : q # p => up'[q] = up[q]
      /\ \A id \in Ids : conns'[id] = IF id \in Ends(p) THEN NoConn ELSE conns[id]
  BY <1>1, FinalizeMoves
<1>3. \A x \in Ids : ~Holds(p, x)' /\ ~Waits(p, x)' /\ ~Open(p, x)'
  BY <1>2 DEF Holds, Open, Waits, NoSock
<1>4. \A q \in Procs : \A x \in Ids : q # p => Same(q, x) /\ (Holds(q, x)' <=> Holds(q, x))
  BY <1>1, SurvivorsHear DEF Same, Holds
<1>5. ASSUME NEW x \in D PROVE End(x)' = "gone" /\ Flow(x)' = <<>>
  <2>x. x \in Ids /\ (Holds(p, x) \/ (conns[x] # NoConn /\ conns[x].pid = p))
    BY <1>d
  <2>1. \A q \in Procs : Holds(q, x) => q = p
    BY <1>1, <2>x, HoldsTraces DEF Piped, OneOwner, OnRecord
  <2>2. \A q \in Procs : ~Holds(q, x)'
    BY <1>3, <1>4, <2>x, <2>1
  <2>3. ~(x >= nextConn)
    <3>1. x \in Nat /\ nextConn \in Nat
      BY <1>1, <2>x, PeersAre DEF TypeOK
    <3>2. CASE Holds(p, x)
      BY <1>1, <2>x, <3>1, <3>2, HoldsTraces
    <3>3. CASE conns[x] # NoConn
      BY <2>x, <3>3 DEF Piped, NewIds
    <3> QED
      BY <2>x, <3>2, <3>3
  <2>4. Flow(x)' = <<>> /\ End(x)' = (IF x >= nextConn' THEN "none" ELSE "gone")
    BY <2>x, <2>2 DEF Seen
  <2> QED
    BY <1>2, <2>3, <2>4
<1>6. ASSUME NEW x \in Ids, x \notin D PROVE \A q \in Procs : Same(q, x)
  <2>1. ~Holds(p, x)
    BY <1>6, <1>d
  <2>2. Same(p, x)
    BY <1>3, <2>1 DEF Same, Holds
  <2> QED
    BY <1>4, <2>2
<1>7. \A x \in Ids : x \notin D => End(x)' = End(x)
  BY <1>2, <1>6, EndStays
<1>8. ASSUME NEW x \in Ids, x \notin D
      PROVE  \/ Flow(x)' = Flow(x)
             \/ /\ PeerOf[x] \in D
                /\ \E k \in 0..Len(Flow(x)) : Flow(x)' = Append(SubSeq(Flow(x), 1, k), EOF)
  <2>1. CASE \A q \in Procs : ~Holds(q, x)
    BY <1>6, <1>8, <2>1, FlowStays
  <2>2. ASSUME NEW q \in Procs, Holds(q, x)
        PROVE  \/ Flow(x)' = Flow(x)
               \/ /\ PeerOf[x] \in D
                  /\ \E k \in 0..Len(Flow(x)) : Flow(x)' = Append(SubSeq(Flow(x), 1, k), EOF)
    <3>1. q # p /\ (\A r \in Procs : Holds(r, x) => r = q) /\ Holds(q, x)'
      <4>1. q # p
        BY <1>8, <1>d, <2>2
      <4> QED
        BY <1>1, <1>4, <2>2, <4>1, HoldsTraces DEF Piped, OneOwner
    <3>2. conns[x] # NoConn => /\ conns[x].pid = q /\ PeerOf[x] \in Ids /\ conns[PeerOf[x]] # NoConn
                               /\ PeerOf[PeerOf[x]] = x
      <4>1. Traces(q, x)
        BY <1>1, <2>2, HoldsTraces
      <4> QED
        BY <1>1, <4>1, OnRecordBoth, PeersAre DEF OnRecord
    <3>3. CASE x \notin Widowed(p, q)
      <4>1. Arrived(q, x)' = Arrived(q, x)
        BY <1>1, <3>1, <3>3, SurvivorsHear
      <4>2. Coming(x)' = Coming(x)
        <5>1. CASE conns[x] = NoConn
          BY <1>2, <5>1 DEF Coming
        <5>2. CASE conns[x] # NoConn
          <6>1. conns[PeerOf[x]].pid # p /\ x \notin Ends(p) /\ PeerOf[x] \notin Ends(p)
            BY <3>1, <3>2, <3>3, <5>2 DEF Widowed, Ends
          <6>2. conns'[x] = conns[x] /\ conns'[PeerOf[x]] = conns[PeerOf[x]]
            BY <1>2, <3>2, <5>2, <6>1
          <6>3. conns[PeerOf[x]].pid \in Procs
            BY <1>1, <5>2, OnRecordBoth
          <6>4. up'[conns[PeerOf[x]].pid] = up[conns[PeerOf[x]].pid]
            BY <1>2, <6>1, <6>3
          <6> QED
            BY <6>2, <6>4 DEF Coming
        <5> QED
          BY <5>1, <5>2
      <4>3. \A r \in Procs : Holds(r, x) => Arrived(r, x)' \o Coming(x)' = Arrived(r, x) \o Coming(x)
        BY <3>1, <4>1, <4>2
      <4>4. Flow(x)' = Flow(x)
        BY <1>6, <1>8, <4>3, FlowStays
      <4> QED
        BY <4>4
    <3>4. CASE x \in Widowed(p, q)
      <4>1. conns[x] # NoConn /\ conns[PeerOf[x]].pid = p /\ x \in Ends(p)
        BY <3>4 DEF Widowed, Ends
      <4>2. PeerOf[x] \in D
        BY <1>d, <3>2, <4>1
      <4>3. Arrived(q, x)' = Append(Arrived(q, x), EOF) /\ EOF \in Items
        BY <1>1, <3>1, <3>4, SurvivorsHear
      <4>4. Coming(x)' = <<>>
        BY <1>2, <4>1 DEF Coming
      <4>a. PICK a \in Seq(Items) : a = Arrived(q, x)
        BY <1>1, FlowTyped
      <4>b. PICK b \in Seq(Items) : b = Coming(x)
        BY <1>1, FlowTyped
      <4>f. PICK f \in Items : f = EOF
        BY <4>3
      <4>e. PICK e \in Seq(Items) : e = Append(a, EOF)
        <5>1. Append(a, f) \in Seq(Items)
          OBVIOUS
        <5> QED
          BY <4>f, <5>1
      <4>5. Flow(x) = a \o b
        BY <2>2, <4>a, <4>b DEF Seen
      <4>6. Flow(x)' = e \o <<>>
        <5>1. Flow(x)' = Arrived(q, x)' \o Coming(x)'
          BY <3>1 DEF Seen
        <5> QED
          BY <4>3, <4>4, <4>a, <4>e, <5>1
      <4>7. e \o <<>> = e
        BY ConcatEmptySeq
      <4>8. SubSeq(a \o b, 1, Len(a)) = a /\ Len(a) \in 0..Len(a \o b)
        <5>1. SubSeq(a \o b, 1, Len(a)) = a
          BY Pieces
        <5>2. Len(a \o b) = Len(a) + Len(b) /\ Len(a) \in Nat /\ Len(b) \in Nat
          BY Pieces
        <5> QED
          BY <5>1, <5>2
      <4>9. \E k \in 0..Len(Flow(x)) : Flow(x)' = Append(SubSeq(Flow(x), 1, k), EOF)
        BY <4>5, <4>6, <4>7, <4>8, <4>e
      <4> QED
        BY <4>2, <4>9
    <3> QED
      BY <3>3, <3>4
  <2> QED
    BY <2>1, <2>2
<1>9. \A x \in Ids : End(x)' = IF x \in D THEN "gone" ELSE End(x)
  BY <1>5, <1>7
<1> QED
  BY <1>5, <1>8, <1>9, AsDie

-----------------------------------------------------------------------------
(* Every step of the network is one of a pipe, or none.                     *)

\* Where nothing of the connections changes, nothing of the pipes does.
LEMMA NothingIsPipe ==
  ASSUME Piped, Seen, Seen', UNCHANGED <<up, down, sock, conns, nextConn>>
  PROVE  UNCHANGED Pipe!vars
<1>1. \A x \in Ids : \A q \in Procs : Same(q, x) /\ Arrived(q, x)' = Arrived(q, x)
  BY DEF Same, Open, Waits, Arrived
<1>2. \A x \in Ids : Coming(x)' = Coming(x)
  BY DEF Coming
<1>3. \A x \in Ids : End(x)' = End(x) /\ Flow(x)' = Flow(x)
  BY <1>1, <1>2, EndStays, FlowStays
<1> QED
  BY <1>3, AsStutter

\* What the kernel handles.
LEMMA RelayIsPipe ==
  ASSUME Inv, Piped, Seen, Seen', NEW p \in Procs, Relay(p)
  PROVE  Pipe!Next \/ UNCHANGED Pipe!vars
<1>1. TypeOK /\ Pairs /\ OnRecord
  BY DEF Inv, Typed, Piped
<1>2. up[p] # <<>> /\ Head(up[p]) \in Messages
  BY <1>1, RelayDoes
<1>3. CASE Finalize(p) /\ up' = [up EXCEPT ![p] = <<>>]
  BY <1>3, FinalizeIsPipe
<1>4. CASE up' = [up EXCEPT ![p] = Tail(@)] /\ sock' = sock /\ RelayConnect(p, Head(up[p]))
  <2>1. CASE Refused(p)
    BY <1>2, <1>4, <2>1, ConnectMoves, RefusalIsPipe
  <2>2. ASSUME nextConn \in Ids, nextConn + 1 \in Ids, NEW q \in Procs, Connected(p, q, nextConn, nextConn + 1)
        PROVE  Pipe!Next
    <3>1. Quiet(Head(up[p]))
      BY <1>2, <1>4, ConnectMoves
    <3> QED
      BY <1>2, <1>4, <2>2, <3>1, ConnectionIsPipe
  <2> QED
    BY <1>2, <1>4, <2>1, <2>2, ConnectMoves
<1>5. CASE /\ up' = [up EXCEPT ![p] = Tail(@)] /\ sock' = sock
           /\ RelayRelease(p, Head(up[p])) \/ RelayItem(p, Head(up[p])) \/ RelayClose(p, Head(up[p]))
  <2>1. Heard(Head(up[p])) /\ nextConn' = nextConn
    BY <1>1, <1>2, <1>5, RelayMoves
  <2> QED
    BY <1>2, <1>5, <2>1, HearingIsPipe
<1> QED
  BY <1>3, <1>4, <1>5 DEF Relay, RelayExit, handles

\* Any step.
LEMMA NextIsPipe ==
  ASSUME Inv, Piped, Seen, Seen', [Next]_vars
  PROVE  [Pipe!Next]_Pipe!vars
<1>1. ASSUME UNCHANGED <<up, down, sock, conns, nextConn>> PROVE [Pipe!Next]_Pipe!vars
  BY <1>1, NothingIsPipe
<1>2. ASSUME UNCHANGED vars PROVE [Pipe!Next]_Pipe!vars
  BY <1>1, <1>2 DEF vars, kernel, handles
<1>3. ASSUME NEW p \in Procs, Guest(p) PROVE [Pipe!Next]_Pipe!vars
  BY <1>3, GuestIsPipe
<1>4. ASSUME NEW p \in Procs, Dispatch(p) PROVE [Pipe!Next]_Pipe!vars
  BY <1>4, DispatchIsPipe
<1>5. ASSUME NEW p \in Procs, Service(p) PROVE [Pipe!Next]_Pipe!vars
  BY <1>1, <1>5 DEF Service
<1>6. ASSUME NEW p \in Procs, Relay(p) PROVE [Pipe!Next]_Pipe!vars
  BY <1>6, RelayIsPipe
<1>7. ASSUME NEW p \in Procs, Kill(p) PROVE [Pipe!Next]_Pipe!vars
  BY <1>7, FinalizeIsPipe DEF Kill
<1> QED
  BY <1>2, <1>3, <1>4, <1>5, <1>6, <1>7 DEF Next

\* No connection is made at first.
LEMMA PipeAtFirst ==
  ASSUME Init
  PROVE  Pipe!Init
<1>1. Inv /\ Piped
  BY InvAtFirst, PipedAtFirst
<1>2. Seen
  BY <1>1, EndsAreSeen
<1>3. ASSUME NEW x \in Ids PROVE End(x) = "none" /\ Flow(x) = <<>>
  <2>1. \A p \in Procs : ~Holds(p, x)
    BY DEF Init, NoSock, Holds, Open, Waits
  <2>2. x >= nextConn
    BY DEF Init, Ids
  <2> QED
    BY <1>2, <2>1, <2>2 DEF Seen
<1>4. [x \in Ids |-> End(x)] = [x \in Ids |-> "none"] /\ [x \in Ids |-> Flow(x)] = [x \in Ids |-> <<>>]
  BY <1>3
<1> QED
  BY <1>4 DEF Pipe!Init

\* ImplementsPipe holds of every behaviour of the network, for any processes,
\* ports and numbers of connections and writes: whatever the messages of two
\* processes, the kernel's handlers and the deaths of processes are interleaved
\* to, each connection carries in each direction what was written, in order, to
\* the right end, and nothing after the end of file.
THEOREM NetImplementsPipe == Spec => ImplementsPipe
<1>1. Init => Pipe!Init
  BY PipeAtFirst
<1>2. Inv /\ Piped => Seen
  BY EndsAreSeen
<1>3. Inv /\ Piped /\ Seen /\ Seen' /\ [Next]_vars => [Pipe!Next]_Pipe!vars
  BY NextIsPipe
<1>4. Spec => [](Inv /\ Piped)
  BY PipedHolds
<1> QED
  BY <1>1, <1>2, <1>3, <1>4, PTL DEF Spec, ImplementsPipe, Pipe!Spec
=============================================================================
