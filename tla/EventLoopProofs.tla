-------------------------- MODULE EventLoopProofs --------------------------
(***************************************************************************)
(* Proofs about the event loop, for every number of guest calls, every     *)
(* length of promise chains, with and without errors.                      *)
(***************************************************************************)
EXTENDS EventLoop, FiniteSetTheorems, FunctionTheorems, SequenceTheorems, TLAPS

-----------------------------------------------------------------------------
(* Queues.                                                                  *)

\* Where a queue has v.
At(s, v) == {i \in DOMAIN s : s[i] = v}

\* Where a queue holds a task is a finite set, empty if and only if the task is not queued.
LEMMA AtIsFinite ==
  ASSUME NEW S, NEW s \in Seq(S), NEW v
  PROVE  /\ IsFiniteSet(At(s, v)) /\ Cardinality(At(s, v)) \in Nat
         /\ Cardinality(At(s, v)) = 0 <=> At(s, v) = {}
         /\ v \in ToSet(s) <=> At(s, v) # {}
<1>1. Len(s) \in Nat /\ DOMAIN s = 1..Len(s)
  BY LenProperties
<1>2. IsFiniteSet(1..Len(s))
  BY <1>1, FS_Interval
<1>3. At(s, v) \in SUBSET (1..Len(s))
  BY <1>1 DEF At
<1>4. IsFiniteSet(At(s, v))
  BY <1>2, <1>3, FS_Subset
<1>5. v \in ToSet(s) <=> At(s, v) # {}
  BY DEF At, ToSet
<1> QED
  BY <1>4, <1>5, FS_EmptySet, FS_CardinalityType

\* What is put at its end is counted once more,
LEMMA PutAtEnd ==
  ASSUME NEW S, NEW s \in Seq(S), NEW x \in S, NEW v
  PROVE  /\ Append(s, x) \in Seq(S)
         /\ Cardinality(At(Append(s, x), v)) =
              Cardinality(At(s, v)) + (IF x = v THEN 1 ELSE 0)
         /\ v \in ToSet(Append(s, x)) <=> v \in ToSet(s) \/ x = v
<1> DEFINE n == Len(s) + 1
           t == Append(s, x)
<1>1. /\ t \in Seq(S) /\ Len(t) = n /\ Len(s) \in Nat /\ t[n] = x
      /\ \A i \in 1..Len(s) : t[i] = s[i]
      /\ DOMAIN s = 1..Len(s) /\ DOMAIN t = 1..n
  BY AppendProperties, LenProperties
<1>2. At(t, v) = IF x = v THEN At(s, v) \cup {n} ELSE At(s, v)
  BY <1>1 DEF At
<1>3. n \notin At(s, v)
  BY <1>1 DEF At
<1>4. Cardinality(At(t, v)) = Cardinality(At(s, v)) + (IF x = v THEN 1 ELSE 0)
  <2>1. IsFiniteSet(At(s, v)) /\ Cardinality(At(s, v)) \in Nat
    BY AtIsFinite
  <2>2. Cardinality(At(s, v) \cup {n}) = Cardinality(At(s, v)) + 1
    BY <1>3, <2>1, FS_AddElement
  <2> QED
    BY <1>2, <2>1, <2>2
<1>5. v \in ToSet(t) <=> v \in ToSet(s) \/ x = v
  BY <1>1, <1>2, AtIsFinite
<1> QED
  BY <1>1, <1>4, <1>5

\* and what is taken from its front once less.
LEMMA TakeFront ==
  ASSUME NEW S, NEW s \in Seq(S), s # <<>>, NEW v
  PROVE  /\ Tail(s) \in Seq(S) /\ Head(s) \in S
         /\ Cardinality(At(s, v)) =
              Cardinality(At(Tail(s), v)) + (IF Head(s) = v THEN 1 ELSE 0)
         /\ v \in ToSet(s) <=> v \in ToSet(Tail(s)) \/ Head(s) = v
<1> DEFINE t == Tail(s)
           later == At(s, v) \ {1}
           shift == [i \in At(t, v) |-> i + 1]
<1>1. /\ t \in Seq(S) /\ Head(s) \in S /\ Len(s) \in Nat \ {0} /\ Len(t) = Len(s) - 1
      /\ \A i \in 1..Len(t) : t[i] = s[i + 1]
      /\ DOMAIN s = 1..Len(s) /\ DOMAIN t = 1..Len(t) /\ Head(s) = s[1]
  BY HeadTailProperties, EmptySeq, LenProperties
<1>2. shift \in Bijection(At(t, v), later)
  <2>1. shift \in [At(t, v) -> later]
    BY <1>1 DEF At
  <2>2. \A i, j \in At(t, v) : shift[i] = shift[j] => i = j
    BY <1>1 DEF At
  <2>3. \A j \in later : \E i \in At(t, v) : shift[i] = j
    <3> SUFFICES ASSUME NEW j \in later PROVE j - 1 \in At(t, v) /\ shift[j - 1] = j
      OBVIOUS
    <3>1. j \in 2..Len(s) /\ s[j] = v
      BY <1>1 DEF At
    <3>2. j - 1 \in 1..Len(t) /\ t[j - 1] = v
      BY <1>1, <3>1
    <3> QED
      BY <1>1, <3>1, <3>2 DEF At
  <2> QED
    BY <2>1, <2>2, <2>3, Fun_IsBij
<1>3. Cardinality(later) = Cardinality(At(t, v))
  <2>1. ExistsBijection(At(t, v), later)
    BY <1>2, Fun_ExistsBij
  <2> QED
    BY <1>1, <2>1, AtIsFinite, FS_Bijection
<1>4. 1 \in At(s, v) <=> Head(s) = v
  BY <1>1 DEF At
<1>5. /\ IsFiniteSet(At(s, v))
      /\ Cardinality(At(s, v)) \in Nat /\ Cardinality(At(t, v)) \in Nat
      /\ v \in ToSet(s) <=> Cardinality(At(s, v)) # 0
      /\ v \in ToSet(t) <=> Cardinality(At(t, v)) # 0
  BY <1>1, AtIsFinite
<1>6. Cardinality(later) = IF 1 \in At(s, v) THEN Cardinality(At(s, v)) - 1
                                            ELSE Cardinality(At(s, v))
  BY <1>5, FS_RemoveElement
<1>7. Cardinality(At(s, v)) = Cardinality(At(t, v)) + (IF Head(s) = v THEN 1 ELSE 0)
  BY <1>3, <1>4, <1>5, <1>6
<1>8. v \in ToSet(s) <=> v \in ToSet(t) \/ Head(s) = v
  BY <1>5, <1>7
<1> QED
  BY <1>1, <1>7, <1>8

\* The count of what is ref'd is positive if something is.
LEMMA CountPositive ==
  ASSUME NEW s \in Seq(BOOLEAN)
  PROVE  /\ Count(s) \in Nat
         /\ Count(s) > 0 <=> \E i \in 1..Len(s) : s[i]
         /\ Count(s) > 0 => s # <<>>
<1>1. Len(s) \in Nat /\ DOMAIN s = 1..Len(s)
  BY LenProperties
<1> DEFINE refed == {i \in DOMAIN s : s[i]}
<1>2. refed \in SUBSET (1..Len(s)) /\ IsFiniteSet(1..Len(s))
  BY <1>1, FS_Interval
<1>3. IsFiniteSet(refed) /\ Cardinality(refed) \in Nat
  BY <1>2, FS_Subset, FS_CardinalityType
<1>4. Cardinality(refed) = 0 <=> refed = {}
  BY <1>3, FS_EmptySet
<1>5. Count(s) > 0 <=> \E i \in 1..Len(s) : s[i]
  BY <1>1, <1>3, <1>4 DEF Count
<1>6. s = <<>> => Len(s) = 0
  OBVIOUS
<1> QED
  BY <1>1, <1>3, <1>5, <1>6 DEF Count

-----------------------------------------------------------------------------
(* What is posted, and what is counted.                                     *)

Tasks == {"turn", "check", "post"}
Single(m) ==
  m \in Seq(Tasks) /\ Cardinality(At(m, "turn")) <= 1 /\ Cardinality(At(m, "check")) <= 1
Posts(m) == Cardinality(At(m, "post"))

\* A turn or a check that is posted unless it is on its way.
LEMMA PostedOnce ==
  ASSUME NEW m, Single(m), NEW task \in {"turn", "check"}, NEW n,
         n = IF task \in ToSet(m) THEN m ELSE Append(m, task)
  PROVE  /\ Single(n) /\ Posts(n) = Posts(m)
         /\ \A v \in Tasks : v \in ToSet(n) <=> v \in ToSet(m) \/ v = task
<1>1. CASE task \in ToSet(m)
  BY <1>1
<1>2. CASE task \notin ToSet(m)
  <2>1. m \in Seq(Tasks) /\ task \in Tasks /\ n = Append(m, task)
    BY <1>2 DEF Single, Tasks
  <2>2. Cardinality(At(m, task)) = 0
    BY <1>2, <2>1, AtIsFinite
  <2>3. /\ n \in Seq(Tasks)
        /\ \A v : Cardinality(At(n, v)) = Cardinality(At(m, v)) + (IF task = v THEN 1 ELSE 0)
        /\ \A v : v \in ToSet(n) <=> v \in ToSet(m) \/ task = v
    BY <2>1, PutAtEnd
  <2>4. \A v : Cardinality(At(m, v)) \in Nat
    BY <2>1, AtIsFinite
  <2>5. Single(n)
    BY <2>2, <2>3, <2>4 DEF Single
  <2>6. Posts(n) = Posts(m)
    BY <2>3, <2>4 DEF Posts
  <2> QED
    BY <2>3, <2>5, <2>6
<1> QED
  BY <1>1, <1>2

\* A wake posts a turn if the loop runs and none is posted.
LEMMA WokenShape ==
  ASSUME NEW m, Single(m)
  PROVE  /\ Single(Woken(m)) /\ Posts(Woken(m)) = Posts(m)
         /\ \A v \in Tasks : v \in ToSet(Woken(m)) <=> v \in ToSet(m) \/ (running /\ v = "turn")
<1>1. CASE running
  <2>1. Woken(m) = IF "turn" \in ToSet(m) THEN m ELSE Append(m, "turn")
    BY <1>1 DEF Woken
  <2> QED
    BY <1>1, <2>1, PostedOnce
<1>2. CASE ~running
  BY <1>2 DEF Woken
<1> QED
  BY <1>1, <1>2

\* A task that is taken.
LEMMA TakenShape ==
  ASSUME NEW m, Single(m), m # <<>>
  PROVE  /\ Single(Tail(m)) /\ Posts(m) = Posts(Tail(m)) + (IF Head(m) = "post" THEN 1 ELSE 0)
         /\ \A v \in Tasks : v \in ToSet(m) <=> v \in ToSet(Tail(m)) \/ v = Head(m)
<1>1. m \in Seq(Tasks)
  BY DEF Single
<1>2. /\ Tail(m) \in Seq(Tasks)
      /\ \A v : Cardinality(At(m, v)) = Cardinality(At(Tail(m), v)) + (IF Head(m) = v THEN 1 ELSE 0)
      /\ \A v : v \in ToSet(m) <=> v \in ToSet(Tail(m)) \/ Head(m) = v
  BY <1>1, TakeFront
<1>3. \A v : Cardinality(At(Tail(m), v)) \in Nat
  BY <1>2, AtIsFinite
<1> QED
  BY <1>2, <1>3 DEF Single, Posts

\* What a step may do to the tasks of the thread.
TaskStep ==
  \/ UNCHANGED <<macro, refs>>
  \/ macro' = Woken(macro) /\ UNCHANGED refs
  \/ macro' = Checked(macro) /\ UNCHANGED refs
  \/ Run /\ UNCHANGED refs
  \/ /\ StartTurn \/ StartTickCheck
     /\ macro # <<>> /\ Head(macro) # "post" /\ macro' = Tail(macro) /\ UNCHANGED refs
  \/ macro # <<>> /\ Head(macro) = "post" /\ macro' = Woken(Tail(macro)) /\ refs' = refs - 1
  \/ Complete
  \/ Begin

\* Every step does one of these to the macrotasks and the references.
LEMMA EveryTaskStep ==
  ASSUME [Next]_vars
  PROVE  TaskStep
<1>1. CASE UNCHANGED vars
  BY <1>1 DEF vars, work, TaskStep
<1>2. CASE Guest
  BY <1>2 DEF Guest, NextTick, Await, SetImmediate, SetTimeout, Return, Throw, Exit,
     TaskStep, work
<1>3. CASE Turn
  BY <1>3 DEF Turn, StartTurn, TimersPhase, FireTimer, TimersDone, StartCheck, RunImmediate,
     ImmediatesDone, SettleBusy, SettleAsleep, SettleUnsure, SettleIdle, Task, TaskStep, work
<1>4. CASE Loop /\ ~Turn
  BY <1>4 DEF Loop, RunTick, Drained, StartTickCheck, TickCheckDone, StartPost, PostDone,
     HostTimer, RunJob, MainDone, BeforeExit, BeforeExitDone, Task, TaskStep, work
<1>5. CASE TimePasses \/ Complete
  BY <1>5 DEF TimePasses, TaskStep, work
<1> QED
  BY <1>1, <1>2, <1>3, <1>4, <1>5 DEF Next

\* Bounds: what is counted was begun by a guest's call.
Counted ==
  /\ Single(macro) /\ Posts(macro) <= refs
  /\ refs \in 0..ops /\ ticks \in 0..ops /\ ops \in 0..MaxOps

\* One turn and one check at a time, no completion without its handle.
LEMMA StaysCounted ==
  ASSUME Counted, [Next]_vars
  PROVE  Counted'
<1>1. Single(macro) /\ Posts(macro) \in Nat
  BY AtIsFinite DEF Counted, Single, Posts
<1>2. MaxOps \in Nat
  BY LoopAssumption
<1>3. Single(macro') /\ Posts(macro') <= refs' /\ refs' \in Nat /\ (refs' <= refs \/ Begin)
  <2>1. CASE UNCHANGED <<macro, refs>> \/ (macro' = Woken(macro) /\ UNCHANGED refs)
    BY <1>1, <2>1, WokenShape DEF Counted
  <2>2. CASE (macro' = Checked(macro) \/ Run) /\ UNCHANGED refs
    <3>1. PICK task \in {"turn", "check"} :
            macro' = IF task \in ToSet(macro) THEN macro ELSE Append(macro, task)
      BY <2>2 DEF Checked, Run, Posted
    <3>2. Single(macro') /\ Posts(macro') = Posts(macro)
      BY <1>1, <3>1, PostedOnce
    <3> QED
      BY <1>1, <2>2, <3>2 DEF Counted
  <2>3. CASE macro # <<>> /\ Head(macro) # "post" /\ macro' = Tail(macro) /\ UNCHANGED refs
    <3>1. Single(macro') /\ Posts(macro) = Posts(macro')
      <4>1. Single(Tail(macro)) /\ Posts(macro) = Posts(Tail(macro)) + 0
        BY <1>1, <2>3, TakenShape
      <4>2. Posts(Tail(macro)) \in Nat
        BY <4>1, AtIsFinite DEF Single, Posts
      <4> QED
        BY <2>3, <4>1, <4>2
    <3> QED
      BY <1>1, <2>3, <3>1 DEF Counted
  <2>4. CASE macro # <<>> /\ Head(macro) = "post" /\ macro' = Woken(Tail(macro)) /\ refs' = refs - 1
    <3>1. Single(Tail(macro)) /\ Posts(macro) = Posts(Tail(macro)) + 1
      BY <1>1, <2>4, TakenShape
    <3>2. Posts(Tail(macro)) \in Nat
      BY <3>1, AtIsFinite DEF Single, Posts
    <3>3. Single(macro') /\ Posts(macro') = Posts(Tail(macro))
      BY <2>4, <3>1, WokenShape
    <3> QED
      BY <2>4, <3>1, <3>2, <3>3 DEF Counted
  <2>5. CASE Complete
    <3>1. macro' = Append(macro, "post") /\ refs' = refs /\ refs > Posts(macro)
      BY <2>5 DEF Complete, Completions, Posts, At, work
    <3>2. macro \in Seq(Tasks) /\ "post" \in Tasks
      BY <1>1 DEF Single, Tasks
    <3>3. /\ macro' \in Seq(Tasks)
          /\ \A v : Cardinality(At(macro', v)) =
                      Cardinality(At(macro, v)) + (IF "post" = v THEN 1 ELSE 0)
      BY <3>1, <3>2, PutAtEnd
    <3>4. \A v : Cardinality(At(macro, v)) \in Nat
      BY <3>2, AtIsFinite
    <3>5. Single(macro') /\ Posts(macro') = Posts(macro) + 1
      <4>1. /\ Cardinality(At(macro', "turn")) = Cardinality(At(macro, "turn"))
            /\ Cardinality(At(macro', "check")) = Cardinality(At(macro, "check"))
            /\ Cardinality(At(macro', "post")) = Cardinality(At(macro, "post")) + 1
        BY <3>3, <3>4
      <4> QED
        BY <1>1, <3>3, <4>1 DEF Single, Posts
    <3> QED
      BY <1>1, <3>1, <3>5 DEF Counted
  <2>6. CASE Begin
    <3>1. macro' = macro /\ refs' = refs + 1
      BY <2>6 DEF Begin
    <3> QED
      BY <1>1, <2>6, <3>1 DEF Counted
  <2> QED
    BY <2>1, <2>2, <2>3, <2>4, <2>5, <2>6, EveryTaskStep DEF TaskStep
<1>4. ops' = ops \/ (ops < MaxOps /\ ops' = ops + 1)
  BY DEF Next, Guest, NextTick, Await, SetImmediate, SetTimeout, Begin, Return, Throw, Exit, Call,
     Loop, RunTick, Drained, Turn, StartTurn, TimersPhase, FireTimer, TimersDone, StartCheck,
     RunImmediate, ImmediatesDone, SettleBusy, SettleAsleep, SettleUnsure, SettleIdle,
     StartTickCheck, TickCheckDone, StartPost, PostDone, HostTimer, RunJob, MainDone,
     BeforeExit, BeforeExitDone, TimePasses, Complete, vars
<1>5. ticks' = ticks \/ (ticks > 0 /\ ticks' = ticks - 1) \/ (ticks' = ticks + 1 /\ ops' = ops + 1)
  BY DEF Next, Guest, NextTick, Await, SetImmediate, SetTimeout, Begin, Return, Throw, Exit, Call,
     Loop, RunTick, Drained, Turn, StartTurn, TimersPhase, FireTimer, TimersDone, StartCheck,
     RunImmediate, ImmediatesDone, SettleBusy, SettleAsleep, SettleUnsure, SettleIdle,
     StartTickCheck, TickCheckDone, StartPost, PostDone, HostTimer, RunJob, MainDone,
     BeforeExit, BeforeExitDone, TimePasses, Complete, vars, work
<1>6. Begin => ops' = ops + 1 /\ refs' = refs + 1
  BY DEF Begin, Call
<1>7. ops \in Nat /\ ops <= MaxOps /\ refs \in Nat /\ refs <= ops /\ ticks \in Nat /\ ticks <= ops
  BY <1>2 DEF Counted
<1>8. ops' \in Nat /\ ops' <= MaxOps /\ ops <= ops'
  BY <1>2, <1>4, <1>7
<1>9. refs' <= ops'
  BY <1>3, <1>6, <1>7, <1>8
<1>10. ticks' \in Nat /\ ticks' <= ops'
  BY <1>5, <1>7, <1>8
<1> QED
  BY <1>2, <1>3, <1>8, <1>9, <1>10 DEF Counted, Single, Posts, At

-----------------------------------------------------------------------------
(* Promise jobs, and where execute is.                                      *)

Jobs == {"job", "execute"} \X (0..MaxChain)
ExecutesIn(s) == {i \in DOMAIN s : s[i][1] = "execute"}
AtMostOne(s) == \A i, j \in ExecutesIn(s) : i = j

\* A job that is queued,
LEMMA JobQueued ==
  ASSUME NEW s \in Seq(Jobs), NEW x \in Jobs
  PROVE  /\ Append(s, x) \in Seq(Jobs)
         /\ x[1] # "execute" => ExecutesIn(Append(s, x)) = ExecutesIn(s)
         /\ ExecutesIn(s) = {} => AtMostOne(Append(s, x))
<1>1. /\ Append(s, x) \in Seq(Jobs) /\ Len(Append(s, x)) = Len(s) + 1 /\ Len(s) \in Nat
      /\ Append(s, x)[Len(s) + 1] = x
      /\ \A i \in 1..Len(s) : Append(s, x)[i] = s[i]
      /\ DOMAIN s = 1..Len(s) /\ DOMAIN Append(s, x) = 1..(Len(s) + 1)
  BY AppendProperties, LenProperties
<1>2. ExecutesIn(Append(s, x)) =
        ExecutesIn(s) \cup (IF x[1] = "execute" THEN {Len(s) + 1} ELSE {})
  BY <1>1 DEF ExecutesIn
<1> QED
  BY <1>1, <1>2 DEF AtMostOne

\* and one that is taken.
LEMMA JobTaken ==
  ASSUME NEW s \in Seq(Jobs), s # <<>>
  PROVE  /\ Tail(s) \in Seq(Jobs) /\ Head(s) \in Jobs
         /\ ExecutesIn(s) = {} => ExecutesIn(Tail(s)) = {}
         /\ AtMostOne(s) => AtMostOne(Tail(s))
         /\ AtMostOne(s) /\ Head(s)[1] = "execute" => ExecutesIn(Tail(s)) = {}
<1>1. /\ Tail(s) \in Seq(Jobs) /\ Head(s) \in Jobs /\ Len(s) \in Nat \ {0}
      /\ Len(Tail(s)) = Len(s) - 1
      /\ \A i \in 1..Len(Tail(s)) : Tail(s)[i] = s[i + 1]
      /\ DOMAIN s = 1..Len(s) /\ DOMAIN Tail(s) = 1..Len(Tail(s)) /\ Head(s) = s[1]
  BY HeadTailProperties, EmptySeq, LenProperties
<1>2. \A i \in ExecutesIn(Tail(s)) : i \in Nat \ {0} /\ i + 1 \in ExecutesIn(s)
  BY <1>1 DEF ExecutesIn
<1>3. Head(s)[1] = "execute" => 1 \in ExecutesIn(s)
  BY <1>1 DEF ExecutesIn
<1> QED
  BY <1>1, <1>2, <1>3 DEF AtMostOne

\* What a step may do to the jobs.
JobStep ==
  \/ UNCHANGED micro
  \/ \E n \in 0..(MaxChain - 1) : micro' = Append(micro, <<"job", n>>)
  \/ running /\ ~running' /\ micro' = Append(micro, <<"execute", 0>>)
  \/ RunJob
  \/ BeforeExit

\* Every step does one of these to the promise jobs.
LEMMA EveryJobStep ==
  ASSUME [Next]_vars
  PROVE  JobStep
<1>1. CASE UNCHANGED vars
  BY <1>1 DEF vars, JobStep
<1>2. CASE Guest
  BY <1>2 DEF Guest, NextTick, Await, SetImmediate, SetTimeout, Begin, Return, Throw, Exit,
     Resolved, JobStep
<1>3. CASE Turn
  BY <1>3 DEF Turn, StartTurn, TimersPhase, FireTimer, TimersDone, StartCheck, RunImmediate,
     ImmediatesDone, SettleBusy, SettleAsleep, SettleUnsure, SettleIdle, Resolved, JobStep
<1>4. CASE Loop /\ ~Turn
  BY <1>4 DEF Loop, RunTick, Drained, StartTickCheck, TickCheckDone, StartPost, PostDone,
     HostTimer, MainDone, BeforeExitDone, JobStep
<1>5. CASE TimePasses \/ Complete
  BY <1>5 DEF TimePasses, Complete, JobStep
<1> QED
  BY <1>1, <1>2, <1>3, <1>4, <1>5 DEF Next

\* execute is queued by a loop that stops, and taken by its listeners.
LEMMA JobsStay ==
  ASSUME micro \in Seq(Jobs), OneExecute, [Next]_vars
  PROVE  /\ micro' \in Seq(Jobs) /\ AtMostOne(micro')
         /\ BeforeExit => ExecutesIn(micro') = {}
         /\ ExecutesIn(micro) = {} /\ ~(running /\ ~running') => ExecutesIn(micro') = {}
<1>1. /\ AtMostOne(micro)
      /\ running => ExecutesIn(micro) = {}
  BY DEF OneExecute, Executes, ExecutesIn, AtMostOne
<1>2. MaxChain \in Nat \ {0}
  BY LoopAssumption
<1>3. CASE UNCHANGED micro
  <2>1. ~BeforeExit
    <3>1. BeforeExit => micro # <<>> /\ Tail(micro) = micro
      BY <1>3 DEF BeforeExit
    <3>2. micro # <<>> => Len(Tail(micro)) = Len(micro) - 1 /\ Len(micro) \in Nat
      BY HeadTailProperties, LenProperties
    <3> QED
      BY <3>1, <3>2
  <2> QED
    BY <1>1, <1>3, <2>1
<1>4. ASSUME NEW n \in 0..(MaxChain - 1), micro' = Append(micro, <<"job", n>>), ~BeforeExit
      PROVE  /\ micro' \in Seq(Jobs) /\ AtMostOne(micro')
             /\ ExecutesIn(micro') = ExecutesIn(micro)
  <2>1. <<"job", n>> \in Jobs /\ <<"job", n>>[1] # "execute"
    BY <1>2, <1>4 DEF Jobs
  <2>2. micro' \in Seq(Jobs) /\ ExecutesIn(micro') = ExecutesIn(micro)
    BY <1>4, <2>1, JobQueued
  <2> QED
    BY <1>1, <2>2 DEF AtMostOne
<1>5. CASE running /\ ~running' /\ micro' = Append(micro, <<"execute", 0>>) /\ ~BeforeExit
  <2>1. <<"execute", 0>> \in Jobs
    BY <1>2 DEF Jobs
  <2>2. micro' \in Seq(Jobs) /\ AtMostOne(micro')
    BY <1>1, <1>5, <2>1, JobQueued
  <2> QED
    BY <1>5, <2>2
<1>6. CASE RunJob
  <2> DEFINE left == Head(micro)[2]
  <2>1. micro # <<>> /\ Head(micro)[1] = "job"
    BY <1>6 DEF RunJob
  <2>2. Tail(micro) \in Seq(Jobs) /\ AtMostOne(Tail(micro)) /\ Head(micro) \in Jobs
    BY <1>1, <2>1, JobTaken
  <2>3. ExecutesIn(micro) = {} => ExecutesIn(Tail(micro)) = {}
    BY <2>1, JobTaken
  <2>4. ~BeforeExit
    BY <2>1 DEF BeforeExit
  <2>5. CASE left > 0
    <3>1. micro' = Append(Tail(micro), <<"job", left - 1>>)
      BY <1>6, <2>5 DEF RunJob
    <3>2. <<"job", left - 1>> \in Jobs /\ <<"job", left - 1>>[1] # "execute"
      BY <1>2, <2>2, <2>5 DEF Jobs
    <3>3. micro' \in Seq(Jobs) /\ ExecutesIn(micro') = ExecutesIn(Tail(micro))
      BY <2>2, <3>1, <3>2, JobQueued
    <3> QED
      BY <2>2, <2>3, <2>4, <3>3 DEF AtMostOne
  <2>6. CASE ~(left > 0)
    <3>1. micro' = Tail(micro)
      BY <1>6, <2>6 DEF RunJob
    <3> QED
      BY <2>2, <2>3, <2>4, <3>1
  <2> QED
    BY <2>5, <2>6
<1>7. CASE BeforeExit
  <2>1. micro # <<>> /\ Head(micro)[1] = "execute" /\ micro' = Tail(micro)
    BY <1>7 DEF BeforeExit
  <2>2. Tail(micro) \in Seq(Jobs) /\ ExecutesIn(Tail(micro)) = {}
    BY <1>1, <2>1, JobTaken
  <2> QED
    BY <2>1, <2>2 DEF AtMostOne
<1> QED
  BY <1>3, <1>4, <1>5, <1>6, <1>7, EveryJobStep DEF JobStep

\* Where execute is, and what has the stack, stay in step.
LEMMA StaysOne ==
  ASSUME micro \in Seq(Jobs), OneExecute, [Next]_vars
  PROVE  OneExecute'
<1> DEFINE Ctl(p, c, r, e) ==
      /\ p = "none" <=> c = "none"
      /\ p \in {"check", "settle"} => c = "next"
      /\ p = "job" => c = "fn"
      /\ p \in {"main", "beforeExit"} => ~r
      /\ r => e = "no"
      /\ p \in TurnPhases /\ e = "no" => r
<1>1. Ctl(phase, code, running, ended)
  BY DEF OneExecute
<1>7. BeforeExit => ~running
  <2>1. running => ExecutesIn(micro) = {}
    BY DEF OneExecute, Executes, ExecutesIn
  <2>2. BeforeExit => 1 \in ExecutesIn(micro)
    BY HeadTailProperties, EmptySeq, LenProperties DEF BeforeExit, ExecutesIn
  <2> QED
    BY <2>1, <2>2
<1>2. Ctl(phase', code', running', ended')
  <2>1. CASE UNCHANGED vars
    BY <1>1, <2>1 DEF vars, stack, status
  <2>2. CASE Guest
    BY <1>1, <2>2 DEF Guest, NextTick, Await, SetImmediate, SetTimeout, Begin, Return, Throw, Exit,
       Failed, Call, InGuest, stack, status, TurnPhases
  <2>3. CASE Turn
    BY <1>1, <2>3 DEF Turn, StartTurn, TimersPhase, FireTimer, TimersDone, StartCheck, RunImmediate,
       ImmediatesDone, SettleBusy, SettleAsleep, SettleUnsure, SettleIdle, LooksIdle,
       Task, Idle, To, Unwind, stack, status, TurnPhases
  <2>4. CASE Loop /\ ~Turn
    BY <1>1, <1>7, <2>4 DEF Loop, RunTick, Drained, StartTickCheck, TickCheckDone, StartPost,
       PostDone, HostTimer, RunJob, MainDone, BeforeExit, BeforeExitDone, Run, Task, Idle, Unwind,
       stack, status, TurnPhases
  <2>5. CASE TimePasses \/ Complete
    BY <1>1, <2>5 DEF TimePasses, Complete, stack, status
  <2> QED
    BY <2>1, <2>2, <2>3, <2>4, <2>5 DEF Next
<1>3. phase' \in {"main", "beforeExit"} => phase' = phase \/ BeforeExit
  BY DEF Next, Guest, NextTick, Await, SetImmediate, SetTimeout, Begin, Return, Throw, Exit, Failed,
     Loop, RunTick, Drained, Turn, StartTurn, TimersPhase, FireTimer, TimersDone, StartCheck,
     RunImmediate, ImmediatesDone, SettleBusy, SettleAsleep, SettleUnsure, SettleIdle,
     StartTickCheck, TickCheckDone, StartPost, PostDone, HostTimer, RunJob, MainDone,
     BeforeExitDone, To, Unwind, TimePasses, Complete, vars, stack
<1>4. running' => running \/ (phase \in {"main", "beforeExit"})
  BY DEF Next, Guest, NextTick, Await, SetImmediate, SetTimeout, Begin, Return, Throw, Exit,
     Loop, RunTick, Drained, Turn, StartTurn, TimersPhase, FireTimer, TimersDone, StartCheck,
     RunImmediate, ImmediatesDone, SettleBusy, SettleAsleep, SettleUnsure, SettleIdle,
     StartTickCheck, TickCheckDone, StartPost, PostDone, HostTimer, RunJob, MainDone,
     BeforeExit, BeforeExitDone, Run, TimePasses, Complete, vars, status
<1>5. /\ phase' \in {"main", "beforeExit"} => ExecutesIn(micro') = {}
      /\ running' => ExecutesIn(micro') = {}
  <2>1. /\ phase \in {"main", "beforeExit"} => ExecutesIn(micro) = {} /\ ~running
        /\ running => ExecutesIn(micro) = {}
    BY DEF OneExecute, Executes, ExecutesIn
  <2>2. /\ BeforeExit => ExecutesIn(micro') = {}
        /\ ExecutesIn(micro) = {} /\ ~(running /\ ~running') => ExecutesIn(micro') = {}
    BY JobsStay
  <2> QED
    BY <1>3, <1>4, <2>1, <2>2
<1>6. AtMostOne(micro')
  BY JobsStay
<1> QED
  BY <1>2, <1>5, <1>6 DEF OneExecute, Executes, ExecutesIn, AtMostOne

-----------------------------------------------------------------------------
(* Timers and immediates.                                                   *)

\* A timer in its place.
Insertion(s, k, b) == SubSeq(s, 1, k) \o <<b>> \o SubSeq(s, k + 1, Len(s))

\* A timer inserted among the others: one more, and one that counts only if it or another does.
LEMMA Inserted ==
  ASSUME NEW s \in Seq(BOOLEAN), NEW b \in BOOLEAN, NEW n \in Nat, NEW k \in 0..n,
         n = Len(s)
  PROVE  /\ Insertion(s, k, b) \in Seq(BOOLEAN) /\ Len(Insertion(s, k, b)) = n + 1
         /\ Count(Insertion(s, k, b)) > 0 => b = TRUE \/ Count(s) > 0
<1> DEFINE t == Insertion(s, k, b)
           l == SubSeq(s, 1, k)
           r == SubSeq(s, k + 1, n)
<1>1. n \in Nat /\ k \in Nat /\ k <= n /\ DOMAIN s = 1..n /\ n = Len(s)
  BY LenProperties
<1>2. /\ l \in Seq(BOOLEAN) /\ Len(l) = k
      /\ \A i \in 1..k : l[i] = s[i]
  BY <1>1, SubSeqProperties
<1>3. /\ r \in Seq(BOOLEAN) /\ Len(r) = n - k
      /\ \A i \in 1..(n - k) : r[i] = s[k + i]
  <2>1. k + 1 \in Int /\ n \in Int /\ \A i \in (k + 1)..n : s[i] \in BOOLEAN
    BY <1>1
  <2>2. /\ r \in Seq(BOOLEAN)
        /\ Len(r) = IF k + 1 <= n THEN n - (k + 1) + 1 ELSE 0
        /\ \A i \in 1..(n - (k + 1) + 1) : r[i] = s[(k + 1) + i - 1]
    BY <2>1, SubSeqProperties
  <2> HIDE DEF l, r
  <2>3. Len(r) = n - k
    <3>1. CASE ~(k < n)
      <4>1. ~(k + 1 <= n)
        BY <1>1, <3>1
      <4> QED
        <5>1. Len(r) = 0
          BY <2>2, <4>1
        <5>2. n - k = 0
          BY <1>1, <3>1
        <5> QED
          BY <5>1, <5>2
    <3>2. CASE k < n
      <4>1. k + 1 <= n
        BY <1>1, <3>2
      <4>2. Len(r) = n - (k + 1) + 1
        BY <2>2, <4>1
      <4> QED
        BY <1>1, <4>2
    <3> QED
      BY <3>1, <3>2
  <2>4. ASSUME NEW i \in 1..(n - k)
        PROVE  r[i] = s[k + i]
    <3>1. i \in 1..(n - (k + 1) + 1) /\ (k + 1) + i - 1 = k + i
      BY <1>1
    <3> QED
      BY <2>2, <3>1
  <2> QED
    BY <2>2, <2>3, <2>4
<1>8. t = (l \o <<b>>) \o r
  BY <1>1 DEF Insertion
<1> HIDE DEF t, l, r
<1>4. <<b>> \in Seq(BOOLEAN) /\ Len(<<b>>) = 1 /\ <<b>>[1] = b
  OBVIOUS
<1>5. /\ l \o <<b>> \in Seq(BOOLEAN) /\ Len(l \o <<b>>) = k + 1
      /\ \A i \in 1..(k + 1) : (l \o <<b>>)[i] = IF i <= k THEN l[i] ELSE b
  BY <1>1, <1>2, <1>4, ConcatProperties
<1>6. /\ t \in Seq(BOOLEAN) /\ Len(t) = n + 1
      /\ \A i \in 1..(n + 1) :
           t[i] = IF i <= k + 1 THEN (l \o <<b>>)[i] ELSE r[i - (k + 1)]
  BY <1>1, <1>3, <1>5, <1>8, ConcatProperties
<1>7. \A i \in 1..Len(t) : t[i] => b \/ \E j \in 1..n : s[j]
  <2> SUFFICES ASSUME NEW i \in 1..Len(t), t[i], ~b
               PROVE  \E j \in 1..n : s[j]
    OBVIOUS
  <2>1. CASE i <= k
    <3>1. i \in 1..(n + 1) /\ i \in 1..(k + 1) /\ i \in 1..k /\ i \in 1..n
      BY <1>1, <1>6, <2>1
    <3>2. t[i] = (l \o <<b>>)[i]
      <4>1. i <= k + 1
        BY <3>1
      <4> QED
        BY <1>6, <3>1, <4>1
    <3>3. t[i] = s[i]
      BY <1>2, <1>5, <2>1, <3>1, <3>2
    <3> QED
      BY <3>1, <3>3
  <2>2. CASE i = k + 1
    <3>1. i \in 1..(n + 1) /\ i \in 1..(k + 1) /\ ~(i <= k) /\ i <= k + 1
      BY <1>1, <2>2
    <3> QED
      BY <1>5, <1>6, <3>1
  <2>3. CASE i > k + 1
    <3>1. i - (k + 1) \in 1..(n - k) /\ t[i] = r[i - (k + 1)]
      <4>1. i \in 1..(n + 1) /\ ~(i <= k + 1)
        BY <1>1, <1>6, <2>3
      <4>2. t[i] = r[i - (k + 1)]
        BY <1>6, <4>1
      <4>3. i - (k + 1) \in 1..(n - k)
        BY <1>1, <4>1
      <4> QED
        BY <4>2, <4>3
    <3>2. t[i] = s[k + (i - (k + 1))]
      BY <1>3, <3>1
    <3>3. k + (i - (k + 1)) \in 1..n
      BY <1>1, <3>1
    <3> QED
      BY <3>2, <3>3
  <2> QED
    BY <1>1, <2>1, <2>2, <2>3
<1> QED
  BY <1>1, <1>6, <1>7, CountPositive DEF t

\* A flag that is taken from the front.
LEMMA FirstTaken ==
  ASSUME NEW s \in Seq(BOOLEAN), s # <<>>
  PROVE  /\ Tail(s) \in Seq(BOOLEAN) /\ Len(Tail(s)) = Len(s) - 1 /\ Len(s) \in Nat \ {0}
         /\ Count(Tail(s)) > 0 => Count(s) > 0
<1>1. /\ Tail(s) \in Seq(BOOLEAN) /\ Len(Tail(s)) = Len(s) - 1 /\ Len(s) \in Nat \ {0}
      /\ \A i \in 1..Len(Tail(s)) : Tail(s)[i] = s[i + 1]
  BY HeadTailProperties, EmptySeq, LenProperties
<1>2. \A i \in 1..Len(Tail(s)) : i + 1 \in 1..Len(s)
  BY <1>1
<1> QED
  BY <1>1, <1>2, CountPositive

\* What is kept of them: how many are due or taken, and that the deadline is
\* set, and counts, for as long as there is a timer it should count for.
ClockOk ==
  /\ timers \in Seq(BOOLEAN) /\ due \in 0..Len(timers)
  /\ armed \in BOOLEAN /\ deadline \in BOOLEAN /\ timerRefed \in BOOLEAN
  /\ deadline => timers # <<>>
  /\ ended = "no" /\ phase # "timers" /\ timers # <<>> => deadline
  /\ phase = "timers" /\ deadline => due < Len(timers)
  /\ Count(timers) > 0 => timerRefed

\* No step leaves a timer without its deadline.
LEMMA ClockStays ==
  ASSUME ClockOk, OneExecute, [Next]_vars
  PROVE  ClockOk'
<1>1. Len(timers) \in Nat /\ due \in Nat /\ due <= Len(timers) /\ (timers = <<>> <=> Len(timers) = 0)
  BY LenProperties, EmptySeq DEF ClockOk
<1>2. CASE UNCHANGED <<clock, phase, ended>>
  BY <1>2 DEF ClockOk, clock, Count
<1>3. CASE SetTimeout
  <2>1. PICK refed \in BOOLEAN, first \in BOOLEAN :
          LET schedule == first \/ timers = <<>> \/ (phase = "timers" /\ ~deadline)
              place == IF first THEN due ELSE Len(timers)
          IN /\ timers' = Insertion(timers, place, refed)
             /\ deadline' = (deadline \/ schedule)
             /\ armed' = (armed \/ schedule)
             /\ \/ timerRefed' = IF Count(timers) > 0 THEN timerRefed ELSE refed
                \/ timerRefed /\ timerRefed' = timerRefed
    BY <1>3 DEF SetTimeout, Insertion
  <2>2. PICK k \in 0..Len(timers) : timers' = Insertion(timers, k, refed)
    BY <1>1, <2>1
  <2>3. /\ timers' \in Seq(BOOLEAN) /\ Len(timers') = Len(timers) + 1
        /\ Count(timers') > 0 => refed \/ Count(timers) > 0
    <3>1. timers \in Seq(BOOLEAN)
      BY DEF ClockOk
    <3>2. /\ Insertion(timers, k, refed) \in Seq(BOOLEAN)
          /\ Len(Insertion(timers, k, refed)) = Len(timers) + 1
          /\ Count(Insertion(timers, k, refed)) > 0 => refed = TRUE \/ Count(timers) > 0
      BY <1>1, <3>1, Inserted
    <3> QED
      BY <2>2, <3>2
  <2>4. due' = due /\ phase' = phase /\ ended' = ended
    BY <1>3 DEF SetTimeout, stack, status
  <2>5. timers' # <<>> /\ due' < Len(timers')
    BY <1>1, <2>3, <2>4, EmptySeq
  <2>6. timerRefed' \in BOOLEAN /\ (Count(timers') > 0 => timerRefed')
    BY <2>1, <2>3 DEF ClockOk
  <2>7. /\ armed' \in BOOLEAN /\ deadline' \in BOOLEAN
        /\ ended' = "no" /\ phase' # "timers" => deadline'
    BY <2>1, <2>4 DEF ClockOk
  <2>8. timers' \in Seq(BOOLEAN) /\ due' \in 0..Len(timers')
    BY <1>1, <2>3, <2>4
  <2> QED
    BY <2>5, <2>6, <2>7, <2>8 DEF ClockOk, Count
<1>4. CASE Exit
  BY <1>4 DEF Exit, Failed, ClockOk, Count
<1>5. CASE FireTimer
  <2>1. /\ timers' = Tail(timers) /\ due' = due - 1 /\ due > 0 /\ phase = "timers"
        /\ UNCHANGED <<phase, ended, armed, deadline, timerRefed>>
    BY <1>5 DEF FireTimer, status
  <2>2. timers # <<>>
    BY <1>1, <2>1
  <2>3. /\ timers' \in Seq(BOOLEAN) /\ Len(timers') = Len(timers) - 1
        /\ Count(timers') > 0 => Count(timers) > 0
    BY <2>1, <2>2, FirstTaken DEF ClockOk
  <2>4. due' \in 0..Len(timers') /\ (deadline => due' < Len(timers'))
    BY <1>1, <2>1, <2>3 DEF ClockOk
  <2>5. deadline => timers' # <<>>
    BY <2>3, <2>4, EmptySeq
  <2> QED
    BY <2>1, <2>3, <2>4, <2>5 DEF ClockOk, Count
<1>6. CASE TimersDone
  <2>1. phase = "timers" /\ UNCHANGED <<timers, due, running, ended>> /\ (ended = "no" => running)
    BY <1>6 DEF TimersDone, clock, status, OneExecute, TurnPhases
  <2>2. CASE running /\ hasTick
    BY <1>6, <2>1, <2>2, <1>2 DEF TimersDone
  <2>3. CASE ~(running /\ hasTick)
    <3>1. /\ phase' = "check" /\ armed' = deadline'
          /\ IF running /\ timers # <<>>
             THEN deadline' = TRUE /\ timerRefed' = (Count(timers) > 0)
             ELSE UNCHANGED <<deadline, timerRefed>>
      BY <1>6, <2>3 DEF TimersDone, To
    <3>2. CASE running /\ timers # <<>>
      <4>1. /\ deadline' = TRUE /\ armed' = TRUE /\ timerRefed' \in BOOLEAN
            /\ Count(timers) > 0 => timerRefed'
        <5>1. deadline' = TRUE /\ armed' = TRUE
          BY <3>1, <3>2
        <5>2. timerRefed' = (Count(timers) > 0)
          BY <3>1, <3>2
        <5>3. (Count(timers) > 0) \in BOOLEAN
          OBVIOUS
        <5>4. timerRefed' \in BOOLEAN
          BY <5>2, <5>3, Zenon
        <5>5. Count(timers) > 0 => timerRefed'
          BY <5>2, Zenon
        <5> QED
          BY <5>1, <5>4, <5>5
      <4> QED
        BY <2>1, <3>1, <3>2, <4>1 DEF ClockOk, Count
    <3>3. CASE ~(running /\ timers # <<>>)
      <4>1. UNCHANGED <<deadline, timerRefed>> /\ armed' = deadline
        BY <3>1, <3>3
      <4> QED
        BY <2>1, <3>1, <3>3, <4>1 DEF ClockOk, Count
    <3> QED
      BY <3>2, <3>3
  <2> QED
    BY <2>2, <2>3
<1>7. CASE TimersPhase
  BY <1>7 DEF TimersPhase, To, ClockOk, Count, status
<1>8. CASE SettleAsleep
  BY <1>8 DEF SettleAsleep, Unwind, ClockOk, Count, status
<1>9. CASE SettleIdle
  BY <1>9 DEF SettleIdle, LooksIdle, Unwind, ClockOk, Count
<1>10. CASE HostTimer
  BY <1>10 DEF HostTimer, ClockOk, Count, stack, status
<1>11. CASE BeforeExitDone
  <2>1. phase = "beforeExit" /\ phase' = "none" /\ UNCHANGED <<timers, due, timerRefed>>
    BY <1>11 DEF BeforeExitDone, Unwind
  <2>2. \/ UNCHANGED <<ended, deadline, armed>>
        \/ ended' # "no" /\ deadline' = FALSE /\ armed' = FALSE
    BY <1>11 DEF BeforeExitDone
  <2>3. CASE UNCHANGED <<ended, deadline, armed>>
    BY <2>1, <2>3 DEF ClockOk, Count
  <2>4. CASE ended' # "no" /\ deadline' = FALSE /\ armed' = FALSE
    BY <2>1, <2>4 DEF ClockOk, Count
  <2> QED
    BY <2>2, <2>3, <2>4
<1>12. CASE TimePasses
  <2>1. due' = due + 1 /\ due < Len(timers) /\ phase # "timers"
        /\ UNCHANGED <<phase, ended, timers, armed, deadline, timerRefed>>
    BY <1>12 DEF TimePasses, Idle, stack, status
  <2> QED
    BY <1>1, <2>1 DEF ClockOk, Count
<1>13. CASE UNCHANGED <<clock, ended>> /\ phase # "timers" /\ phase' # "timers"
  BY <1>13 DEF ClockOk, clock, Count
<1>15. CASE Guest
  BY <1>2, <1>3, <1>4, <1>13, <1>15
     DEF Guest, NextTick, Await, SetImmediate, Begin, Return, Throw, Failed, stack, status
<1>16. CASE Turn
  BY <1>5, <1>6, <1>7, <1>8, <1>9, <1>13, <1>16, <1>2
     DEF Turn, StartTurn, StartCheck, RunImmediate, ImmediatesDone, SettleBusy, SettleUnsure,
         LooksIdle, Task, Idle, To, Unwind, stack, status
<1>17. CASE Loop /\ ~Turn
  BY <1>2, <1>10, <1>11, <1>13, <1>17
     DEF Loop, RunTick, Drained, StartTickCheck, TickCheckDone, StartPost, PostDone, RunJob,
         MainDone, BeforeExit, Task, Idle, Unwind, stack, status
<1>18. CASE UNCHANGED vars \/ Complete
  BY <1>2, <1>18 DEF Complete, vars, stack, status
<1> QED
  BY <1>12, <1>15, <1>16, <1>17, <1>18 DEF Next

-----------------------------------------------------------------------------
(* The shapes of the rest.                                                  *)

StackOk ==
  /\ phase \in Phases /\ code \in {"none", "fn", "tick", "drain", "next"}
  /\ ended \in {"no", "idle", "exit"} /\ rough \in Rough
FlagsOk ==
  /\ hasTick \in BOOLEAN /\ running \in BOOLEAN /\ idleArmed \in BOOLEAN
  /\ turn \in [confirming : BOOLEAN, progressed : BOOLEAN]
BatchOk == immediates \in Seq(BOOLEAN) /\ batch \in 0..Len(immediates)

\* No step leaves the phases and codes there are.
LEMMA StackStays ==
  ASSUME StackOk, [Next]_vars
  PROVE  StackOk'
<1>1. CASE UNCHANGED vars
  BY <1>1 DEF vars, stack, status, StackOk
<1>2. CASE Guest
  BY <1>2 DEF Guest, NextTick, Await, SetImmediate, SetTimeout, Begin, Return, Throw, Exit,
     Failed, stack, status, StackOk, Phases
<1>3. CASE Turn
  BY <1>3 DEF Turn, StartTurn, TimersPhase, FireTimer, TimersDone, StartCheck, RunImmediate,
     ImmediatesDone, SettleBusy, SettleAsleep, SettleUnsure, SettleIdle, To, Unwind,
     stack, status, StackOk, Phases
<1>4. CASE Loop /\ ~Turn
  BY <1>4 DEF Loop, RunTick, Drained, StartTickCheck, TickCheckDone, StartPost, PostDone,
     HostTimer, RunJob, MainDone, BeforeExit, BeforeExitDone, Unwind, stack, status, StackOk, Phases
<1>5. CASE TimePasses \/ Complete
  BY <1>5 DEF TimePasses, Complete, stack, status, StackOk
<1> QED
  BY <1>1, <1>2, <1>3, <1>4, <1>5 DEF Next

\* No step makes a flag anything but a flag.
LEMMA FlagsStay ==
  ASSUME FlagsOk, [Next]_vars
  PROVE  FlagsOk'
<1>1. CASE UNCHANGED vars
  BY <1>1 DEF vars, work, status, FlagsOk
<1>2. CASE NextTick
  BY <1>2 DEF NextTick, status, FlagsOk
<1>3. CASE Guest /\ ~NextTick
  BY <1>3 DEF Guest, Await, SetImmediate, SetTimeout, Begin, Return, Throw, Exit,
     work, status, FlagsOk
<1>4. CASE StartTurn
  <2>1. CASE ~running
    BY <1>4, <2>1 DEF StartTurn, work, FlagsOk
  <2>2. CASE running
    <3>1. /\ turn' = [confirming |-> idleArmed, progressed |-> idleArmed /\ hasTick]
          /\ idleArmed' = FALSE /\ hasTick' = hasTick /\ running' = running
      BY <1>4, <2>2 DEF StartTurn, work
    <3>2. (idleArmed /\ hasTick) \in BOOLEAN
      OBVIOUS
    <3>3. turn' \in [confirming : BOOLEAN, progressed : BOOLEAN]
      BY <3>1, <3>2 DEF FlagsOk
    <3> QED
      BY <3>1, <3>3 DEF FlagsOk
  <2> QED
    BY <2>1, <2>2
<1>5. CASE Turn /\ ~StartTurn
  BY <1>5 DEF Turn, TimersPhase, FireTimer, TimersDone, StartCheck, RunImmediate,
     ImmediatesDone, SettleBusy, SettleAsleep, SettleUnsure, SettleIdle, work, status, FlagsOk
<1>6. CASE Loop /\ ~Turn
  BY <1>6 DEF Loop, RunTick, Drained, StartTickCheck, TickCheckDone, StartPost, PostDone,
     HostTimer, RunJob, MainDone, BeforeExit, BeforeExitDone, Run, work, status, FlagsOk
<1>7. CASE TimePasses \/ Complete
  BY <1>7 DEF TimePasses, Complete, work, status, FlagsOk
<1> QED
  BY <1>1, <1>2, <1>3, <1>4, <1>5, <1>6, <1>7 DEF Next

\* No step has more immediates in its batch than there are.
LEMMA BatchStays ==
  ASSUME BatchOk, [Next]_vars
  PROVE  BatchOk'
<1>1. Len(immediates) \in Nat /\ batch \in Nat /\ batch <= Len(immediates)
  BY LenProperties DEF BatchOk
<1>2. CASE UNCHANGED <<immediates, batch>>
  BY <1>2 DEF BatchOk
<1>3. CASE SetImmediate
  <2>1. PICK refed \in BOOLEAN : immediates' = Append(immediates, refed)
    BY <1>3 DEF SetImmediate
  <2>2. immediates' \in Seq(BOOLEAN) /\ Len(immediates') = Len(immediates) + 1
    BY <2>1, AppendProperties DEF BatchOk
  <2>3. batch' = batch
    BY <1>3 DEF SetImmediate
  <2> QED
    BY <1>1, <2>2, <2>3 DEF BatchOk
<1>4. CASE StartCheck
  BY <1>1, <1>4 DEF StartCheck, BatchOk
<1>5. CASE RunImmediate
  <2>1. batch > 0 /\ batch' = batch - 1 /\ immediates' = Tail(immediates)
    BY <1>5 DEF RunImmediate
  <2>2. immediates # <<>>
    BY <1>1, <2>1, EmptySeq
  <2>3. immediates' \in Seq(BOOLEAN) /\ Len(immediates') = Len(immediates) - 1
    BY <2>1, <2>2, FirstTaken DEF BatchOk
  <2> QED
    BY <1>1, <2>1, <2>3 DEF BatchOk
<1>6. CASE Guest
  BY <1>2, <1>3, <1>6 DEF Guest, NextTick, Await, SetTimeout, Begin, Return, Throw, Exit, work
<1>7. CASE Turn
  BY <1>2, <1>4, <1>5, <1>7 DEF Turn, StartTurn, TimersPhase, FireTimer, TimersDone,
     ImmediatesDone, SettleBusy, SettleAsleep, SettleUnsure, SettleIdle, work
<1>8. CASE Loop /\ ~Turn
  BY <1>2, <1>8 DEF Loop, RunTick, Drained, StartTickCheck, TickCheckDone, StartPost, PostDone,
     HostTimer, RunJob, MainDone, BeforeExit, BeforeExitDone, work
<1>9. CASE UNCHANGED vars \/ TimePasses \/ Complete
  BY <1>2, <1>9 DEF TimePasses, Complete, vars, work
<1> QED
  BY <1>6, <1>7, <1>8, <1>9 DEF Next

-----------------------------------------------------------------------------
(* Wake-ups.                                                                *)

\* What is posted stays until it is taken.
LEMMA PostedStays ==
  ASSUME Counted, [Next]_vars
  PROVE  /\ Posted("check") => Posted("check")' \/ StartTickCheck
         /\ Posted("turn") => Posted("turn")' \/ StartTurn
<1> DEFINE Grows == \A v \in {"turn", "check"} : v \in ToSet(macro) => v \in ToSet(macro')
<1>1. Single(macro)
  BY DEF Counted
<1>2. CASE UNCHANGED macro \/ macro' = Woken(macro)
  <2>1. Grows
    BY <1>1, <1>2, WokenShape DEF Tasks
  <2> QED
    BY <2>1 DEF Posted
<1>3. CASE macro' = Checked(macro) \/ Run
  <2>1. PICK task \in {"turn", "check"} :
          macro' = IF task \in ToSet(macro) THEN macro ELSE Append(macro, task)
    BY <1>3 DEF Checked, Run, Posted
  <2>2. Grows
    BY <1>1, <2>1, PostedOnce DEF Tasks
  <2> QED
    BY <2>2 DEF Posted
<1>4. CASE (StartTurn \/ StartTickCheck) /\ macro # <<>> /\ macro' = Tail(macro)
  <2>1. \A v \in Tasks : v \in ToSet(macro) <=> v \in ToSet(macro') \/ v = Head(macro)
    BY <1>1, <1>4, TakenShape
  <2>2. (Head(macro) = "turn" /\ StartTurn) \/ (Head(macro) = "check" /\ StartTickCheck)
    BY <1>4 DEF StartTurn, StartTickCheck, Task
  <2> QED
    BY <2>1, <2>2 DEF Posted, Tasks
<1>5. CASE macro # <<>> /\ Head(macro) = "post" /\ macro' = Woken(Tail(macro))
  <2>1. /\ Single(Tail(macro))
        /\ \A v \in Tasks : v \in ToSet(macro) <=> v \in ToSet(Tail(macro)) \/ v = Head(macro)
    BY <1>1, <1>5, TakenShape
  <2>2. \A v \in Tasks : v \in ToSet(Tail(macro)) => v \in ToSet(macro')
    BY <1>5, <2>1, WokenShape
  <2>3. Grows
    BY <1>5, <2>1, <2>2 DEF Tasks
  <2> QED
    BY <2>3 DEF Posted
<1>6. CASE Complete
  <2>1. macro \in Seq(Tasks) /\ "post" \in Tasks /\ macro' = Append(macro, "post")
    BY <1>1, <1>6 DEF Single, Tasks, Complete
  <2>2. Grows
    BY <2>1, PutAtEnd
  <2> QED
    BY <2>2 DEF Posted
<1>7. CASE Begin
  BY <1>7 DEF Begin, Posted
<1> QED
  BY <1>2, <1>3, <1>4, <1>5, <1>6, <1>7, EveryTaskStep DEF TaskStep

\* What posts a check or a turn has it posted.
LEMMA PostedNow ==
  ASSUME Counted
  PROVE  /\ macro' = Woken(macro) /\ running => Posted("turn")'
         /\ macro' = Checked(macro) => Posted("check")'
         /\ Run => Posted("turn")'
         /\ StartPost /\ running => Posted("turn")'
<1>1. Single(macro)
  BY DEF Counted
<1>2. macro' = Woken(macro) /\ running => Posted("turn")'
  BY <1>1, WokenShape DEF Posted, Tasks
<1>3. macro' = Checked(macro) => Posted("check")'
  BY <1>1, PostedOnce DEF Posted, Tasks, Checked
<1>4. Run => Posted("turn")'
  BY <1>1, PostedOnce DEF Posted, Tasks, Run
<1>5. StartPost /\ running => Posted("turn")'
  <2>1. StartPost => macro # <<>> /\ macro' = Woken(Tail(macro))
    BY DEF StartPost, Task
  <2>2. StartPost => Single(Tail(macro))
    BY <1>1, <2>1, TakenShape
  <2> QED
    BY <2>1, <2>2, WokenShape DEF Posted, Tasks
<1> QED
  BY <1>2, <1>3, <1>4, <1>5

\* Where ticks that wait must have a check on the way.
Unattended(p, c) == c \in {"none", "next"} \/ p = "job"

\* Ticks are drained, or their check is posted.
LEMMA TicksStaySeen ==
  ASSUME TicksSeen, OneExecute, Counted, [Next]_vars
  PROVE  TicksSeen'
<1> SUFFICES ASSUME ~rough, ended' = "no", ticks' > 0
             PROVE  /\ Unattended(phase', code') => Posted("check")'
                    /\ ~(phase' = "beforeExit" /\ code' = "next")
  <2>1. rough' = rough
    BY DEF Next, Guest, NextTick, Await, SetImmediate, SetTimeout, Begin, Return, Throw, Exit,
       Loop, RunTick, Drained, Turn, StartTurn, TimersPhase, FireTimer, TimersDone, StartCheck,
       RunImmediate, ImmediatesDone, SettleBusy, SettleAsleep, SettleUnsure, SettleIdle,
       StartTickCheck, TickCheckDone, StartPost, PostDone, HostTimer, RunJob, MainDone,
       BeforeExit, BeforeExitDone, TimePasses, Complete, vars, status
  <2> QED
    BY <2>1 DEF TicksSeen, Unattended
<1>1. ticks \in Nat
  BY LoopAssumption DEF Counted
<1>2. CASE NextTick
  <2>1. /\ UNCHANGED <<phase, code>> /\ code \in {"fn", "tick"} /\ ended = "no"
        /\ macro' = IF ticks = 0 /\ phase = "job" THEN Checked(macro) ELSE macro
    BY <1>2 DEF NextTick, Call, InGuest, stack
  <2>2. CASE ticks = 0
    <3>1. phase = "job" => macro' = Checked(macro)
      BY <2>1, <2>2
    <3>2. phase = "job" => Posted("check")'
      BY <3>1, PostedNow
    <3> QED
      BY <2>1, <3>2 DEF Unattended
  <2>3. CASE ticks # 0
    <3>1. ticks > 0 /\ macro' = macro
      BY <1>1, <2>1, <2>3
    <3>2. phase = "job" => Posted("check")
      BY <2>1, <3>1 DEF TicksSeen
    <3> QED
      BY <2>1, <3>1, <3>2 DEF Unattended, Posted
  <2> QED
    BY <2>2, <2>3
<1>3. CASE StartTickCheck
  BY <1>3 DEF StartTickCheck, Unattended
<1>4. ASSUME ended = "no", ticks > 0, ~StartTickCheck,
             Unattended(phase', code') => Unattended(phase, code),
             phase' = "beforeExit" /\ code' = "next" => phase = "beforeExit" /\ code = "next"
      PROVE  /\ Unattended(phase', code') => Posted("check")'
             /\ ~(phase' = "beforeExit" /\ code' = "next")
  <2>1. Unattended(phase, code) => Posted("check")
    BY <1>4 DEF TicksSeen, Unattended
  <2>2. Posted("check") => Posted("check")'
    BY <1>4, PostedStays
  <2>3. ~(phase = "beforeExit" /\ code = "next")
    BY <1>4 DEF TicksSeen
  <2> QED
    BY <1>4, <2>1, <2>2, <2>3
<1>5. CASE UNCHANGED vars \/ TimePasses \/ Complete
  <2>1. UNCHANGED <<phase, code, ended, ticks>>
    BY <1>5 DEF TimePasses, Complete, vars, stack, status, work
  <2>2. ~StartTickCheck
    BY <1>5, <2>1 DEF StartTickCheck, OneExecute, Task, Idle
  <2> QED
    BY <1>4, <2>1, <2>2
<1>6. CASE Guest /\ ~NextTick
  <2>1. ended = "no" /\ ticks' = ticks
    BY <1>6 DEF Guest, Await, SetImmediate, SetTimeout, Begin, Return, Throw, Exit, work, status
  <2>2. Unattended(phase', code') => Unattended(phase, code)
    BY <1>6 DEF Guest, Await, SetImmediate, SetTimeout, Begin, Return, Throw, Exit, stack, Unattended
  <2>3. ~(phase' = "beforeExit" /\ code' = "next")
    BY <1>6 DEF Guest, Await, SetImmediate, SetTimeout, Begin, Return, Throw, Exit, InGuest, Call, stack
  <2>4. ~StartTickCheck
    BY <1>6 DEF Guest, Await, SetImmediate, SetTimeout, Begin, Return, Throw, Exit,
       InGuest, Call, StartTickCheck, Task, Idle, OneExecute
  <2> QED
    BY <1>4, <2>1, <2>2, <2>3, <2>4
<1>7. CASE RunTick
  <2>1. code' = "tick" /\ phase' = phase /\ code = "drain"
    BY <1>7 DEF RunTick
  <2> QED
    BY <2>1 DEF Unattended, OneExecute
<1>8. CASE Drained
  BY <1>1, <1>8 DEF Drained
<1>9. CASE Turn
  <2>1. ended = "no" /\ ticks' = ticks
    BY <1>9 DEF Turn, StartTurn, TimersPhase, FireTimer, TimersDone, StartCheck, RunImmediate,
       ImmediatesDone, SettleBusy, SettleAsleep, SettleUnsure, SettleIdle, work, status
  <2>2. Unattended(phase', code') => Unattended(phase, code)
    BY <1>9 DEF Turn, StartTurn, TimersPhase, FireTimer, TimersDone, StartCheck, RunImmediate,
       ImmediatesDone, SettleBusy, SettleAsleep, SettleUnsure, SettleIdle, LooksIdle, To, Unwind,
       stack, Unattended, OneExecute, Task, Idle
  <2>3. ~(phase' = "beforeExit" /\ code' = "next")
    BY <1>9 DEF Turn, StartTurn, TimersPhase, FireTimer, TimersDone, StartCheck, RunImmediate,
       ImmediatesDone, SettleBusy, SettleAsleep, SettleUnsure, SettleIdle, LooksIdle, To, Unwind,
       stack, Task, Idle
  <2> QED
    BY <1>3, <1>4, <2>1, <2>2, <2>3
<1>10. CASE BeforeExitDone
  <2>1. phase = "beforeExit" /\ code = "next" /\ phase' = "none" /\ code' = "none" /\ ticks' = ticks
    BY <1>10 DEF BeforeExitDone, Unwind, work
  <2>2. ended = "no"
    BY <1>10 DEF BeforeExitDone
  <2> QED
    BY <2>1, <2>2 DEF TicksSeen
<1>11. CASE Loop /\ ~Turn /\ ~RunTick /\ ~Drained /\ ~BeforeExitDone
  <2>1. ended = "no" /\ ticks' = ticks
    BY <1>11 DEF Loop, StartTickCheck, TickCheckDone, StartPost, PostDone,
       HostTimer, RunJob, MainDone, BeforeExit, work, status
  <2>2. Unattended(phase', code') => Unattended(phase, code)
    BY <1>11 DEF Loop, StartTickCheck, TickCheckDone, StartPost, PostDone,
       HostTimer, RunJob, MainDone, BeforeExit, Unwind, stack, Unattended, OneExecute, Task, Idle
  <2>3. ~(phase' = "beforeExit" /\ code' = "next")
    BY <1>11 DEF Loop, StartTickCheck, TickCheckDone, StartPost, PostDone,
       HostTimer, RunJob, MainDone, BeforeExit, Unwind, stack, OneExecute, Task, Idle
  <2> QED
    BY <1>3, <1>4, <2>1, <2>2, <2>3
<1> QED
  BY <1>2, <1>5, <1>6, <1>7, <1>8, <1>9, <1>10, <1>11 DEF Next, Loop

\* A loop that runs has its next turn, or nothing but timers and handles and
\* the host's timer for the first.
Awaited ==
  running /\ phase \notin TurnPhases /\ ~Posted("turn") =>
    immediates = <<>> /\ (timers # <<>> => armed)

\* No step leaves a running loop work with neither a turn posted nor a timer armed.
LEMMA TurnStaysAwaited ==
  ASSUME Awaited, ClockOk, BatchOk, OneExecute, Counted, [Next]_vars
  PROVE  Awaited'
<1>1. CASE ~running'
  BY <1>1 DEF Awaited
<1>2. CASE phase' \in TurnPhases
  BY <1>2 DEF Awaited
<1>3. CASE Posted("turn")'
  BY <1>3 DEF Awaited
<1>4. CASE StartTurn
  <2>1. running' = running /\ (running => phase' = "confirm")
    BY <1>4 DEF StartTurn, To
  <2> QED
    BY <1>1, <1>2, <2>1 DEF TurnPhases
<1>5. ASSUME UNCHANGED <<running, immediates, timers>>, armed => armed', phase \notin TurnPhases
      PROVE  Awaited'
  <2>1. Posted("turn") => Posted("turn")' \/ StartTurn
    BY PostedStays
  <2>2. CASE ~Posted("turn")
    BY <1>5, <2>2 DEF Awaited
  <2> QED
    BY <1>3, <1>4, <2>1, <2>2
<1>6. CASE NextTick \/ Await \/ Begin \/ Return \/ Throw
  <2>1. UNCHANGED <<running, immediates, timers, armed>>
    BY <1>6 DEF NextTick, Await, Begin, Return, Throw, status, work, clock
  <2>2. phase \in TurnPhases => phase' \in TurnPhases
    BY <1>6 DEF NextTick, Await, Begin, Return, Throw, Failed, stack, TurnPhases
  <2> QED
    BY <1>2, <1>5, <2>1, <2>2
<1>7. CASE SetImmediate
  <2>1. /\ UNCHANGED <<phase, running, timers, armed>>
        /\ macro' = IF Count(immediates) = 0 THEN Woken(macro) ELSE macro
    BY <1>7 DEF SetImmediate, stack, status, clock
  <2>2. CASE Count(immediates) = 0 /\ running
    BY <1>3, <2>1, <2>2, PostedNow
  <2>3. CASE Count(immediates) # 0
    <3>1. macro' = macro /\ immediates # <<>>
      <4>1. Count(immediates) > 0
        BY <2>3, CountPositive DEF BatchOk
      <4>2. immediates # <<>>
        BY <4>1, CountPositive DEF BatchOk
      <4> QED
        BY <2>1, <2>3, <4>2
    <3> QED
      BY <2>1, <3>1 DEF Awaited, Posted
  <2> QED
    BY <1>1, <2>1, <2>2, <2>3
<1>8. CASE SetTimeout
  <2>1. /\ UNCHANGED <<phase, running, immediates>> /\ (armed => armed')
        /\ \/ macro' = IF Count(timers) = 0 THEN Woken(macro) ELSE macro
           \/ phase \in TurnPhases
    BY <1>8 DEF SetTimeout, stack, status, work, TurnPhases
  <2>2. CASE Count(timers) = 0 /\ running /\ phase \notin TurnPhases
    BY <1>3, <2>1, <2>2, PostedNow
  <2>3. CASE phase \in TurnPhases
    BY <1>2, <2>1, <2>3
  <2>4. CASE Count(timers) # 0 /\ phase \notin TurnPhases
    <3>1. macro' = macro /\ timers # <<>>
      <4>1. Count(timers) > 0
        BY <2>4, CountPositive DEF ClockOk
      <4>2. timers # <<>>
        BY <4>1, CountPositive DEF ClockOk
      <4> QED
        BY <2>1, <2>4, <4>2
    <3> QED
      BY <2>1, <3>1 DEF Awaited, Posted
  <2> QED
    BY <1>1, <2>1, <2>2, <2>3, <2>4
<1>9. CASE Exit
  BY <1>1, <1>9 DEF Exit
<1>10. CASE TimersPhase \/ FireTimer \/ TimersDone \/ StartCheck \/ RunImmediate \/ ImmediatesDone
  BY <1>2, <1>10 DEF TimersPhase, FireTimer, TimersDone, StartCheck, RunImmediate,
     ImmediatesDone, To, TurnPhases
<1>11. CASE SettleBusy \/ SettleUnsure \/ TickCheckDone \/ HostTimer \/ StartPost
  <2>1. running' = running
    BY <1>11 DEF SettleBusy, SettleUnsure, TickCheckDone, HostTimer, StartPost, status
  <2>2. macro' = Woken(macro) \/ StartPost
    BY <1>11 DEF SettleBusy, SettleUnsure, TickCheckDone, HostTimer
  <2> QED
    BY <1>1, <1>3, <2>1, <2>2, PostedNow
<1>12. CASE SettleAsleep
  <2>1. /\ phase = "settle" /\ UNCHANGED <<running, immediates, timers, ended>> /\ immediates = <<>>
        /\ armed' = (armed \/ deadline)
    BY <1>12 DEF SettleAsleep, work, status
  <2>2. running /\ timers # <<>> => deadline
    BY <2>1 DEF ClockOk, OneExecute
  <2> QED
    BY <2>1, <2>2 DEF Awaited
<1>13. CASE SettleIdle
  BY <1>1, <1>13 DEF SettleIdle
<1>14. CASE MainDone \/ BeforeExitDone
  <2>1. ~running
    BY <1>14 DEF MainDone, BeforeExitDone, OneExecute
  <2>2. Run \/ running' = running
    BY <1>14 DEF MainDone, BeforeExitDone
  <2> QED
    BY <1>1, <1>3, <2>1, <2>2, PostedNow
<1>15. CASE RunTick \/ Drained
  <2>1. UNCHANGED <<phase, running, immediates, timers, armed>>
    BY <1>15 DEF RunTick, Drained, status, clock
  <2> QED
    BY <1>2, <1>5, <2>1
<1>16. CASE StartTickCheck \/ PostDone \/ RunJob \/ BeforeExit
  <2>1. UNCHANGED <<running, immediates, timers, armed>> /\ phase \notin TurnPhases
    BY <1>16 DEF StartTickCheck, PostDone, RunJob, BeforeExit, Task, Idle, TurnPhases,
       status, work, clock
  <2> QED
    BY <1>5, <2>1
<1>17. CASE UNCHANGED vars \/ TimePasses \/ Complete
  <2>1. UNCHANGED <<phase, running, immediates, timers, armed>>
    BY <1>17 DEF TimePasses, Complete, vars, stack, status, work, clock
  <2> QED
    BY <1>2, <1>5, <2>1
<1> QED
  BY <1>4, <1>6, <1>7, <1>8, <1>9, <1>10, <1>11, <1>12, <1>13, <1>14, <1>15, <1>16, <1>17
     DEF Next, Guest, Loop, Turn

-----------------------------------------------------------------------------
(* The invariant.                                                           *)

LoopInv ==
  /\ Counted /\ micro \in Seq(Jobs) /\ OneExecute /\ ClockOk
  /\ StackOk /\ FlagsOk /\ BatchOk /\ TicksSeen /\ Awaited

\* The inductive invariant.
LEMMA LoopInvHolds == Spec => []LoopInv
<1>1. ASSUME Init PROVE LoopInv
  <2>1. macro = <<>> /\ micro = <<>> /\ timers = <<>> /\ immediates = <<>>
    BY <1>1 DEF Init
  <2>2. \A v : At(<<>>, v) = {}
    BY DEF At
  <2>3. Single(macro) /\ Posts(macro) = 0
    <3>1. Cardinality({}) = 0
      BY FS_EmptySet
    <3>2. \A v : Cardinality(At(macro, v)) = 0
      BY <2>1, <2>2, <3>1
    <3>3. macro \in Seq(Tasks)
      BY <2>1
    <3> QED
      BY <3>2, <3>3 DEF Single, Posts
  <2>4. Counted
    BY <1>1, <2>3, LoopAssumption DEF Init, Counted
  <2>5. micro \in Seq(Jobs) /\ OneExecute
    BY <1>1 DEF Init, OneExecute, Executes, TurnPhases
  <2>6. ClockOk
    <3>1. timers \in Seq(BOOLEAN) /\ Len(timers) = 0
      BY <2>1
    <3>2. ~(Count(timers) > 0)
      BY <2>1, <3>1, CountPositive
    <3>3. due = 0 /\ due \in 0..Len(timers)
      BY <1>1, <3>1 DEF Init
    <3>4. armed \in BOOLEAN /\ timerRefed \in BOOLEAN /\ deadline \in BOOLEAN /\ ~deadline
      BY <1>1 DEF Init
    <3> QED
      BY <2>1, <3>1, <3>2, <3>3, <3>4 DEF ClockOk
  <2>7. StackOk /\ FlagsOk /\ BatchOk
    <3>1. immediates \in Seq(BOOLEAN) /\ Len(immediates) = 0 /\ batch = 0
      BY <1>1 DEF Init
    <3>2. turn \in [confirming : BOOLEAN, progressed : BOOLEAN]
      BY <1>1 DEF Init
    <3>3. BatchOk
      BY <3>1 DEF BatchOk
    <3>4. FlagsOk
      BY <1>1, <3>2 DEF Init, FlagsOk
    <3>5. StackOk
      BY <1>1 DEF Init, StackOk, Phases
    <3> QED
      BY <3>3, <3>4, <3>5
  <2>8. TicksSeen /\ Awaited
    BY <1>1 DEF Init, TicksSeen, Awaited
  <2> QED
    BY <2>4, <2>5, <2>6, <2>7, <2>8 DEF LoopInv
<1>2. ASSUME LoopInv, [Next]_vars PROVE LoopInv'
  <2>1. Counted' /\ OneExecute' /\ ClockOk'
    BY <1>2, StaysCounted, StaysOne, ClockStays DEF LoopInv
  <2>2. micro' \in Seq(Jobs)
    BY <1>2, JobsStay DEF LoopInv
  <2>3. StackOk' /\ FlagsOk' /\ BatchOk'
    BY <1>2, StackStays, FlagsStay, BatchStays DEF LoopInv
  <2>4. TicksSeen' /\ Awaited'
    BY <1>2, TicksStaySeen, TurnStaysAwaited DEF LoopInv
  <2> QED
    BY <2>1, <2>2, <2>3, <2>4 DEF LoopInv
<1> QED
  BY <1>1, <1>2, PTL DEF Spec

-----------------------------------------------------------------------------
(* The theorems.                                                            *)

\* Types and bounds: never two turns or two tick checks posted, never a
\* completion without the handle it lets go of, never a batch of more
\* immediates than there are, no deadline without a timer.
THEOREM LoopTypeCorrect == Spec => []TypeOK
<1>1. ASSUME LoopInv PROVE TypeOK
  <2>1. /\ Single(macro) /\ Posts(macro) <= refs
        /\ refs \in 0..ops /\ ticks \in 0..ops /\ ops \in 0..MaxOps
    BY <1>1 DEF LoopInv, Counted
  <2>2. /\ macro \in Seq({"turn", "check", "post"})
        /\ \A task \in {"turn", "check"} : Cardinality({i \in DOMAIN macro : macro[i] = task}) <= 1
        /\ Completions <= refs
    BY <2>1 DEF Single, Posts, Tasks, At, Completions
  <2>3. micro \in Seq({"job", "execute"} \X (0..MaxChain))
    BY <1>1 DEF LoopInv, Jobs
  <2>4. {armed, deadline, timerRefed, hasTick, running, idleArmed} \subseteq BOOLEAN
    BY <1>1 DEF LoopInv, ClockOk, FlagsOk
  <2>5. timers \in Seq(BOOLEAN) /\ due \in 0..Len(timers) /\ (deadline => timers # <<>>)
    BY <1>1 DEF LoopInv, ClockOk
  <2>6. /\ phase \in Phases /\ code \in {"none", "fn", "tick", "drain", "next"}
        /\ ended \in {"no", "idle", "exit"} /\ rough \in Rough
        /\ turn \in [confirming : BOOLEAN, progressed : BOOLEAN]
        /\ immediates \in Seq(BOOLEAN) /\ batch \in 0..Len(immediates)
    BY <1>1 DEF LoopInv, StackOk, FlagsOk, BatchOk
  <2> QED
    BY <2>1, <2>2, <2>3, <2>4, <2>5, <2>6 DEF TypeOK
<1> QED
  BY <1>1, LoopInvHolds, PTL

\* Whatever waits while the thread is elsewhere has its wake-up on the way:
\* ticks their check, immediates a turn, timers a turn or the host's timer.
THEOREM WakeUpsAreOnTheirWay == Spec => []WakeIsOnItsWay
<1>1. ASSUME LoopInv PROVE WakeIsOnItsWay
  <2> SUFFICES ASSUME phase = "none"
               PROVE  /\ ticks > 0 /\ ended = "no" /\ ~rough => Posted("check")
                      /\ running /\ ~Posted("turn") =>
                           immediates = <<>> /\ (timers # <<>> => armed /\ deadline)
    BY DEF WakeIsOnItsWay
  <2>1. ticks > 0 /\ ended = "no" /\ ~rough => Posted("check")
    BY <1>1 DEF LoopInv, TicksSeen, OneExecute
  <2>2. running /\ ~Posted("turn") => immediates = <<>> /\ (timers # <<>> => armed)
    BY <1>1 DEF LoopInv, Awaited, TurnPhases
  <2>3. running /\ timers # <<>> => deadline
    BY <1>1 DEF LoopInv, ClockOk, OneExecute
  <2> QED
    BY <2>1, <2>2, <2>3
<1> QED
  BY <1>1, LoopInvHolds, PTL

\* A process ends by itself only with no tick, no handle, and no immediate or
\* timer that is ref'd, whatever its last callbacks began.
THEOREM EndsOnlyIdle == Spec => EndsIdle
<1>1. ASSUME LoopInv, [Next]_vars, ended = "no", ended' = "idle"
      PROVE  /\ Count(immediates) = 0 /\ Count(timers) = 0 /\ refs = 0
             /\ ticks = 0 \/ rough
  <2>1. BeforeExitDone /\ ~Alive
    BY <1>1 DEF Next, Guest, NextTick, Await, SetImmediate, SetTimeout, Begin, Return, Throw, Exit,
       Loop, RunTick, Drained, Turn, StartTurn, TimersPhase, FireTimer, TimersDone, StartCheck,
       RunImmediate, ImmediatesDone, SettleBusy, SettleAsleep, SettleUnsure, SettleIdle,
       StartTickCheck, TickCheckDone, StartPost, PostDone, HostTimer, RunJob, MainDone,
       BeforeExit, BeforeExitDone, TimePasses, Complete, vars, status
  <2>2. phase = "beforeExit" /\ code = "next"
    BY <2>1 DEF BeforeExitDone
  <2>3. Count(immediates) = 0 /\ refs = 0
    <3>1. Count(immediates) \in Nat /\ refs \in Nat
      BY <1>1, CountPositive, LoopAssumption DEF LoopInv, BatchOk, Counted
    <3> QED
      BY <2>1, <3>1 DEF Alive
  <2>4. Count(timers) = 0
    <3>1. Count(timers) \in Nat /\ (Count(timers) > 0 => timers # <<>>)
      BY <1>1, CountPositive DEF LoopInv, ClockOk
    <3>2. Count(timers) > 0 => deadline /\ timerRefed
      BY <1>1, <2>2, <3>1 DEF LoopInv, ClockOk
    <3> QED
      BY <2>1, <3>1, <3>2 DEF Alive
  <2>5. ticks = 0 \/ rough
    <3>1. ticks \in Nat /\ (ticks > 0 => rough)
      BY <1>1, <2>2, LoopAssumption DEF LoopInv, Counted, TicksSeen
    <3> QED
      BY <3>1
  <2> QED
    BY <2>3, <2>4, <2>5
<1>2. LoopInv /\ [Next]_vars =>
        [ended = "no" /\ ended' = "idle" =>
           /\ Count(immediates) = 0 /\ Count(timers) = 0 /\ refs = 0
           /\ ticks = 0 \/ rough]_vars
  BY <1>1
<1> QED
  BY <1>2, LoopInvHolds, PTL DEF Spec, EndsIdle
=============================================================================
