----------------------------- MODULE EventLoop -----------------------------
(***************************************************************************)
(* The event loop of a process (runtime/eventLoop.ts), the part of Node's  *)
(* library that decides what it runs (timers.js, task_queues.js), and the  *)
(* life of the process around it (execute and finish in runtime.ts).       *)
(*                                                                         *)
(* One thread.  The browser runs a macrotask to its end, then every        *)
(* promise job there is, then the next macrotask.  Guest code is made of   *)
(* steps of the calls that leave work behind; it may do any of them, in    *)
(* any order, whenever it has the thread.                                  *)
(***************************************************************************)
EXTENDS Naturals, Sequences, FiniteSets, SequencesExt

CONSTANTS MaxOps,   \* bound: calls guests make, all together
          MaxChain, \* bound: promise jobs one await chain goes through
          Rough     \* workloads: may guests throw, with a handler for it?

ASSUME LoopAssumption == MaxOps \in Nat /\ MaxChain \in Nat \ {0} /\ Rough \subseteq BOOLEAN

VARIABLES
  phase,      \* the callback on the stack: none, or why it was called
  code,       \* what runs in it: guest code, a tick, or the loop's own steps
  macro,      \* macrotasks posted: a turn, a tick check, a completion
  micro,      \* promise jobs, with the jobs still to come in their chain
  armed,      \* cancelTimer: the host's timer is set
  timers,     \* pending timers in the order of expiry: are they ref'd?
  due,        \* how many of them are due
  deadline,   \* timerDeadline # null
  timerRefed, \* timerRefed
  immediates, \* pending immediates: are they ref'd?
  batch,      \* of these, how many this check phase, or a failed one, has taken
  ticks,      \* length of the nextTick queue
  hasTick,    \* tickInfo[kHasTickScheduled]
  refs,       \* handles and requests that keep the loop alive
  running,    \* running
  idleArmed,  \* idleArmed
  turn,       \* turn()'s locals: confirming and progressed
  ended,      \* how the process ended, if it did: idle or exit
  rough,      \* the workload: guests throw
  ops         \* guest calls so far

stack == <<phase, code>>
clock == <<armed, timers, due, deadline, timerRefed>>
work == <<immediates, batch, ticks, hasTick, refs>>
status == <<running, idleArmed, turn, ended, rough>>
vars == <<stack, macro, micro, clock, work, status, ops>>

Init ==
  /\ phase = "main" /\ code = "fn"
  /\ macro = <<>> /\ micro = <<>>
  /\ armed = FALSE /\ timers = <<>> /\ due = 0
  /\ deadline = FALSE /\ timerRefed = TRUE
  /\ immediates = <<>> /\ batch = 0
  /\ ticks = 0 /\ hasTick = FALSE /\ refs = 0
  /\ running = FALSE /\ idleArmed = FALSE
  /\ turn = [confirming |-> FALSE, progressed |-> FALSE]
  /\ ended = "no" /\ rough \in Rough /\ ops = 0

Count(seq) == Cardinality({i \in DOMAIN seq : seq[i]})
Posted(task) == task \in ToSet(macro)

\* Mutant: there is no pumpScheduled.
WokenAgain(m) == IF running THEN Append(m, "turn") ELSE m

\* Mutant: immediates do not count.
AliveByHandles == (deadline /\ timerRefed) \/ refs > 0

\* wake(): one turn at a time is on its way (pumpScheduled).
Woken(m) == IF running /\ "turn" \notin ToSet(m) THEN Append(m, "turn") ELSE m

Alive == \/ deadline /\ timerRefed
         \/ Count(immediates) > 0
         \/ refs > 0

-----------------------------------------------------------------------------
(* Guest code.  It runs in a callback, or in a promise job outside any.     *)

InGuest == code \in {"fn", "tick"}
Call == InGuest /\ ops < MaxOps /\ ops' = ops + 1

\* Mutant: a turn that is on its way is taken to drain them.
CheckedByTurn(m) == IF ~Posted("check") /\ ~Posted("turn") THEN Append(m, "check") ELSE m

\* scheduleTickCheck: one check at a time is on its way.
Checked(m) == IF ~Posted("check") THEN Append(m, "check") ELSE m

\* process.nextTick: raises the flag when the queue was empty; outside a
\* callback the flag posts a check.  Ignored once the process is exiting.
NextTick ==
  /\ Call
  /\ ended = "no"
  /\ ticks' = ticks + 1
  /\ hasTick' = (hasTick \/ ticks = 0)
  /\ macro' = IF ticks = 0 /\ phase = "job" THEN Checked(macro) ELSE macro
  /\ UNCHANGED <<stack, micro, clock, immediates, batch, refs, status>>

\* Code behind n awaits of what is settled.
Await ==
  /\ Call
  /\ \E n \in 0..(MaxChain - 1) : micro' = Append(micro, <<"job", n>>)
  /\ UNCHANGED <<stack, macro, clock, work, status>>

\* setImmediate, unref'd or not: the first that is ref'd toggles, which wakes.
SetImmediate ==
  /\ Call
  /\ \E refed \in BOOLEAN : immediates' = Append(immediates, refed)
  /\ macro' = IF Count(immediates) = 0 THEN Woken(macro) ELSE macro
  /\ UNCHANGED <<stack, micro, clock, batch, ticks, hasTick, refs, status>>

\* insert: a timer that expires before all others, or while processTimers
\* has none on record, is scheduled; incRefCount toggles at the first.  A ref'd
\* timer that fires is counted until its callback is over (timers.js:617-624).
SetTimeout ==
  /\ Call
  /\ \E refed \in BOOLEAN, first \in BOOLEAN :
       LET schedule == first \/ timers = <<>> \/ (phase = "timers" /\ ~deadline)
           place == IF first THEN due ELSE Len(timers)
       IN /\ timers' = SubSeq(timers, 1, place) \o <<refed>> \o SubSeq(timers, place + 1, Len(timers))
          /\ deadline' = (deadline \/ schedule)
          /\ armed' = (armed \/ schedule)
          /\ \/ /\ timerRefed' = IF Count(timers) > 0 THEN timerRefed ELSE refed
                /\ macro' = IF Count(timers) = 0 THEN Woken(macro) ELSE macro
             \/ /\ phase = "timers" /\ code = "fn" /\ timerRefed
                /\ UNCHANGED <<timerRefed, macro>>
  /\ UNCHANGED <<stack, micro, due, work, status>>

\* An operation that keeps the loop alive until its completion is posted.
Begin ==
  /\ Call
  /\ refs' = refs + 1
  /\ UNCHANGED <<stack, macro, micro, clock, immediates, batch, ticks, hasTick, status>>

\* Guest code returns to what called it: ticks are drained before the loop
\* goes on, and jobs belong to no callback.
Return ==
  /\ InGuest
  /\ IF phase = "job" THEN phase' = "none" /\ code' = "none"
     ELSE code' = "drain" /\ UNCHANGED phase
  /\ UNCHANGED <<macro, micro, clock, work, status, ops>>

\* callback(): an error skips the rest of the callback, its ticks included;
\* processImmediate leaves what it had taken for the next turn.
Failed == /\ phase' = IF phase = "immediates" THEN "settle" ELSE phase
          /\ code' = "next"

Throw ==
  /\ rough
  /\ Call
  /\ phase # "job"
  /\ Failed
  /\ UNCHANGED <<macro, micro, clock, work, status>>

\* abort() lets go of the waiter: execute goes on in a promise job.
Resolved == IF running THEN Append(micro, <<"execute", 0>>) ELSE micro

\* process.exit: throws to callback(), whose handler finishes the process.
Exit ==
  /\ Call
  /\ phase # "job" /\ ended = "no"
  /\ ended' = "exit"
  /\ running' = FALSE /\ deadline' = FALSE /\ armed' = FALSE
  /\ micro' = Resolved
  /\ Failed
  /\ UNCHANGED <<macro, timers, due, timerRefed, work, idleArmed, turn, rough>>

Guest == \/ NextTick \/ Await \/ SetImmediate \/ SetTimeout \/ Begin
         \/ Return \/ Throw \/ Exit

-----------------------------------------------------------------------------
(* What a callback does when guest code is not running.                     *)

\* processTicksAndRejections, by drainTicks or runNextTicks.
RunTick ==
  /\ code = "drain" /\ hasTick /\ ticks > 0
  /\ ticks' = ticks - 1
  /\ code' = "tick"
  /\ UNCHANGED <<phase, macro, micro, clock, immediates, batch, hasTick, refs, status, ops>>

Drained ==
  /\ code = "drain" /\ ticks = 0
  /\ hasTick' = FALSE
  /\ code' = "next"
  /\ UNCHANGED <<phase, macro, micro, clock, immediates, batch, ticks, refs, status, ops>>

To(p) == phase' = p /\ code' = "next"
Unwind == phase' = "none" /\ code' = "none"

\* listOnTimeout: the next timer that is due.  A loop that was aborted has
\* left processTimers by the error that aborted it.
FireTimer ==
  /\ phase = "timers" /\ code = "next"
  /\ due > 0 /\ running
  /\ code' = "fn"
  /\ due' = due - 1
  /\ timers' = Tail(timers)
  /\ UNCHANGED <<phase, macro, micro, armed, deadline, timerRefed, work, status, ops>>

\* processTimers returns when to come back, negative for unref'd timers; a
\* call that an error cut short is made again.
TimersDone ==
  /\ phase = "timers" /\ code = "next"
  /\ due = 0 \/ ~running
  /\ IF running /\ hasTick
     THEN code' = "drain" /\ UNCHANGED <<phase, clock>>
     ELSE /\ To("check")
          /\ IF running /\ timers # <<>>
             THEN deadline' = TRUE /\ timerRefed' = (Count(timers) > 0)
             ELSE UNCHANGED <<deadline, timerRefed>>
          /\ armed' = deadline'
          /\ UNCHANGED <<timers, due>>
  /\ UNCHANGED <<macro, micro, work, status, ops>>

\* The check phase takes what there is now, or what an error left behind.
StartCheck ==
  /\ phase = "check"
  /\ IF immediates = <<>> THEN To("settle") /\ UNCHANGED batch
     ELSE To("immediates") /\ batch' = IF batch = 0 THEN Len(immediates) ELSE batch
  /\ UNCHANGED <<macro, micro, clock, immediates, ticks, hasTick, refs, status, ops>>

RunImmediate ==
  /\ phase = "immediates" /\ code = "next" /\ batch > 0
  /\ code' = "fn"
  /\ immediates' = Tail(immediates)
  /\ batch' = batch - 1
  /\ UNCHANGED <<phase, macro, micro, clock, ticks, hasTick, refs, status, ops>>

ImmediatesDone ==
  /\ phase = "immediates" /\ code = "next" /\ batch = 0
  /\ To("settle")
  /\ UNCHANGED <<macro, micro, clock, work, status, ops>>

-----------------------------------------------------------------------------
(* turn().                                                                  *)

Idle == phase = "none" /\ micro = <<>>
Task(task) == Idle /\ macro # <<>> /\ Head(macro) = task

StartTurn ==
  /\ Task("turn")
  /\ macro' = Tail(macro)
  /\ IF ~running THEN UNCHANGED <<stack, idleArmed, turn>>
     ELSE /\ turn' = [confirming |-> idleArmed, progressed |-> idleArmed /\ hasTick]
          /\ idleArmed' = FALSE
          /\ IF idleArmed THEN phase' = "confirm" /\ code' = "drain" ELSE To("confirm")
  /\ UNCHANGED <<micro, clock, work, running, ended, rough, ops>>

TimersPhase ==
  /\ phase = "confirm" /\ code = "next"
  /\ IF deadline /\ due > 0 THEN To("timers") /\ deadline' = FALSE
     ELSE To("check") /\ UNCHANGED deadline
  /\ UNCHANGED <<macro, micro, armed, timers, due, timerRefed, work, status, ops>>

\* More immediates: another turn.
SettleBusy ==
  /\ phase = "settle" /\ immediates # <<>>
  /\ macro' = Woken(macro)
  /\ Unwind
  /\ UNCHANGED <<micro, clock, work, status, ops>>

\* Mutant: a deadline set long ago is taken to have its timer.
SettleAsleepOnce ==
  /\ phase = "settle" /\ immediates = <<>> /\ Alive
  /\ Unwind
  /\ UNCHANGED <<macro, micro, clock, work, status, ops>>

\* Timers and handles only: sleep.
SettleAsleep ==
  /\ phase = "settle" /\ immediates = <<>> /\ Alive
  /\ armed' = (armed \/ deadline)
  /\ Unwind
  /\ UNCHANGED <<macro, micro, timers, due, deadline, timerRefed, work, status, ops>>

LooksIdle == phase = "settle" /\ immediates = <<>> /\ ~Alive
Unsure == ~turn.confirming \/ turn.progressed \/ Posted("check")

SettleUnsure ==
  /\ LooksIdle /\ Unsure
  /\ idleArmed' = TRUE
  /\ macro' = Woken(macro)
  /\ Unwind
  /\ UNCHANGED <<micro, clock, work, running, turn, ended, rough, ops>>

SettleIdle ==
  /\ LooksIdle /\ ~Unsure
  /\ running' = FALSE /\ armed' = FALSE
  /\ micro' = Resolved
  /\ Unwind
  /\ UNCHANGED <<macro, timers, due, deadline, timerRefed, work, idleArmed, turn, ended, rough, ops>>

Turn == \/ StartTurn \/ TimersPhase \/ FireTimer \/ TimersDone
        \/ StartCheck \/ RunImmediate \/ ImmediatesDone
        \/ SettleBusy \/ SettleAsleep \/ SettleUnsure \/ SettleIdle

-----------------------------------------------------------------------------
(* The other tasks of the thread.                                           *)

\* scheduleTickCheck's macrotask.
StartTickCheck ==
  /\ Task("check")
  /\ macro' = Tail(macro)
  /\ phase' = "ticks" /\ code' = "drain"
  /\ UNCHANGED <<micro, clock, work, status, ops>>

TickCheckDone ==
  /\ phase = "ticks" /\ code = "next"
  /\ macro' = Woken(macro)
  /\ Unwind
  /\ UNCHANGED <<micro, clock, work, status, ops>>

\* A completion: post()'s callback lets go of its handle and calls back.
StartPost ==
  /\ Task("post")
  /\ refs' = refs - 1
  /\ macro' = Woken(Tail(macro))
  /\ phase' = "post" /\ code' = "fn"
  /\ UNCHANGED <<micro, clock, immediates, batch, ticks, hasTick, status, ops>>

PostDone ==
  /\ phase = "post" /\ code = "next"
  /\ Unwind
  /\ UNCHANGED <<macro, micro, clock, work, status, ops>>

\* arm()'s timer.
HostTimer ==
  /\ Idle
  /\ armed /\ due > 0
  /\ armed' = FALSE
  /\ macro' = Woken(macro)
  /\ UNCHANGED <<stack, micro, timers, due, deadline, timerRefed, work, status, ops>>

\* A promise job goes on to the next of its chain, or runs guest code.
RunJob ==
  /\ phase = "none" /\ micro # <<>> /\ Head(micro)[1] = "job"
  /\ LET left == Head(micro)[2] IN
       IF left > 0 THEN micro' = Append(Tail(micro), <<"job", left - 1>>) /\ UNCHANGED stack
       ELSE micro' = Tail(micro) /\ phase' = "job" /\ code' = "fn"
  /\ UNCHANGED <<macro, clock, work, status, ops>>

\* run(): from execute alone, with nobody waiting.
Run == /\ running' = TRUE
       /\ macro' = IF Posted("turn") THEN macro ELSE Append(macro, "turn")

MainDone ==
  /\ phase = "main" /\ code = "next"
  /\ Unwind
  /\ IF ended = "no" THEN Run ELSE UNCHANGED <<running, macro>>
  /\ UNCHANGED <<micro, clock, work, idleArmed, turn, ended, rough, ops>>

\* execute after loop.run(): emits beforeExit.
BeforeExit ==
  /\ phase = "none" /\ micro # <<>> /\ Head(micro)[1] = "execute"
  /\ micro' = Tail(micro)
  /\ IF ended = "no" THEN phase' = "beforeExit" /\ code' = "fn" ELSE UNCHANGED stack
  /\ UNCHANGED <<macro, clock, work, status, ops>>

\* The listeners left work: the loop runs again.  They did not: finish.
BeforeExitDone ==
  /\ phase = "beforeExit" /\ code = "next"
  /\ Unwind
  /\ \/ /\ ended = "no" /\ Alive
        /\ Run
        /\ UNCHANGED <<ended, deadline, armed>>
     \/ /\ ended = "no" /\ ~Alive
        /\ ended' = "idle" /\ deadline' = FALSE /\ armed' = FALSE
        /\ UNCHANGED <<running, macro>>
     \/ /\ ended # "no"
        /\ UNCHANGED <<running, macro, ended, deadline, armed>>
  /\ UNCHANGED <<micro, timers, due, timerRefed, work, idleArmed, turn, rough, ops>>

Loop == \/ RunTick \/ Drained \/ Turn
        \/ StartTickCheck \/ TickCheckDone \/ StartPost \/ PostDone \/ HostTimer
        \/ RunJob \/ MainDone \/ BeforeExit \/ BeforeExitDone

\* Time passes, and what was begun completes, while the thread is elsewhere.
TimePasses ==
  /\ Idle
  /\ due < Len(timers)
  /\ due' = due + 1
  /\ UNCHANGED <<stack, macro, micro, armed, timers, deadline, timerRefed, work, status, ops>>

Completions == Cardinality({i \in DOMAIN macro : macro[i] = "post"})

Complete ==
  /\ Idle
  /\ refs > Completions
  /\ macro' = Append(macro, "post")
  /\ UNCHANGED <<stack, micro, clock, work, status, ops>>

Next == Guest \/ Loop \/ TimePasses \/ Complete

Spec == Init /\ [][Next]_vars

\* The browser runs the thread and its timers.  Guest code returns; nothing
\* makes an operation complete: a server may wait for ever.
FairSpec == Spec /\ WF_vars(Loop) /\ WF_vars(Return) /\ WF_vars(TimePasses)

-----------------------------------------------------------------------------
(* What should be true.                                                     *)

Phases == {"none", "main", "confirm", "timers", "check", "immediates", "settle",
           "ticks", "post", "job", "beforeExit"}

\* Shapes and bounds: one turn and one tick check at a time, no completion
\* without its handle, a batch of what there is, a deadline for a timer.
TypeOK ==
  /\ phase \in Phases
  /\ code \in {"none", "fn", "tick", "drain", "next"}
  /\ macro \in Seq({"turn", "check", "post"})
  /\ \A task \in {"turn", "check"} : Cardinality({i \in DOMAIN macro : macro[i] = task}) <= 1
  /\ Completions <= refs /\ refs \in 0..ops
  /\ micro \in Seq({"job", "execute"} \X (0..MaxChain))
  /\ timers \in Seq(BOOLEAN) /\ due \in 0..Len(timers)
  /\ {armed, deadline, timerRefed, hasTick, running, idleArmed} \subseteq BOOLEAN
  /\ deadline => timers # <<>>
  /\ immediates \in Seq(BOOLEAN) /\ batch \in 0..Len(immediates)
  /\ ticks \in 0..ops
  /\ turn \in [confirming : BOOLEAN, progressed : BOOLEAN]
  /\ ended \in {"no", "idle", "exit"} /\ rough \in Rough
  /\ ops \in 0..MaxOps

\* While the thread is elsewhere, whatever waits for it has its wake-up on the
\* way: a tick its check (scheduleTickCheck, nextTick's look at the empty
\* queue, drainTicks), a timer of a running loop the host's timer or a turn,
\* and an immediate a turn (arm, wake).
WakeIsOnItsWay ==
  phase = "none" =>
    /\ ticks > 0 /\ ended = "no" /\ ~rough => Posted("check")
    /\ running /\ ~Posted("turn") =>
         /\ immediates = <<>>
         /\ timers # <<>> => armed /\ deadline

\* What these rest on.  execute is in one place: in its first task, waiting for
\* a loop that runs, as a promise job, or in its listeners.
TurnPhases == {"confirm", "timers", "check", "immediates", "settle"}
Executes == {i \in DOMAIN micro : micro[i][1] = "execute"}
OneExecute ==
  /\ phase = "none" <=> code = "none"
  /\ phase \in {"check", "settle"} => code = "next"
  /\ phase = "job" => code = "fn"
  /\ phase \in {"main", "beforeExit"} => ~running /\ Executes = {}
  /\ running => ended = "no" /\ Executes = {}
  /\ \A i, j \in Executes : i = j
  /\ phase \in TurnPhases /\ ended = "no" => running

\* Ticks are drained before a callback goes on, unless a check is to drain them.
TicksSeen ==
  ~rough /\ ended = "no" /\ ticks > 0 =>
    /\ code \in {"none", "next"} \/ phase = "job" => Posted("check")
    /\ ~(phase = "beforeExit" /\ code = "next")

\* A loop that runs and is not in its turn has it before it, or has no immediate
\* and has the host's timer for its own; the deadline is set, and counts, for as
\* long as there is a timer it should count for.
TurnOrTimer ==
  /\ running /\ phase \notin TurnPhases /\ ~Posted("turn") =>
       immediates = <<>> /\ (timers # <<>> => armed)
  /\ ended = "no" /\ phase # "timers" /\ timers # <<>> => deadline
  /\ phase = "timers" /\ deadline => due < Len(timers)
  /\ Count(timers) > 0 => timerRefed

\* A process ends by itself only with nothing left that should keep it alive:
\* no tick, no immediate or timer that is ref'd, no handle, also when they
\* were begun between the loop's last turn and the decision (execute).
EndsIdle ==
  [][ended = "no" /\ ended' = "idle" =>
       /\ Count(immediates) = 0 /\ Count(timers) = 0 /\ refs = 0
       /\ ticks = 0 \/ rough]_vars

\* What was queued runs, whatever else keeps the process alive: ticks,
\* immediates, timers, ref'd or not; and with no handle left the process ends:
\* unref'd work and what is past keep nobody (alive, toggleTimerRef, release).
LoopMakesProgress ==
  /\ []<>(\/ ended # "no"
          \/ immediates = <<>> /\ timers = <<>> /\ (ticks = 0 \/ rough))
  /\ []<>(ended # "no" \/ refs > 0)
=============================================================================
