---------------------------- MODULE TaskScheduler ----------------------------
(***************************************************************************)
(* TaskScheduler (src/src/net/TaskScheduler.{h,cpp}) with the Timer it     *)
(* owns (src/src/util/Timer.{h,cpp}, the TimerTaskMap variant).            *)
(*                                                                         *)
(* Three kinds of threads share the object.  The loop thread runs start(): *)
(* drain the trigger events, spawn the timer worker, wait for I/O, join    *)
(* the worker, over again.  The worker runs Timer::run once: it sleeps     *)
(* until the first timer is due while it holds the Timer's mutex, pops one *)
(* timer and calls it.  Clients add and remove timers, post trigger events *)
(* and stop the scheduler, under the scheduler's mutex and, inside it, the *)
(* Timer's.                                                                *)
(*                                                                         *)
(* trigger_events_ is the FIFO of EventQueue.tla, which RingBuffer.tla     *)
(* implements while fewer than kMaxTriggetEvents events are pending.  The  *)
(* I/O wait is a step that may end at any moment and always ends, because  *)
(* SelectManager::handleEvent never waits without a positive time-out.     *)
(* The wake-up pipe is left out: Pipe::write sends on a pipe's read end,   *)
(* so nothing ever wakes the wait early.                                   *)
(***************************************************************************)
EXTENDS Integers, Sequences, SequencesExt, FiniteSets

CONSTANTS Clients,        \* threads that use the scheduler
          Nobody,         \* the holder of a free mutex
          Worker,         \* the timer worker, as a holder of a mutex
          MaxTimers,      \* timers the clients construct; their ids are 1..MaxTimers
          Durations,      \* durations they ask for, in clock ticks
          Cycled,         \* subset of BOOLEAN: the values of cycled they ask for
          IdleNap,        \* the worker's sleep when there is no timer (100 ms)
          MaxLate,        \* lateness is counted up to this many ticks
          MaxTriggers     \* trigger events the clients post

ASSUME TimerAssumption == /\ MaxTimers \in Nat /\ MaxTriggers \in Nat
                          /\ Durations \subseteq Nat /\ Cycled \subseteq BOOLEAN
                          /\ IdleNap \in Nat /\ MaxLate \in Nat
ASSUME HolderAssumption == /\ Nobody \notin Clients /\ Worker \notin Clients
                           /\ Nobody # Worker

VARIABLES
  \* TaskScheduler
  running_,          \* TaskScheduler::running_
  mutex_,            \* holder of TaskScheduler::mutex_
  trigger_events_,   \* pending trigger events, as their numbers
  loop,              \* where the thread in start() stands
  \* Timer
  timer_running_,    \* Timer::running_
  timer_mutex_,      \* holder of Timer::mutex_
  worker_,           \* where the worker stands; "none": worker_ is not joinable
  tasks_,            \* ids of the queued timers, in the order of the map
  left,              \* ticks until each timer's expired_time, negative when late
  task,              \* id the worker has popped, 0 if none
  nap,               \* ticks the worker still sleeps
  \* TimerTask
  curr_timer_id,     \* the next id
  duration, cycled,  \* of each constructed timer
  \* clients
  client,            \* what each client is doing
  \* history
  posted, executed,  \* trigger events posted, and run by the loop
  called,            \* timers whose callback ran
  dropped,           \* timers popped without a call
  removed            \* timers erased by removeTimer

schedVars == <<running_, mutex_, trigger_events_, loop>>
timerVars == <<timer_running_, timer_mutex_, worker_, tasks_, left, task, nap>>
taskVars == <<curr_timer_id, duration, cycled>>
histVars == <<posted, executed, called, dropped, removed>>
vars == <<schedVars, timerVars, taskVars, client, histVars>>

Timers == 1 .. MaxTimers
Idle == [op |-> "idle", id |-> 0]

-----------------------------------------------------------------------------
(* TimerTaskMap: kept by expired_time, a new timer after those due at the  *)
(* same instant; erased and re-added when it is cycled and popped.         *)

\* data_[hash(task)] = task: the position the comparator finds.
Add(queue, t, due) ==
  LET before == Cardinality({i \in DOMAIN queue : due[queue[i]] <= due[t]})
  IN  InsertAt(queue, before + 1, t)

\* Popping leaves the first timer out, unless it is cycled: then it is set
\* to expire a duration from now and added again.
Pop(queue, due) ==
  IF cycled[Head(queue)] THEN Add(Tail(queue), Head(queue), due) ELSE Tail(queue)

\* remove(id): the entry with this id, if there is one.
Erase(queue, t) ==
  LET here == {i \in DOMAIN queue : queue[i] = t}
  IN  IF here = {} THEN queue ELSE RemoveAt(queue, CHOOSE i \in here : TRUE)

Rearmed(t, due) == IF cycled[t] THEN [due EXCEPT ![t] = duration[t]] ELSE due

\* Clock::infinity() when there is no timer.
nextTimestamp == IF left[Head(tasks_)] >= 0 THEN left[Head(tasks_)] ELSE 0

\* Mutant: a timer due this very instant has not expired.
isExpiredStrictly(t) == left[t] < 0

isExpired(t) == left[t] <= 0

-----------------------------------------------------------------------------
Init ==
  /\ running_ = FALSE /\ mutex_ = Nobody /\ trigger_events_ = <<>> /\ loop = "off"
  /\ timer_running_ = FALSE /\ timer_mutex_ = Nobody /\ worker_ = "none"
  /\ tasks_ = <<>> /\ left = [t \in Timers |-> 0] /\ task = 0 /\ nap = 0
  /\ curr_timer_id = 1
  /\ duration = [t \in Timers |-> 0] /\ cycled = [t \in Timers |-> FALSE]
  /\ client = [c \in Clients |-> Idle]
  /\ posted = 0 /\ executed = 0 /\ called = {} /\ dropped = {} /\ removed = {}

-----------------------------------------------------------------------------
(* The loop thread: TaskScheduler::start *)

LoopGoes(from, to) == loop = from /\ loop' = to

\* `if (running_) return` cannot hold: one thread calls start, once.
Start == /\ LoopGoes("off", "test")
         /\ running_' = TRUE
         /\ UNCHANGED <<mutex_, trigger_events_, timerVars, taskVars, client, histVars>>

LoopTest == /\ LoopGoes("test", IF running_ THEN "pop" ELSE "done")
            /\ UNCHANGED <<running_, mutex_, trigger_events_, timerVars, taskVars,
                           client, histVars>>

\* One round of handleTriggerEvent: pop and call, if there is an event.
TriggerPop == /\ LoopGoes("pop", "more")
              /\ IF trigger_events_ = <<>>
                   THEN UNCHANGED <<trigger_events_, executed>>
                   ELSE /\ trigger_events_' = Tail(trigger_events_)
                        /\ executed' = executed + 1
              /\ UNCHANGED <<running_, mutex_, timerVars, taskVars, client,
                             posted, called, dropped, removed>>

TriggerMore == /\ LoopGoes("more", IF trigger_events_ = <<>> THEN "spawn" ELSE "pop")
               /\ UNCHANGED <<running_, mutex_, trigger_events_, timerVars, taskVars,
                              client, histVars>>

\* Timer::start creates the thread first and sets running_ after, so the new
\* worker may find running_ still false.
TimerStart == /\ loop = "spawn"
              /\ IF timer_running_
                   THEN loop' = "poll" /\ UNCHANGED worker_
                   ELSE loop' = "set" /\ worker_' = "spawned"
              /\ UNCHANGED <<running_, mutex_, trigger_events_, timer_running_,
                             timer_mutex_, tasks_, left, task, nap, taskVars,
                             client, histVars>>

TimerStarted == /\ LoopGoes("set", "poll")
                /\ timer_running_' = TRUE
                /\ UNCHANGED <<running_, mutex_, trigger_events_, timer_mutex_, worker_,
                               tasks_, left, task, nap, taskVars, client, histVars>>

\* handleEvent returns, on a ready channel or on its time-out.
PollReturns == /\ LoopGoes("poll", "join")
               /\ UNCHANGED <<running_, mutex_, trigger_events_, timerVars, taskVars,
                              client, histVars>>

\* Mutant: running_ is cleared without a join.
TimerStopWithoutJoin ==
  /\ loop = "join"
  /\ loop' = IF timer_running_ THEN "clear" ELSE "test"
  /\ UNCHANGED <<running_, mutex_, trigger_events_, timerVars, taskVars, client, histVars>>

\* Timer::stop: join the worker, then clear running_.
TimerStop == /\ loop = "join"
             /\ IF timer_running_
                  THEN worker_ = "done" /\ worker_' = "none" /\ loop' = "clear"
                  ELSE loop' = "test" /\ UNCHANGED worker_
             /\ UNCHANGED <<running_, mutex_, trigger_events_, timer_running_,
                            timer_mutex_, tasks_, left, task, nap, taskVars,
                            client, histVars>>

TimerStopped == /\ LoopGoes("clear", "test")
                /\ timer_running_' = FALSE
                /\ UNCHANGED <<running_, mutex_, trigger_events_, timer_mutex_, worker_,
                               tasks_, left, task, nap, taskVars, client, histVars>>

Loop == \/ LoopTest \/ TriggerPop \/ TriggerMore \/ TimerStart \/ TimerStarted
        \/ PollReturns \/ TimerStop \/ TimerStopped

-----------------------------------------------------------------------------
(* The worker: Timer::run *)

WorkerCheck == /\ worker_ = "spawned"
               /\ worker_' = IF timer_running_ THEN "lock" ELSE "done"
               /\ UNCHANGED <<schedVars, timer_running_, timer_mutex_, tasks_, left,
                              task, nap, taskVars, client, histVars>>

\* Mutant: the worker sleeps without the mutex.
WorkerSleepUnlocked ==
  /\ worker_ = "lock"
  /\ timer_mutex_ = Nobody
  /\ nap' = IF tasks_ = <<>> THEN IdleNap ELSE nextTimestamp
  /\ worker_' = "sleep"
  /\ UNCHANGED <<schedVars, timer_running_, timer_mutex_, tasks_, left, task, taskVars,
                 client, histVars>>

\* Mutant: the worker waits for a timer however long it takes.
WorkerSleepUntilTimer ==
  /\ worker_ = "lock"
  /\ timer_mutex_ = Nobody
  /\ tasks_ # <<>>
  /\ timer_mutex_' = Worker
  /\ nap' = nextTimestamp
  /\ worker_' = "sleep"
  /\ UNCHANGED <<schedVars, timer_running_, tasks_, left, task, taskVars, client, histVars>>

\* Lock the Timer and go to sleep, with the lock, until the first timer is due.
WorkerSleep == /\ worker_ = "lock"
               /\ timer_mutex_ = Nobody
               /\ timer_mutex_' = Worker
               /\ nap' = IF tasks_ = <<>> THEN IdleNap ELSE nextTimestamp
               /\ worker_' = "sleep"
               /\ UNCHANGED <<schedVars, timer_running_, tasks_, left, task, taskVars,
                              client, histVars>>

\* Mutant: an empty pop leaves by a path that does not unlock.
WorkerPopKeepsMutex ==
  /\ worker_ = "sleep"
  /\ nap = 0
  /\ IF tasks_ = <<>>
       THEN task' = 0 /\ UNCHANGED <<tasks_, left, timer_mutex_>>
       ELSE /\ task' = Head(tasks_)
            /\ left' = Rearmed(Head(tasks_), left)
            /\ tasks_' = Pop(tasks_, left')
            /\ timer_mutex_' = Nobody
  /\ worker_' = "call"
  /\ UNCHANGED <<schedVars, timer_running_, nap, taskVars, client, histVars>>

WorkerPop == /\ worker_ = "sleep"
             /\ nap = 0
             /\ IF tasks_ = <<>>
                  THEN task' = 0 /\ UNCHANGED <<tasks_, left>>
                  ELSE /\ task' = Head(tasks_)
                       /\ left' = Rearmed(Head(tasks_), left)
                       /\ tasks_' = Pop(tasks_, left')
             /\ timer_mutex_' = Nobody
             /\ worker_' = "call"
             /\ UNCHANGED <<schedVars, timer_running_, nap, taskVars, client, histVars>>

\* TimerTask::operator(): call the callback if the popped copy has expired.
WorkerCall == /\ worker_ = "call"
              /\ IF task # 0 /\ isExpired(task)
                   THEN called' = called \cup {task} /\ UNCHANGED dropped
                   ELSE dropped' = dropped \cup ({task} \ {0}) /\ UNCHANGED called
              /\ task' = 0
              /\ worker_' = "done"
              /\ UNCHANGED <<schedVars, timer_running_, timer_mutex_, tasks_, left, nap,
                             taskVars, client, posted, executed, removed>>

WorkerStep == WorkerCheck \/ WorkerSleep \/ WorkerPop \/ WorkerCall

-----------------------------------------------------------------------------
(* The clock.  Lateness saturates at MaxLate ticks. *)

Tick == /\ left' = [t \in Timers |-> IF t < curr_timer_id /\ left[t] > -MaxLate
                                       THEN left[t] - 1 ELSE left[t]]
        /\ nap' = IF nap > 0 THEN nap - 1 ELSE 0
        /\ UNCHANGED <<schedVars, timer_running_, timer_mutex_, worker_, tasks_, task,
                       taskVars, client, histVars>>

-----------------------------------------------------------------------------
(* Clients.  addTimer, removeTimer and the posting of an event first take  *)
(* the scheduler's mutex; the first two then take the Timer's inside it.   *)

Begin(c, op, t) == /\ client[c] = Idle
                   /\ client' = [client EXCEPT ![c] = [op |-> op, id |-> t]]

Return(c) == client' = [client EXCEPT ![c] = Idle]

\* The caller constructs the TimerTask, which fixes its expired_time, and
\* passes it to addTimer.
NewTimer(c, d, cyc) ==
  /\ curr_timer_id <= MaxTimers
  /\ Begin(c, "add", curr_timer_id)
  /\ curr_timer_id' = curr_timer_id + 1
  /\ duration' = [duration EXCEPT ![curr_timer_id] = d]
  /\ cycled' = [cycled EXCEPT ![curr_timer_id] = cyc]
  /\ left' = [left EXCEPT ![curr_timer_id] = d]
  /\ UNCHANGED <<schedVars, timer_running_, timer_mutex_, worker_, tasks_, task, nap,
                 histVars>>

\* Timer::addTimer returns its id through a bool, so whichever timer a client
\* added, the handle it later passes to removeTimer is 1.
RemoveTimer(c) == /\ curr_timer_id > 1
                  /\ Begin(c, "remove", 1)
                  /\ UNCHANGED <<schedVars, timerVars, taskVars, histVars>>

\* trigger_events_->size() < kMaxTriggetEvents always holds: see
\* RingBuffer!SizeHidesFullLaps.
PostTrigger(c) == /\ posted + Cardinality({b \in Clients : client[b].op = "post"})
                       < MaxTriggers
                  /\ Begin(c, "post", 0)
                  /\ UNCHANGED <<schedVars, timerVars, taskVars, histVars>>

\* stop() takes no lock.
Stop == /\ running_
        /\ running_' = FALSE
        /\ UNCHANGED <<mutex_, trigger_events_, loop, timerVars, taskVars, client,
                       histVars>>

LockScheduler(c) == /\ client[c].op \in {"add", "remove"}
                    /\ mutex_ = Nobody
                    /\ mutex_' = c
                    /\ UNCHANGED <<running_, trigger_events_, loop, timerVars, taskVars,
                                   client, histVars>>

\* addTriggerEvent and addTriggerEventForce: lock, push, unlock.
PushTrigger(c) == /\ client[c].op = "post"
                  /\ mutex_ = Nobody
                  /\ posted' = posted + 1
                  /\ trigger_events_' = Append(trigger_events_, posted')
                  /\ Return(c)
                  /\ UNCHANGED <<running_, mutex_, loop, timerVars, taskVars,
                                 executed, called, dropped, removed>>

\* Timer::addTimer and Timer::removeTimer, then both unlocks.
FinishTimerOp(c) ==
  /\ mutex_ = c
  /\ timer_mutex_ = Nobody
  /\ LET t == client[c].id IN
       IF client[c].op = "add"
         THEN tasks_' = Add(tasks_, t, left) /\ UNCHANGED removed
         ELSE /\ tasks_' = Erase(tasks_, t)
              /\ removed' = removed \cup (Range(tasks_) \cap {t})
  /\ mutex_' = Nobody
  /\ Return(c)
  /\ UNCHANGED <<running_, trigger_events_, loop, timer_running_, timer_mutex_, worker_,
                 left, task, nap, taskVars, posted, executed, called, dropped>>

Acquire(c) == LockScheduler(c) \/ PushTrigger(c) \/ FinishTimerOp(c)

Request(c) == \/ \E d \in Durations, cyc \in Cycled : NewTimer(c, d, cyc)
              \/ RemoveTimer(c)
              \/ PostTrigger(c)

-----------------------------------------------------------------------------
Next == \/ Start \/ Loop \/ WorkerStep \/ Tick \/ Stop
        \/ \E c \in Clients : Request(c) \/ Acquire(c)

Spec == Init /\ [][Next]_vars

\* The loop thread and the worker run when they can, and time passes.  A
\* client that waits for a mutex which keeps becoming free gets it in the end.
Fairness == /\ WF_vars(Start) /\ WF_vars(Loop) /\ WF_vars(WorkerStep) /\ WF_vars(Tick)
            /\ \A c \in Clients : SF_vars(Acquire(c))

FairSpec == Spec /\ Fairness

-----------------------------------------------------------------------------
LoopPcs == {"off", "test", "pop", "more", "spawn", "set", "poll", "join", "clear", "done"}
WorkerPcs == {"none", "spawned", "lock", "sleep", "call", "done"}

TypeOK ==
  /\ running_ \in BOOLEAN /\ loop \in LoopPcs
  /\ mutex_ \in Clients \cup {Nobody}
  /\ trigger_events_ \in Seq(Nat)
  /\ timer_running_ \in BOOLEAN /\ worker_ \in WorkerPcs
  /\ timer_mutex_ \in {Nobody, Worker}
  /\ tasks_ \in Seq(Timers) /\ task \in Timers \cup {0} /\ nap \in Nat
  /\ left \in [Timers -> Int]
  /\ curr_timer_id \in 1 .. MaxTimers + 1
  /\ duration \in [Timers -> Durations \cup {0}] /\ cycled \in [Timers -> BOOLEAN]
  /\ client \in [Clients -> [op : {"idle", "add", "remove", "post"},
                            id : Timers \cup {0}]]
  /\ posted \in Nat /\ executed \in Nat
  /\ called \subseteq Timers /\ dropped \subseteq Timers /\ removed \subseteq Timers

\* A worker exists only between the loop's start of the Timer and the join
\* (TaskScheduler.cpp:31-35), so Timer::start never assigns over a joinable
\* worker_ (Timer.cpp:269-272), which would end the program, and after start()
\* has returned no timer callback runs and nobody sleeps on the Timer's mutex.
\* The two updates of Timer::running_, which straddle the spawn and the join,
\* keep this so.
WorkerOnlyWithinRound ==
  worker_ # "none" => loop \in {"set", "poll", "join"}

\* The worker computes its sleep and pops under one hold of the Timer's mutex
\* (Timer.h:249-263), so the one-shot timer it pops is due and is called:
\* none is popped and thrown away by the isExpired test of Timer.h:59.
NoTimerLost == \A t \in dropped : cycled[t]

\* A timer handed to addTimer is in exactly one place until it is called or
\* removed; nothing is called twice or called after it was removed.
OneShotOnce ==
  \A t \in {u \in Timers : u < curr_timer_id /\ ~cycled[u]} :
    LET places == {p \in {"client", "queue", "worker", "called", "removed"} :
                     \/ p = "client" /\ \E c \in Clients : client[c] = [op |-> "add", id |-> t]
                     \/ p = "queue" /\ t \in Range(tasks_)
                     \/ p = "worker" /\ task = t
                     \/ p = "called" /\ t \in called
                     \/ p = "removed" /\ t \in removed}
    IN  Cardinality(places) = 1

\* While nobody stops the scheduler, an event that was posted is run,
\* whatever the timers are doing (TaskScheduler.cpp:27-36).
TriggersRun == (<>[]running_) => \A n \in 1 .. MaxTriggers : posted >= n ~> executed >= n

\* stop() ends the loop, even while the worker sleeps or a timer is pending.
StopEnds == (loop # "off" /\ ~running_) ~> loop = "done"

\* No client waits for ever: the mutexes are taken in one order, and the
\* worker's sleep under the inner one is finite.
OperationsReturn == \A c \in Clients : client[c] # Idle ~> client[c] = Idle

\* A queued one-shot timer is called, provided the scheduler is not stopped
\* and the worker does not for ever look at running_ before Timer::start has
\* set it (Timer.cpp:272-274).
TimersFire ==
  (<>[]running_ /\ []<>(worker_ = "lock")) =>
    \A t \in Timers : (t \in Range(tasks_) /\ ~cycled[t]) ~> t \in called \cup removed

\* A cycled timer is called, some time (Timer.h:14).
CycledTimerCalled ==
  (<>[]running_ /\ []<>(worker_ = "lock")) =>
    \A t \in Timers : (t \in Range(tasks_) /\ cycled[t]) ~> t \in called \cup removed
=============================================================================
