------------------------------ MODULE EventLoop ------------------------------
(***************************************************************************)
(* EventLoop (src/src/net/EventLoop.cpp) over the ThreadPool: a map of     *)
(* schedulers under a mutex, and run(), which goes through the map without *)
(* the mutex, submits each scheduler's start() to the pool and stops the   *)
(* pool.  A scheduler is a number here and its loop is left abstract: it   *)
(* goes on until TaskScheduler::stop clears its running_.                  *)
(*                                                                         *)
(* The other operations forward to the scheduler of an id, and use a null  *)
(* one when it has none: here they are called with an id that has one,     *)
(* and change nothing of this module's state.                              *)
(*                                                                         *)
(* Two of the outcomes are those of undefined behaviour.  Entries that are *)
(* made while run iterates are linked into the list of the unordered_map:  *)
(* run meets the new one or does not, and where the table has to grow for  *)
(* it, all are linked again and run may skip entries or meet some twice.   *)
(* The closure that submit queues refers to run's lambda, which is gone    *)
(* when a worker calls it: the worker finds there the lambda of its own    *)
(* turn of the loop or of a later one, which took the same place.          *)
(***************************************************************************)
EXTENDS ThreadPool

CONSTANTS Ids,             \* TaskSchedulerIds
          Runner,          \* the thread that owns the pool and calls run()
          MaxMade          \* bound: schedulers made

ASSUME LoopAssumption == Runner \in Submitters /\ MaxMade \in Nat

VARIABLES
  loop,            \* where run() stands
  task_schedulers_,\* the scheduler of each id, 0 if none
  made, idOf,      \* number of schedulers made, and the id_ of each
  todo,            \* ids that run has still to meet
  startOf,         \* the scheduler of each task submitted, 0 for other tasks
  starting,        \* the scheduler whose start() a worker is in, 0 if none
  looping,         \* workers that are past the test in start()
  runningOnes,     \* schedulers whose running_ is set
  \* history
  rehashed,        \* the table grew while run went through it
  seen             \* ids in the map when run was called

loopVars == <<loop, task_schedulers_, made, idOf, todo, startOf, starting, looping, runningOnes,
              rehashed, seen>>
eventLoopVars == <<poolVars, loopVars>>

Schedulers == 1 .. MaxMade
Registered == {id \in Ids : task_schedulers_[id] # 0}

LoopInit ==
  /\ PoolInit
  /\ loop = "off" /\ task_schedulers_ = [id \in Ids |-> 0] /\ made = 0 /\ idOf = <<>> /\ todo = {}
  /\ startOf = <<>>
  /\ starting = [w \in Workers |-> 0] /\ looping = {} /\ runningOnes = {}
  /\ rehashed = FALSE /\ seen = {}

-----------------------------------------------------------------------------
(* The map. *)

\* Mutant: the old entry is erased and a new one put in.
LinkedAnew(id) ==
  IF loop # "submit" THEN UNCHANGED <<rehashed, todo>>
  ELSE UNCHANGED rehashed /\ todo' \in {todo \ {id}, todo \cup {id}}

\* What run has still to meet when the id gets a scheduler: assigning to an
\* entry leaves the list as it is.
Linked(id) ==
  IF loop # "submit" \/ id \in Registered THEN UNCHANGED <<rehashed, todo>>
  ELSE \/ UNCHANGED rehashed /\ todo' \in {todo, todo \cup {id}}
       \/ rehashed' = TRUE /\ todo' \in SUBSET (Registered \cup {id})

\* Of a new scheduler; one that had the id is forgotten.
addTaskScheduler(id) ==
  /\ made < MaxMade
  /\ made' = made + 1 /\ idOf' = Append(idOf, id)
  /\ task_schedulers_' = [task_schedulers_ EXCEPT ![id] = made']
  /\ Linked(id)
  /\ UNCHANGED <<poolVars, loop, startOf, starting, looping, runningOnes, seen>>

\* Makes the scheduler if the id has none.
getTaskScheduler(id) == task_schedulers_[id] = 0 /\ addTaskScheduler(id)

-----------------------------------------------------------------------------
(* run() *)

\* thread_pool_.start() does nothing on a pool that is up.
Run == /\ loop = "off" /\ owner \in {"up", "down"}
       /\ loop' = "submit"
       /\ todo' = Registered
       /\ seen' = Registered
       /\ IF running_ THEN UNCHANGED poolVars ELSE Restart
       /\ UNCHANGED <<task_schedulers_, made, idOf, startOf, starting, looping, runningOnes,
                      rehashed>>

SubmitStart(id) == /\ loop = "submit" /\ owner = "up"
                   /\ id \in todo
                   /\ SubmitPush(Runner)
                   /\ todo' = todo \ {id}
                   /\ startOf' = Append(startOf, task_schedulers_[id])
                   /\ UNCHANGED <<loop, task_schedulers_, made, idOf, starting, looping, runningOnes,
                                  rehashed, seen>>

StopPool == /\ loop = "submit" /\ todo = {} /\ Runner \notin notifying
            /\ StopNotify
            /\ loop' = "stop"
            /\ UNCHANGED <<task_schedulers_, made, idOf, todo, startOf, starting, looping,
                           runningOnes, rehashed, seen>>

\* After stop() returns, run() sleeps for ever.
Sleep == /\ loop = "stop" /\ owner = "down"
         /\ loop' = "asleep"
         /\ UNCHANGED <<poolVars, task_schedulers_, made, idOf, todo, startOf, starting, looping,
                        runningOnes, rehashed, seen>>

\* Before run() its thread may stop and start the pool, and other threads
\* may submit tasks of their own at any time.
UsePool == /\ \/ loop = "off" /\ (StopNotify \/ Restart)
              \/ \E s \in Submitters : SubmitNotify(s)
           /\ UNCHANGED loopVars

SubmitOther(s) == /\ SubmitPush(s)
                  /\ startOf' = Append(startOf, 0)
                  /\ UNCHANGED <<loop, task_schedulers_, made, idOf, todo, starting, looping,
                                 runningOnes, rehashed, seen>>

-----------------------------------------------------------------------------
(* A worker's task: TaskScheduler::start(), or a task that ends. *)

\* start() returns if running_ is set; the test and the assignment are two steps.
Begin(w) ==
  /\ pc[w] = "run" /\ starting[w] = 0 /\ startOf[task[w]] # 0
  /\ \E t \in task[w] .. submitted :
       /\ startOf[t] # 0
       /\ IF startOf[t] \in runningOnes
            THEN TaskEnds(w) /\ UNCHANGED starting
            ELSE starting' = [starting EXCEPT ![w] = startOf[t]] /\ UNCHANGED poolVars
  /\ UNCHANGED <<loop, task_schedulers_, made, idOf, todo, startOf, looping, runningOnes, rehashed, seen>>

EnterLoop(w) == /\ starting[w] # 0 /\ w \notin looping
                /\ looping' = looping \cup {w}
                /\ runningOnes' = runningOnes \cup {starting[w]}
                /\ UNCHANGED <<poolVars, loop, task_schedulers_, made, idOf, todo, startOf, starting,
                               rehashed, seen>>

LeaveLoop(w) == /\ w \in looping /\ starting[w] \notin runningOnes
                /\ TaskEnds(w)
                /\ looping' = looping \ {w}
                /\ starting' = [starting EXCEPT ![w] = 0]
                /\ UNCHANGED <<loop, task_schedulers_, made, idOf, todo, startOf, runningOnes,
                               rehashed, seen>>

OtherEnds(w) == /\ pc[w] = "run" /\ startOf[task[w]] = 0
                /\ TaskEnds(w)
                /\ UNCHANGED loopVars

\* TaskScheduler::stop, by any thread.
StopScheduler(o) == /\ o \in runningOnes
                    /\ runningOnes' = runningOnes \ {o}
                    /\ UNCHANGED <<poolVars, loop, task_schedulers_, made, idOf, todo, startOf,
                                   starting, looping, rehashed, seen>>

-----------------------------------------------------------------------------
Pool(w) == (Work(w) \/ SpuriousWake(w)) /\ UNCHANGED loopVars

RunStep == \/ Sleep \/ StopPool
           \/ \E id \in Ids : SubmitStart(id)
           \/ UNCHANGED loopVars /\ (Owner \/ SubmitNotify(Runner))

LoopNext ==
  \/ \E id \in Ids : addTaskScheduler(id) \/ getTaskScheduler(id)
  \/ Run \/ RunStep \/ UsePool
  \/ \E s \in Submitters \ {Runner} : SubmitOther(s)
  \/ \E w \in Workers : Pool(w) \/ Begin(w) \/ EnterLoop(w) \/ LeaveLoop(w) \/ OtherEnds(w)
  \/ \E o \in Schedulers : StopScheduler(o)

LoopFairness ==
  /\ WF_eventLoopVars(RunStep)
  /\ \A w \in Workers :
       /\ WF_eventLoopVars(Work(w) /\ UNCHANGED loopVars)
       /\ SF_eventLoopVars(Lock(w) /\ UNCHANGED loopVars)

LoopSpec == LoopInit /\ [][LoopNext]_eventLoopVars /\ LoopFairness

-----------------------------------------------------------------------------
LoopTypeOK ==
  /\ PoolTypeOK
  /\ loop \in {"off", "submit", "stop", "asleep"}
  /\ made \in 0 .. MaxMade /\ task_schedulers_ \in [Ids -> 0 .. made]
  /\ idOf \in Seq(Ids) /\ Len(idOf) = made
  /\ todo \subseteq Registered
  /\ startOf \in Seq(0 .. made) /\ Len(startOf) = submitted
  /\ starting \in [Workers -> 0 .. made]
  /\ looping \subseteq {w \in Workers : starting[w] # 0}
  /\ \A w \in Workers : starting[w] # 0 => pc[w] = "run"
  /\ runningOnes \subseteq Schedulers /\ seen \subseteq Registered
  /\ rehashed \in BOOLEAN

\* Task t starts the scheduler that had this id.
Starts(t, id) == startOf[t] # 0 /\ idOf[startOf[t]] = id

\* run() goes through the map without the mutex (EventLoop.cpp:81) while clients
\* make and replace schedulers: unless the table grows under it, run submits the
\* start of each id that was there when it began, and of no id twice.
MeetsEachId ==
  ~rehashed =>
    /\ loop \in {"stop", "asleep"} => \A id \in seen : \E t \in DOMAIN startOf : Starts(t, id)
    /\ \A id \in Ids : \A t, u \in DOMAIN startOf : Starts(t, id) /\ Starts(u, id) => t = u

\* Worker w starts the scheduler that its task was submitted for.
OwnStart(w) == starting[w] = startOf[task[w]]

\* TaskScheduler::start tests running_ and sets it in two steps
\* (TaskScheduler.cpp:24-27), so that two workers that call it together are both in
\* its loop.  Unless the map grew under run, one of them has called another task's
\* lambda (ThreadPool.h:28) whenever that happens.
OneLoopEach ==
  rehashed \/ \A v, w \in looping :
                starting[v] = starting[w] /\ OwnStart(v) /\ OwnStart(w) => v = w
=============================================================================
