----------------------------- MODULE ThreadPool -----------------------------
(***************************************************************************)
(* ThreadPool (src/src/util/ThreadPool.h) over SafeQueue                   *)
(* (src/src/util/SafeQueue.h), as EventLoop::run uses it: one owner        *)
(* constructs the pool, starts and stops it; any thread submits.           *)
(*                                                                         *)
(* The workers are spawned before running_ is set, submit notifies without *)
(* the pool's mutex, and stop joins before it clears running_: every one   *)
(* of these orders is a step of its own here.  A task is a number; running *)
(* it ends at some moment, or never (a TaskScheduler's loop).              *)
(***************************************************************************)
EXTENDS Naturals, Sequences, FiniteSets

CONSTANTS Workers,         \* the threads of threads_
          Nobody,          \* the holder of a free mutex_
          Submitters,      \* threads that call submit
          QueueCapacity,   \* capacity_ of the SafeQueue
          MaxTasks         \* tasks submitted in all

ASSUME PoolAssumption == /\ QueueCapacity \in Nat /\ MaxTasks \in Nat
                         /\ Nobody \notin Workers

VARIABLES
  running_,        \* ThreadPool::running_
  mutex_,          \* holder of ThreadPool::mutex_
  q_,              \* the queued tasks
  pc,              \* where each worker stands; "none": not joinable
  task,            \* the task a worker has taken, 0 if none
  waiting,         \* workers blocked in cond_.wait
  owner,           \* where the owner stands
  notifying,       \* submitters between push and notify_one
  \* history
  submitted,       \* number of tasks submitted
  refused,         \* tasks that a full queue refused
  taken,           \* tasks popped, in order
  worked,          \* workers that have entered their loop since they were spawned
  missed,          \* workers that stop's notify_all found between predicate and sleep
  atStop           \* tasks submitted when stop notified

stopVars == <<missed, atStop>>
poolVars == <<running_, mutex_, q_, pc, task, waiting, owner, notifying,
              submitted, refused, taken, worked, stopVars>>

PoolInit == /\ running_ = FALSE
            /\ mutex_ = Nobody
            /\ q_ = <<>>
            /\ pc = [w \in Workers |-> "none"]
            /\ task = [w \in Workers |-> 0]
            /\ waiting = {}
            /\ owner = "ctor"
            /\ notifying = {}
            /\ submitted = 0 /\ refused = {} /\ taken = <<>> /\ worked = {}
            /\ missed = {} /\ atStop = 0

-----------------------------------------------------------------------------
(* The owner: constructor or start(), then stop(). *)

\* The loop of the constructor and of start() over threads_.
Spawn(w) == /\ owner \in {"ctor", "spawn"}
            /\ pc[w] = "none"
            /\ pc' = [pc EXCEPT ![w] = "test"]
            /\ UNCHANGED <<running_, mutex_, q_, task, waiting, owner, notifying,
                           submitted, refused, taken, worked, stopVars>>

SetRunning == /\ owner \in {"ctor", "spawn"}
              /\ \A w \in Workers : pc[w] # "none"
              /\ running_' = TRUE
              /\ owner' = "up"
              /\ UNCHANGED <<mutex_, q_, pc, task, waiting, notifying,
                             submitted, refused, taken, worked, stopVars>>

\* start() after stop(); while running_ it does nothing.
Restart == /\ owner = "down"
           /\ ~running_
           /\ owner' = "spawn"
           /\ UNCHANGED <<running_, mutex_, q_, pc, task, waiting, notifying,
                          submitted, refused, taken, worked, stopVars>>

\* Mutant: stop clears running_ before it joins.
StopClearsFirst == /\ owner = "up"
                   /\ running_
                   /\ running_' = FALSE
                   /\ pc' = [w \in Workers |-> IF w \in waiting THEN "lock" ELSE pc[w]]
                   /\ waiting' = {}
                   /\ owner' = "join"
                   /\ missed' = {w \in Workers : pc[w] = "block"}
                   /\ atStop' = submitted
                   /\ UNCHANGED <<mutex_, q_, task, notifying,
                                  submitted, refused, taken, worked>>

\* Mutant: stop notifies one worker.
StopNotifyOne == /\ owner = "up"
                 /\ running_
                 /\ \E ws \in SUBSET waiting :
                      /\ Cardinality(ws) = (IF waiting = {} THEN 0 ELSE 1)
                      /\ pc' = [w \in Workers |-> IF w \in ws THEN "lock" ELSE pc[w]]
                      /\ waiting' = waiting \ ws
                 /\ owner' = "join"
                 /\ missed' = {w \in Workers : pc[w] = "block"}
                 /\ atStop' = submitted
                 /\ UNCHANGED <<running_, mutex_, q_, task, notifying,
                                submitted, refused, taken, worked>>

\* stop() begins with notify_all.
StopNotify == /\ owner = "up"
              /\ running_
              /\ pc' = [w \in Workers |-> IF w \in waiting THEN "lock" ELSE pc[w]]
              /\ waiting' = {}
              /\ owner' = "join"
              /\ missed' = {w \in Workers : pc[w] = "block"}
              /\ atStop' = submitted
              /\ UNCHANGED <<running_, mutex_, q_, task, notifying,
                             submitted, refused, taken, worked>>

Join(w) == /\ owner = "join"
           /\ pc[w] = "exited"
           /\ pc' = [pc EXCEPT ![w] = "none"]
           /\ worked' = worked \ {w}
           /\ UNCHANGED <<running_, mutex_, q_, task, waiting, owner, notifying,
                          submitted, refused, taken, stopVars>>

StopClear == /\ owner = "join"
             /\ \A w \in Workers : pc[w] = "none"
             /\ running_' = FALSE
             /\ owner' = "down"
             /\ UNCHANGED <<mutex_, q_, pc, task, waiting, notifying,
                            submitted, refused, taken, worked, stopVars>>

Owner == \/ SetRunning \/ StopClear
         \/ \E w \in Workers : Spawn(w) \/ Join(w)

-----------------------------------------------------------------------------
(* submit: push, whose refusal is ignored, then notify_one, both without   *)
(* mutex_.                                                                 *)

\* Mutant: one task too many.
fullOffByOne == Len(q_) > QueueCapacity

fullInternal == Len(q_) = QueueCapacity

SubmitPush(s) ==
  /\ s \notin notifying
  /\ owner # "ctor"
  /\ submitted < MaxTasks
  /\ submitted' = submitted + 1
  /\ IF fullInternal
       THEN refused' = refused \cup {submitted'} /\ UNCHANGED q_
       ELSE q_' = Append(q_, submitted') /\ UNCHANGED refused
  /\ notifying' = notifying \cup {s}
  /\ UNCHANGED <<running_, mutex_, pc, task, waiting, owner, taken, worked, stopVars>>

SubmitNotify(s) ==
  /\ s \in notifying
  /\ notifying' = notifying \ {s}
  /\ IF waiting = {}
       THEN UNCHANGED <<waiting, pc, stopVars>>
       ELSE \E w \in waiting : /\ waiting' = waiting \ {w}
                               /\ pc' = [pc EXCEPT ![w] = "lock"]
  /\ UNCHANGED <<running_, mutex_, q_, task, owner, submitted, refused, taken, worked, stopVars>>

-----------------------------------------------------------------------------
(* work() *)

\* while (running_)
Test(w) == /\ pc[w] = "test"
           /\ pc' = [pc EXCEPT ![w] = IF running_ THEN "lock" ELSE "exited"]
           /\ worked' = IF running_ THEN worked \cup {w} ELSE worked
           /\ UNCHANGED <<running_, mutex_, q_, task, waiting, owner, notifying,
                          submitted, refused, taken, stopVars>>

Lock(w) == /\ pc[w] = "lock"
           /\ mutex_ = Nobody
           /\ mutex_' = w
           /\ pc' = [pc EXCEPT ![w] = "check"]
           /\ UNCHANGED <<running_, q_, task, waiting, owner, notifying,
                          submitted, refused, taken, worked, stopVars>>

\* Mutant: the last task is not worth waking for.
WorkForTwo == Len(q_) > 1 /\ running_

\* The predicate of cond_.wait.
WorkToDo == q_ # <<>> /\ running_

\* When the predicate holds the lock is released and the
\* worker goes on; when not, the worker still has to block.
Check(w) == /\ pc[w] = "check"
            /\ IF WorkToDo
                 THEN mutex_' = Nobody /\ pc' = [pc EXCEPT ![w] = "take"]
                 ELSE pc' = [pc EXCEPT ![w] = "block"] /\ UNCHANGED mutex_
            /\ UNCHANGED <<running_, q_, task, waiting, owner, notifying,
                           submitted, refused, taken, worked, stopVars>>

Block(w) == /\ pc[w] = "block"
            /\ mutex_' = Nobody
            /\ waiting' = waiting \cup {w}
            /\ pc' = [pc EXCEPT ![w] = "wait"]
            /\ UNCHANGED <<running_, q_, task, owner, notifying,
                           submitted, refused, taken, worked, stopVars>>

\* cond_.wait may also wake by itself; it then tests the predicate again.
SpuriousWake(w) == /\ w \in waiting
                   /\ waiting' = waiting \ {w}
                   /\ pc' = [pc EXCEPT ![w] = "lock"]
                   /\ UNCHANGED <<running_, mutex_, q_, task, owner, notifying,
                                  submitted, refused, taken, worked, stopVars>>

\* Mutant: the front is copied but not popped.
TakeWithoutPop(w) == /\ pc[w] = "take"
                     /\ q_ # <<>>
                     /\ task' = [task EXCEPT ![w] = Head(q_)]
                     /\ taken' = Append(taken, Head(q_))
                     /\ pc' = [pc EXCEPT ![w] = "run"]
                     /\ UNCHANGED <<running_, mutex_, q_, waiting, owner, notifying,
                                    submitted, refused, worked, stopVars>>

\* Another worker may have been faster: pop then returns false.
Take(w) == /\ pc[w] = "take"
           /\ IF q_ = <<>>
                THEN /\ pc' = [pc EXCEPT ![w] = "test"]
                     /\ UNCHANGED <<q_, task, taken, stopVars>>
                ELSE /\ task' = [task EXCEPT ![w] = Head(q_)]
                     /\ taken' = Append(taken, Head(q_))
                     /\ q_' = Tail(q_)
                     /\ pc' = [pc EXCEPT ![w] = "run"]
           /\ UNCHANGED <<running_, mutex_, waiting, owner, notifying,
                          submitted, refused, worked, stopVars>>

TaskEnds(w) == /\ pc[w] = "run"
               /\ task' = [task EXCEPT ![w] = 0]
               /\ pc' = [pc EXCEPT ![w] = "test"]
               /\ UNCHANGED <<running_, mutex_, q_, waiting, owner, notifying,
                              submitted, refused, taken, worked, stopVars>>

Work(w) == Test(w) \/ Lock(w) \/ Check(w) \/ Block(w) \/ Take(w)

-----------------------------------------------------------------------------
PoolNext == \/ Owner \/ Restart \/ StopNotify
            \/ \E s \in Submitters : SubmitPush(s) \/ SubmitNotify(s)
            \/ \E w \in Workers : Work(w) \/ SpuriousWake(w) \/ TaskEnds(w)

PoolSpec == PoolInit /\ [][PoolNext]_poolVars

\* Every thread runs when it can; a worker that wants mutex_, which is held
\* for a few instructions, gets it.  A task need not end, and stop and start
\* need not be called.
PoolFairness == /\ WF_poolVars(Owner)
                /\ \A s \in Submitters : WF_poolVars(SubmitNotify(s))
                /\ \A w \in Workers : WF_poolVars(Work(w)) /\ SF_poolVars(Lock(w))

-----------------------------------------------------------------------------
Pcs == {"none", "test", "lock", "check", "block", "wait", "take", "run", "exited"}
Task == 1 .. MaxTasks

PoolTypeOK == /\ running_ \in BOOLEAN
              /\ mutex_ \in Workers \cup {Nobody}
              /\ q_ \in Seq(Task) /\ Len(q_) <= QueueCapacity
              /\ pc \in [Workers -> Pcs]
              /\ task \in [Workers -> Task \cup {0}]
              /\ waiting \subseteq Workers
              /\ owner \in {"ctor", "spawn", "up", "join", "down"}
              /\ notifying \subseteq Submitters
              /\ submitted \in 0 .. MaxTasks
              /\ refused \subseteq Task
              /\ taken \in Seq(Task)
              /\ worked \subseteq Workers
              /\ missed \subseteq Workers
              /\ atStop \in 0 .. MaxTasks

\* Two workers may pass the wait for one task (ThreadPool.h:111-123): still
\* every submitted task is taken once, or queued once, or was refused by a
\* full queue, and tasks are taken in the order of their submission.
TaskOnce == /\ \A i, j \in DOMAIN taken : i < j => taken[i] < taken[j]
            /\ \A i \in DOMAIN taken, j \in DOMAIN q_ : taken[i] < q_[j]
            /\ \A i, j \in DOMAIN q_ : i < j => q_[i] < q_[j]
            /\ Len(taken) + Len(q_) + Cardinality(refused) = submitted

\* stop() clears running_ only after it has joined every worker
\* (ThreadPool.h:94-105), and the workers leave only when they see running_
\* cleared: it returns only if no worker ever entered its loop.
StopNeedsIdlePool == owner = "join" => \A w \in worked : pc[w] \notin {"exited", "none"}

\* Tasks do not stay queued for ever, provided some worker again and again
\* evaluates the wait's predicate: a notification sent between the predicate
\* and the block is lost, but not the task.
QueueDrains == ([]<>(\E w \in Workers : pc[w] = "check")) => []<>(q_ = <<>>)

\* Neither submit nor stop notifies under mutex_ (ThreadPool.h:67-68, 99), and
\* after stop nobody notifies again: a task submitted before stop stays queued
\* beside a sleeping worker only if that worker stood between the predicate
\* and its sleep just when stop notified.
LeftOnlyIfMissed ==
  (owner = "join" /\ q_ # <<>> /\ Head(q_) <= atStop) => waiting \subseteq missed
=============================================================================
