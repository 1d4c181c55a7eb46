-------------------------- MODULE EventLoopProofs --------------------------
(***************************************************************************)
(* The thread pool and EventLoop::run over it, for any number of workers,  *)
(* submitters, tasks, ids and schedulers and any capacity of the queue.    *)
(*                                                                         *)
(* The first part is about ThreadPool's steps alone.  The second shows     *)
(* that every step of EventLoop is a step of its pool, or none, so that    *)
(* the first part applies, and adds what run() itself promises.            *)
(***************************************************************************)
EXTENDS EventLoop, FiniteSetTheorems, TLAPS

\* Tasks are numbered as they are submitted.
Numbered == /\ \A i \in DOMAIN taken : taken[i] <= submitted
            /\ \A j \in DOMAIN q_ : q_[j] <= submitted
            /\ \A t \in refused : t <= submitted
            /\ IsFiniteSet(refused)

\* A worker that runs has a task, which is no other's and left the queue before
\* what is in it now.
Held == /\ \A w \in Workers : pc[w] = "run" <=> task[w] # 0
        /\ \A w \in Workers : task[w] <= submitted
        /\ \A w \in Workers, j \in DOMAIN q_ : task[w] < q_[j]
        /\ \A v, w \in Workers : task[v] = task[w] /\ task[v] # 0 => v = w

\* A worker that has entered its loop since it was spawned cannot leave it:
\* running_ is cleared only when all have left.
Worked == \A w \in worked : running_ /\ pc[w] \notin {"exited", "none"}

\* While stop joins, running_ is set, and only the workers it missed sleep or
\* are about to, as long as a task submitted before is queued.
Joining == owner = "join" =>
             /\ running_ /\ atStop <= submitted
             /\ q_ # <<>> /\ Head(q_) <= atStop =>
                  \A w \in Workers : pc[w] \in {"block", "wait"} => w \in missed

Waiting == \A w \in Workers : w \in waiting <=> pc[w] = "wait"

PoolInv == /\ PoolTypeOK /\ Waiting /\ Numbered /\ TaskOnce /\ Held /\ Worked /\ Joining

\* Whoever is in a start has a task that starts a scheduler.
Started == \A w \in Workers : starting[w] # 0 => pc[w] = "run" /\ startOf[task[w]] # 0

\* An id that ever had a scheduler has one; what run has still to meet it has not
\* submitted, and what it saw and has not to meet it has.
Met == /\ \A o \in 1 .. made : task_schedulers_[idOf[o]] # 0
       /\ \A id \in Ids : task_schedulers_[id] # 0 => idOf[task_schedulers_[id]] = id
       /\ loop # "submit" => todo = {}
       /\ loop = "off" => \A t \in DOMAIN startOf : startOf[t] = 0
       /\ ~ rehashed =>
            /\ \A id \in Ids : \A t, u \in DOMAIN startOf : Starts(t, id) /\ Starts(u, id) => t = u
            /\ \A t \in DOMAIN startOf, id \in todo : ~ Starts(t, id)
            /\ loop # "off" => \A id \in seen \ todo : \E t \in DOMAIN startOf : Starts(t, id)

LoopInv == PoolInv /\ LoopTypeOK /\ Started /\ Met

-----------------------------------------------------------------------------
(* The thread pool *)

LEMMA PoolInitInv == PoolInit => PoolInv
<1> SUFFICES ASSUME PoolInit PROVE PoolInv
  OBVIOUS
<1>1. PoolTypeOK
  <2>1. pc \in [Workers -> Pcs] /\ task \in [Workers -> Task \cup {0}]
    BY DEF PoolInit, Pcs
  <2>2. q_ \in Seq(Task) /\ taken \in Seq(Task) /\ Len(q_) <= QueueCapacity
    BY PoolAssumption DEF PoolInit
  <2>3. submitted \in 0 .. MaxTasks /\ atStop \in 0 .. MaxTasks
    BY PoolAssumption DEF PoolInit
  <2> QED
    BY <2>1, <2>2, <2>3 DEF PoolInit, PoolTypeOK
<1>2. Numbered /\ TaskOnce
  <2>1. IsFiniteSet({}) /\ Cardinality({}) = 0
    BY FS_EmptySet
  <2> QED
    BY <2>1 DEF PoolInit, Numbered, TaskOnce
<1> QED
  BY <1>1, <1>2 DEF PoolInit, PoolInv, Waiting, Held, Worked, Joining

\* What concerns the queue is left alone by the steps that do not touch it.
Queue == <<q_, taken, submitted, refused>>

LEMMA QueueKept ==
  ASSUME Numbered, TaskOnce, UNCHANGED Queue
  PROVE  Numbered' /\ TaskOnce'
BY DEF Numbered, TaskOnce, Queue

\* The owner's steps.
LEMMA OwnerStep ==
  ASSUME PoolInv, Owner \/ Restart \/ StopNotify
  PROVE  PoolInv'
<1> USE DEF PoolInv, stopVars, Queue
<1>1. ASSUME NEW w \in Workers, Spawn(w)
      PROVE  PoolInv'
  <2>1. PoolTypeOK'
    BY <1>1 DEF Spawn, PoolTypeOK, Pcs
  <2>2. Waiting' /\ Held' /\ Worked' /\ Joining'
    BY <1>1 DEF Spawn, PoolTypeOK, Waiting, Held, Worked, Joining
  <2> QED
    BY <1>1, <2>1, <2>2, QueueKept DEF Spawn
<1>2. CASE SetRunning
  <2>1. PoolTypeOK' /\ Waiting' /\ Held' /\ Worked' /\ Joining'
    BY <1>2 DEF SetRunning, PoolTypeOK, Waiting, Held, Worked, Joining
  <2> QED
    BY <1>2, <2>1, QueueKept DEF SetRunning
<1>3. CASE Restart
  <2>1. PoolTypeOK' /\ Waiting' /\ Held' /\ Worked' /\ Joining'
    BY <1>3 DEF Restart, PoolTypeOK, Waiting, Held, Worked, Joining
  <2> QED
    BY <1>3, <2>1, QueueKept DEF Restart
<1>4. CASE StopNotify
  <2>1. PoolTypeOK'
    BY <1>4 DEF StopNotify, PoolTypeOK, Pcs
  <2>2. Waiting' /\ Held' /\ Worked'
    BY <1>4 DEF StopNotify, PoolTypeOK, Waiting, Held, Worked
  <2>3. Joining'
    <3>1. \A w \in Workers : pc'[w] \in {"block", "wait"} => w \in missed'
      <4> TAKE w \in Workers
      <4>1. pc'[w] = IF w \in waiting THEN "lock" ELSE pc[w]
        BY <1>4 DEF StopNotify
      <4>2. pc[w] = "block" => w \in missed'
        BY <1>4 DEF StopNotify
      <4> QED
        BY <4>1, <4>2 DEF Waiting
    <3>2. atStop' <= submitted'
      BY <1>4 DEF StopNotify, PoolTypeOK
    <3>3. owner' = "join" /\ running_'
      BY <1>4 DEF StopNotify
    <3> QED
      BY <3>1, <3>2, <3>3 DEF Joining
  <2> QED
    BY <1>4, <2>1, <2>2, <2>3, QueueKept DEF StopNotify
<1>5. ASSUME NEW w \in Workers, Join(w)
      PROVE  PoolInv'
  <2>1. PoolTypeOK'
    BY <1>5 DEF Join, PoolTypeOK, Pcs
  <2>2. Waiting' /\ Held' /\ Worked' /\ Joining'
    BY <1>5 DEF Join, PoolTypeOK, Waiting, Held, Worked, Joining
  <2> QED
    BY <1>5, <2>1, <2>2, QueueKept DEF Join
<1>6. CASE StopClear
  <2>1. PoolTypeOK' /\ Waiting' /\ Held' /\ Worked' /\ Joining'
    BY <1>6 DEF StopClear, PoolTypeOK, Waiting, Held, Worked, Joining
  <2> QED
    BY <1>6, <2>1, QueueKept DEF StopClear
<1> QED
  BY <1>1, <1>2, <1>3, <1>4, <1>5, <1>6 DEF Owner

\* A task is queued behind all others, or refused.
LEMMA PushStep ==
  ASSUME PoolInv, NEW s \in Submitters, SubmitPush(s)
  PROVE  PoolInv'
<1> DEFINE n == submitted + 1
<1>1. /\ submitted \in Nat /\ n \in Task /\ submitted' = n /\ n \in 0 .. MaxTasks
      /\ UNCHANGED <<running_, mutex_, pc, task, waiting, owner, taken, worked, missed, atStop>>
      /\ notifying' = notifying \cup {s}
  BY PoolAssumption DEF SubmitPush, PoolInv, PoolTypeOK, Task, stopVars
<1>2. /\ \A i \in DOMAIN taken : taken[i] \in Nat /\ taken[i] < n
      /\ \A j \in DOMAIN q_ : q_[j] \in Nat /\ q_[j] < n
      /\ n \notin refused /\ refused \subseteq Nat
  <2>1. /\ \A i \in DOMAIN taken : taken[i] \in Task
        /\ \A j \in DOMAIN q_ : q_[j] \in Task
        /\ refused \subseteq Task
    BY DEF PoolInv, PoolTypeOK
  <2>0. Task \subseteq Nat
    BY DEF Task
  <2>2. /\ \A i \in DOMAIN taken : taken[i] \in Nat /\ taken[i] <= submitted
        /\ \A j \in DOMAIN q_ : q_[j] \in Nat /\ q_[j] <= submitted
        /\ \A t \in refused : t <= submitted
    BY <2>0, <2>1 DEF PoolInv, Numbered
  <2> QED
    BY <1>1, <2>0, <2>1, <2>2
<1>3. q_ \in Seq(Task) /\ Len(q_) \in Nat /\ Len(taken) \in Nat /\ Cardinality(refused) \in Nat
  BY FS_CardinalityType DEF PoolInv, PoolTypeOK, Numbered
<1> HIDE DEF n
<1>4. CASE fullInternal
  <2>1. refused' = refused \cup {n} /\ q_' = q_
    BY <1>1, <1>4 DEF SubmitPush
  <2>2. IsFiniteSet(refused') /\ Cardinality(refused') = Cardinality(refused) + 1
    BY <1>2, <2>1, FS_AddElement DEF PoolInv, Numbered
  <2>3. PoolTypeOK'
    BY <1>1, <2>1 DEF PoolInv, PoolTypeOK
  <2>4. Numbered'
    BY <1>1, <1>2, <2>1, <2>2 DEF PoolInv, Numbered, n
  <2>5. TaskOnce'
    BY <1>1, <1>3, <2>1, <2>2 DEF PoolInv, TaskOnce, n
  <2>6. Held'
    <3>1. \A w \in Workers : task[w] \in Nat
      BY DEF PoolInv, PoolTypeOK, Task
    <3> QED
      BY <1>1, <2>1, <3>1 DEF PoolInv, Held, n
  <2>7. Waiting' /\ Worked' /\ Joining'
    BY <1>1, <2>1 DEF PoolInv, PoolTypeOK, Waiting, Worked, Joining, n
  <2> QED
    BY <2>3, <2>4, <2>5, <2>6, <2>7 DEF PoolInv
<1>5. CASE ~ fullInternal
  <2>1. refused' = refused /\ q_' = Append(q_, n)
    BY <1>1, <1>5 DEF SubmitPush
  <2>2. /\ q_' \in Seq(Task) /\ Len(q_') = Len(q_) + 1 /\ DOMAIN q_' = 1 .. Len(q_) + 1
        /\ \A i \in 1 .. Len(q_) : q_'[i] = q_[i]
        /\ q_'[Len(q_) + 1] = n
        /\ DOMAIN q_ = 1 .. Len(q_)
    BY <1>1, <1>3, <2>1
  <2>3. PoolTypeOK'
    <3>1. Len(q_') <= QueueCapacity
      <4>1. Len(q_) <= QueueCapacity /\ QueueCapacity \in Nat
        BY PoolAssumption DEF PoolInv, PoolTypeOK
      <4>2. Len(q_) # QueueCapacity
        BY <1>5 DEF fullInternal
      <4>3. Len(q_') = Len(q_) + 1 /\ Len(q_) \in Nat
        BY <1>3, <2>2
      <4> HIDE DEF fullInternal
      <4> QED
        BY <4>1, <4>2, <4>3
    <3> QED
      BY <1>1, <2>1, <2>2, <3>1 DEF PoolInv, PoolTypeOK
  <2>4. \A j \in DOMAIN q_' : q_'[j] = n \/ (j \in DOMAIN q_ /\ q_'[j] = q_[j])
    BY <1>3, <2>2
  <2>5. Numbered'
    BY <1>1, <1>2, <2>1, <2>4 DEF PoolInv, Numbered, n
  <2>6. TaskOnce'
    <3>1. \A i \in DOMAIN taken, j \in DOMAIN q_' : taken[i] < q_'[j]
      BY <1>2, <2>4 DEF PoolInv, TaskOnce
    <3>2. \A i, j \in DOMAIN q_' : i < j => q_'[i] < q_'[j]
      <4> TAKE i, j \in DOMAIN q_'
      <4> HAVE i < j
      <4>1. i \in DOMAIN q_ /\ q_'[i] = q_[i]
        BY <1>3, <2>2
      <4>2. CASE j \in DOMAIN q_
        BY <2>2, <4>1, <4>2 DEF PoolInv, TaskOnce
      <4>3. CASE j = Len(q_) + 1
        BY <1>2, <2>2, <4>1, <4>3
      <4> QED
        BY <1>3, <2>2, <4>2, <4>3
    <3>3. Len(taken) + Len(q_') + Cardinality(refused) = n
      BY <1>1, <1>3, <2>2 DEF PoolInv, TaskOnce, n
    <3> QED
      BY <1>1, <2>1, <3>1, <3>2, <3>3 DEF PoolInv, TaskOnce
  <2>7. Held'
    <3>1. \A w \in Workers : task[w] \in Nat
      BY DEF PoolInv, PoolTypeOK, Task
    <3>2. \A w \in Workers : task[w] < n
      BY <1>1, <3>1 DEF PoolInv, Held, n
    <3>3. \A w \in Workers, j \in DOMAIN q_' : task[w] < q_'[j]
      BY <2>4, <3>2 DEF PoolInv, Held
    <3> QED
      BY <1>1, <3>1, <3>2, <3>3 DEF PoolInv, Held, n
  <2>8. Joining'
    <3> SUFFICES ASSUME owner = "join"
                 PROVE  /\ atStop <= n
                        /\ Head(q_') <= atStop => q_ # <<>> /\ Head(q_) <= atStop
      BY <1>1 DEF PoolInv, Joining
    <3>1. atStop \in Nat /\ atStop <= submitted
      BY DEF PoolInv, PoolTypeOK, Joining
    <3>2. CASE q_ = <<>>
      <4>1. Head(q_') = n
        BY <2>2, <3>2
      <4> QED
        BY <1>1, <3>1, <4>1 DEF n
    <3>3. CASE q_ # <<>>
      <4>1. Head(q_') = Head(q_)
        BY <1>3, <2>2, <3>3
      <4> QED
        BY <1>1, <3>1, <3>3, <4>1 DEF n
    <3> QED
      BY <3>2, <3>3
  <2>9. Waiting' /\ Worked'
    BY <1>1 DEF PoolInv, Waiting, Worked
  <2> QED
    BY <2>3, <2>5, <2>6, <2>7, <2>8, <2>9 DEF PoolInv
<1> QED
  BY <1>4, <1>5

\* A task is taken from the front.
LEMMA TakeStep ==
  ASSUME PoolInv, NEW w \in Workers, Take(w)
  PROVE  PoolInv'
<1>1. UNCHANGED <<running_, mutex_, waiting, owner, notifying, submitted, refused, worked,
                  missed, atStop>>
  BY DEF Take, stopVars
<1>2. pc[w] = "take" /\ pc \in [Workers -> Pcs] /\ w \notin waiting
  BY DEF Take, PoolInv, PoolTypeOK, Waiting
<1>3. CASE q_ = <<>>
  <2>1. pc' = [pc EXCEPT ![w] = "test"] /\ UNCHANGED <<q_, task, taken>>
    BY <1>3 DEF Take
  <2>2. PoolTypeOK'
    BY <1>1, <2>1 DEF PoolInv, PoolTypeOK, Pcs
  <2>3. Waiting' /\ Held' /\ Worked' /\ Joining'
    BY <1>1, <1>2, <2>1 DEF PoolInv, PoolTypeOK, Waiting, Held, Worked, Joining
  <2> QED
    BY <1>1, <2>1, <2>2, <2>3, QueueKept DEF PoolInv, Queue
<1>4. CASE q_ # <<>>
  <2> DEFINE h == q_[1]
  <2>1. /\ task' = [task EXCEPT ![w] = h] /\ taken' = Append(taken, h)
        /\ q_' = Tail(q_) /\ pc' = [pc EXCEPT ![w] = "run"] /\ Head(q_) = h
    BY <1>4 DEF Take
  <2>2. /\ q_ \in Seq(Task) /\ taken \in Seq(Task) /\ Len(q_) \in Nat /\ Len(q_) >= 1
        /\ DOMAIN q_ = 1 .. Len(q_) /\ h \in Task /\ Len(taken) \in Nat
        /\ DOMAIN taken = 1 .. Len(taken)
    BY <1>4 DEF PoolInv, PoolTypeOK
  <2>3. /\ q_' \in Seq(Task) /\ Len(q_') = Len(q_) - 1 /\ DOMAIN q_' = 1 .. Len(q_) - 1
        /\ \A j \in 1 .. Len(q_) - 1 : j + 1 \in DOMAIN q_ /\ q_'[j] = q_[j + 1]
    BY <2>1, <2>2
  <2>4. /\ taken' \in Seq(Task) /\ Len(taken') = Len(taken) + 1
        /\ DOMAIN taken' = 1 .. Len(taken) + 1
        /\ \A i \in 1 .. Len(taken) : taken'[i] = taken[i]
        /\ taken'[Len(taken) + 1] = h
    BY <2>1, <2>2
  <2>5. h <= submitted /\ h # 0 /\ h \in Nat
    BY <2>2 DEF PoolInv, Numbered, Task
  <2> HIDE DEF h
  <2>6. \A j \in DOMAIN q_' : h < q_'[j]
    <3> TAKE j \in DOMAIN q_'
    <3>1. j + 1 \in DOMAIN q_ /\ 1 \in DOMAIN q_ /\ 1 < j + 1 /\ q_'[j] = q_[j + 1]
      BY <2>2, <2>3
    <3> QED
      BY <3>1 DEF PoolInv, TaskOnce, h
  <2>7. PoolTypeOK'
    <3>1. Len(q_') <= QueueCapacity
      BY <2>2, <2>3, PoolAssumption DEF PoolInv, PoolTypeOK
    <3> QED
      BY <1>1, <2>1, <2>2, <2>3, <2>4, <3>1 DEF PoolInv, PoolTypeOK, Pcs
  <2>8. \A i \in DOMAIN taken' : taken'[i] = h \/ (i \in DOMAIN taken /\ taken'[i] = taken[i])
    BY <2>2, <2>4
  <2>9. Numbered'
    <3>1. \A j \in DOMAIN q_' : q_'[j] <= submitted
      BY <2>3 DEF PoolInv, Numbered
    <3> QED
      BY <1>1, <2>5, <2>8, <3>1 DEF PoolInv, Numbered
  <2>10. TaskOnce'
    <3>1. \A i \in DOMAIN taken : taken[i] < h
      BY <2>2 DEF PoolInv, TaskOnce, h
    <3>2. \A i, j \in DOMAIN taken' : i < j => taken'[i] < taken'[j]
      <4> TAKE i, j \in DOMAIN taken'
      <4> HAVE i < j
      <4>1. i \in DOMAIN taken /\ taken'[i] = taken[i]
        BY <2>2, <2>4
      <4>2. CASE j \in DOMAIN taken
        BY <2>2, <2>4, <4>1, <4>2 DEF PoolInv, TaskOnce
      <4>3. CASE j = Len(taken) + 1
        BY <2>4, <3>1, <4>1, <4>3
      <4> QED
        BY <2>2, <2>4, <4>2, <4>3
    <3>3. \A i \in DOMAIN taken', j \in DOMAIN q_' : taken'[i] < q_'[j]
      <4> TAKE i \in DOMAIN taken', j \in DOMAIN q_'
      <4>1. CASE taken'[i] = h
        BY <2>6, <4>1
      <4>2. CASE i \in DOMAIN taken /\ taken'[i] = taken[i]
        BY <2>3, <4>2 DEF PoolInv, TaskOnce
      <4> QED
        BY <2>8, <4>1, <4>2
    <3>4. \A i, j \in DOMAIN q_' : i < j => q_'[i] < q_'[j]
      <4> TAKE i, j \in DOMAIN q_'
      <4> HAVE i < j
      <4>1. i + 1 \in DOMAIN q_ /\ j + 1 \in DOMAIN q_ /\ i + 1 < j + 1
        BY <2>2, <2>3
      <4> QED
        BY <2>3, <4>1 DEF PoolInv, TaskOnce
    <3>5. Len(taken') + Len(q_') + Cardinality(refused) = submitted
      <4>1. Cardinality(refused) \in Nat
        BY FS_CardinalityType DEF PoolInv, Numbered
      <4> QED
        BY <2>2, <2>3, <2>4, <4>1 DEF PoolInv, TaskOnce
    <3> QED
      BY <1>1, <3>2, <3>3, <3>4, <3>5 DEF TaskOnce
  <2>11. Held'
    <3>1. \A v \in Workers : task[v] < h
      BY <2>2 DEF PoolInv, Held, h
    <3>2. \A v \in Workers : task'[v] = IF v = w THEN h ELSE task[v]
      BY <2>1 DEF PoolInv, PoolTypeOK
    <3>3. \A v \in Workers : pc'[v] = IF v = w THEN "run" ELSE pc[v]
      BY <1>2, <2>1
    <3>4. \A v \in Workers, j \in DOMAIN q_' : task'[v] < q_'[j]
      BY <2>3, <2>6, <3>2 DEF PoolInv, Held
    <3>5. \A v \in Workers : task[v] # h
      BY <2>5, <3>1 DEF PoolInv, PoolTypeOK, Task
    <3> QED
      BY <1>1, <2>5, <3>2, <3>3, <3>4, <3>5 DEF PoolInv, Held
  <2>12. Joining'
    <3> SUFFICES ASSUME owner = "join", q_' # <<>>, Head(q_') <= atStop
                 PROVE  \A v \in Workers : pc'[v] \in {"block", "wait"} => v \in missed
      BY <1>1 DEF PoolInv, Joining
    <3>1. Head(q_') \in Nat /\ h < Head(q_') /\ atStop \in Nat
      <4>1. 1 \in DOMAIN q_' /\ Head(q_') = q_'[1] /\ q_'[1] \in Task
        BY <2>3
      <4> QED
        BY <2>6, <4>1 DEF PoolInv, PoolTypeOK, Task
    <3>2. Head(q_) <= atStop
      BY <2>1, <2>5, <3>1
    <3> QED
      BY <1>2, <1>4, <2>1, <3>2 DEF PoolInv, Joining
  <2>13. Waiting' /\ Worked'
    BY <1>1, <1>2, <2>1 DEF PoolInv, PoolTypeOK, Waiting, Worked
  <2> QED
    BY <2>7, <2>9, <2>10, <2>11, <2>12, <2>13 DEF PoolInv
<1> QED
  BY <1>3, <1>4

\* The other steps of a worker, and the notifications.
LEMMA WorkerStep ==
  ASSUME PoolInv, NEW w \in Workers,
         Test(w) \/ Lock(w) \/ Check(w) \/ Block(w) \/ SpuriousWake(w) \/ TaskEnds(w)
  PROVE  PoolInv'
<1> USE DEF PoolInv, stopVars, Queue
<1>0. UNCHANGED Queue
  BY DEF Test, Lock, Check, Block, SpuriousWake, TaskEnds
<1>1. CASE Test(w)
  <2>1. PoolTypeOK'
    BY <1>1 DEF Test, PoolTypeOK, Pcs
  <2>2. Waiting' /\ Held' /\ Worked' /\ Joining'
    BY <1>1 DEF Test, PoolTypeOK, Waiting, Held, Worked, Joining
  <2> QED
    BY <1>0, <2>1, <2>2, QueueKept
<1>2. CASE Lock(w)
  <2>1. PoolTypeOK'
    BY <1>2 DEF Lock, PoolTypeOK, Pcs
  <2>2. Waiting' /\ Held' /\ Worked' /\ Joining'
    BY <1>2 DEF Lock, PoolTypeOK, Waiting, Held, Worked, Joining
  <2> QED
    BY <1>0, <2>1, <2>2, QueueKept
<1>3. CASE Check(w)
  <2>1. PoolTypeOK'
    BY <1>3 DEF Check, PoolTypeOK, Pcs
  <2>2. Waiting' /\ Held' /\ Worked'
    BY <1>3 DEF Check, PoolTypeOK, Waiting, Held, Worked
  <2>3. Joining'
    BY <1>3 DEF Check, WorkToDo, PoolTypeOK, Joining
  <2> QED
    BY <1>0, <2>1, <2>2, <2>3, QueueKept
<1>4. CASE Block(w)
  <2>1. PoolTypeOK'
    BY <1>4 DEF Block, PoolTypeOK, Pcs
  <2>2. Waiting' /\ Held' /\ Worked' /\ Joining'
    BY <1>4 DEF Block, PoolTypeOK, Waiting, Held, Worked, Joining
  <2> QED
    BY <1>0, <2>1, <2>2, QueueKept
<1>5. CASE SpuriousWake(w)
  <2>1. PoolTypeOK'
    BY <1>5 DEF SpuriousWake, PoolTypeOK, Pcs
  <2>2. Waiting' /\ Held' /\ Worked' /\ Joining'
    BY <1>5 DEF SpuriousWake, PoolTypeOK, Waiting, Held, Worked, Joining
  <2> QED
    BY <1>0, <2>1, <2>2, QueueKept
<1>6. CASE TaskEnds(w)
  <2>1. PoolTypeOK'
    BY <1>6 DEF TaskEnds, PoolTypeOK, Pcs
  <2>2. Waiting' /\ Worked' /\ Joining'
    BY <1>6 DEF TaskEnds, PoolTypeOK, Waiting, Worked, Joining
  <2>3. Held'
    <3>1. \A v \in Workers : task'[v] = IF v = w THEN 0 ELSE task[v]
      BY <1>6 DEF TaskEnds, PoolTypeOK
    <3>2. \A v \in Workers : pc'[v] = IF v = w THEN "test" ELSE pc[v]
      BY <1>6 DEF TaskEnds, PoolTypeOK
    <3>3. \A j \in DOMAIN q_ : 0 < q_[j]
      <4>1. \A j \in DOMAIN q_ : q_[j] \in Task
        BY DEF PoolTypeOK
      <4> QED
        BY <4>1 DEF Task
    <3>4. 0 <= submitted
      BY DEF PoolTypeOK
    <3> QED
      BY <1>0, <3>1, <3>2, <3>3, <3>4 DEF Held
  <2> QED
    BY <1>0, <2>1, <2>2, <2>3, QueueKept
<1> QED
  BY <1>1, <1>2, <1>3, <1>4, <1>5, <1>6

LEMMA NotifyStep ==
  ASSUME PoolInv, NEW s \in Submitters, SubmitNotify(s)
  PROVE  PoolInv'
<1> USE DEF PoolInv, stopVars, Queue
<1>1. UNCHANGED Queue
  BY DEF SubmitNotify
<1>2. PoolTypeOK' /\ Waiting' /\ Held' /\ Worked' /\ Joining'
  <2>1. CASE waiting = {}
    BY <2>1 DEF SubmitNotify, PoolTypeOK, Waiting, Held, Worked, Joining
  <2>2. CASE waiting # {}
    <3>1. PICK w \in waiting : waiting' = waiting \ {w} /\ pc' = [pc EXCEPT ![w] = "lock"]
      BY <2>2 DEF SubmitNotify
    <3>2. /\ w \in Workers /\ pc[w] = "wait" /\ notifying' = notifying \ {s}
          /\ UNCHANGED <<running_, mutex_, q_, task, owner, submitted, refused, taken, worked,
                         missed, atStop>>
      BY <2>2, <3>1 DEF SubmitNotify, PoolTypeOK, Waiting
    <3>3. PoolTypeOK'
      BY <3>1, <3>2 DEF PoolTypeOK, Pcs
    <3>4. \A v \in Workers : pc'[v] = IF v = w THEN "lock" ELSE pc[v]
      BY <3>1 DEF PoolTypeOK
    <3>5. Held'
      BY <3>2, <3>4 DEF Held
    <3>6. Waiting' /\ Worked' /\ Joining'
      BY <3>1, <3>2, <3>4 DEF PoolTypeOK, Waiting, Worked, Joining
    <3> QED
      BY <3>3, <3>5, <3>6
  <2> QED
    BY <2>1, <2>2
<1> QED
  BY <1>1, <1>2, QueueKept

LEMMA PoolStep == PoolInv /\ [PoolNext]_poolVars => PoolInv'
<1> SUFFICES ASSUME PoolInv, [PoolNext]_poolVars
             PROVE  PoolInv'
  OBVIOUS
<1>1. CASE UNCHANGED poolVars
  BY <1>1 DEF poolVars, stopVars, PoolInv, PoolTypeOK, Waiting, Numbered, TaskOnce, Held, Worked,
              Joining
<1> QED
  BY <1>1, OwnerStep, PushStep, NotifyStep, TakeStep, WorkerStep DEF PoolNext, Work

-----------------------------------------------------------------------------
(* EventLoop over its pool *)

\* The pool's steps other than submit and the end of a task.
PoolOnly == \/ Owner \/ Restart \/ StopNotify
            \/ \E s \in Submitters : SubmitNotify(s)
            \/ \E w \in Workers : Work(w) \/ SpuriousWake(w)

\* Every step of EventLoop is one of its pool, or leaves the pool alone.
LEMMA LoopIsPool == [LoopNext]_eventLoopVars => [PoolNext]_poolVars
<1> SUFFICES ASSUME [LoopNext]_eventLoopVars
             PROVE  PoolNext \/ UNCHANGED poolVars
  OBVIOUS
<1>1. ASSUME NEW id \in Ids, addTaskScheduler(id) \/ getTaskScheduler(id)
      PROVE  UNCHANGED poolVars
  BY <1>1 DEF addTaskScheduler, getTaskScheduler
<1>2. CASE Run
  BY <1>2 DEF Run, PoolNext
<1>3. CASE RunStep
  <2>1. Runner \in Submitters
    BY LoopAssumption
  <2> QED
    BY <1>3, <2>1 DEF RunStep, Sleep, StopPool, SubmitStart, PoolNext
<1>4. CASE UsePool
  BY <1>4 DEF UsePool, PoolNext
<1>5. ASSUME NEW s \in Submitters \ {Runner}, SubmitOther(s)
      PROVE  PoolNext
  BY <1>5 DEF SubmitOther, PoolNext
<1>6. ASSUME NEW w \in Workers,
             Pool(w) \/ Begin(w) \/ EnterLoop(w) \/ LeaveLoop(w) \/ OtherEnds(w)
      PROVE  PoolNext \/ UNCHANGED poolVars
  BY <1>6 DEF Pool, Begin, EnterLoop, LeaveLoop, OtherEnds, PoolNext
<1>7. ASSUME NEW o \in Schedulers, StopScheduler(o)
      PROVE  UNCHANGED poolVars
  BY <1>7 DEF StopScheduler
<1>8. CASE UNCHANGED eventLoopVars
  BY <1>8 DEF eventLoopVars
<1> QED
  BY <1>1, <1>2, <1>3, <1>4, <1>5, <1>6, <1>7, <1>8 DEF LoopNext

\* A worker that runs a task keeps it while others move.
RunKept(w) == pc[w] = "run" => pc'[w] = "run" /\ task'[w] = task[w]

LEMMA PoolOnlyKeeps ==
  ASSUME PoolInv, PoolOnly
  PROVE  submitted' = submitted /\ \A w \in Workers : RunKept(w)
<1> USE DEF RunKept
<1>1. pc \in [Workers -> Pcs] /\ task \in [Workers -> Task \cup {0}]
  BY DEF PoolInv, PoolTypeOK
<1>2. CASE Owner \/ Restart
  BY <1>1, <1>2 DEF Owner, Spawn, SetRunning, Join, StopClear, Restart
<1>3. CASE StopNotify
  BY <1>1, <1>3 DEF StopNotify, PoolInv, Waiting
<1>4. ASSUME NEW s \in Submitters, SubmitNotify(s)
      PROVE  submitted' = submitted /\ \A w \in Workers : RunKept(w)
  BY <1>1, <1>4 DEF SubmitNotify, PoolInv, PoolTypeOK, Waiting
<1>5. ASSUME NEW w \in Workers, Work(w) \/ SpuriousWake(w)
      PROVE  submitted' = submitted /\ \A v \in Workers : RunKept(v)
  BY <1>1, <1>5 DEF Work, Test, Lock, Check, Block, Take, SpuriousWake, PoolInv, Waiting
<1> QED
  BY <1>2, <1>3, <1>4, <1>5 DEF PoolOnly

LEMMA EndsKeeps ==
  ASSUME PoolInv, NEW w \in Workers, TaskEnds(w)
  PROVE  submitted' = submitted /\ \A v \in Workers \ {w} : RunKept(v)
BY DEF TaskEnds, PoolInv, PoolTypeOK, RunKept

\* What the loop's variables say is kept by steps of the pool alone.
LEMMA LoopKept ==
  ASSUME LoopInv, PoolInv', UNCHANGED loopVars, submitted' = submitted,
         \A w \in Workers : starting[w] # 0 => RunKept(w)
  PROVE  LoopInv'
<1> USE DEF LoopInv, loopVars
<1>1. LoopTypeOK'
  BY DEF LoopTypeOK, PoolInv, RunKept, Registered
<1>2. Started'
  BY DEF Started, RunKept
<1>3. Met'
  BY DEF Met, Starts
<1> QED
  BY <1>1, <1>2, <1>3

LEMMA SeqFacts ==
  ASSUME NEW S, NEW s \in Seq(S)
  PROVE  DOMAIN s = 1 .. Len(s) /\ \A u \in DOMAIN s : s[u] \in S
OBVIOUS

\* A sequence with one element more.
LEMMA AppendFacts ==
  ASSUME NEW S, NEW s \in Seq(S), NEW e \in S
  PROVE  /\ Append(s, e) \in Seq(S) /\ Len(Append(s, e)) = Len(s) + 1
         /\ \A t \in DOMAIN s : t \in DOMAIN Append(s, e) /\ Append(s, e)[t] = s[t]
         /\ \A t \in DOMAIN Append(s, e) : t \in DOMAIN s \/ (t = Len(s) + 1 /\ Append(s, e)[t] = e)
         /\ Len(s) + 1 \in DOMAIN Append(s, e) /\ Append(s, e)[Len(s) + 1] = e
         /\ Len(s) + 1 \notin DOMAIN s
OBVIOUS

\* What run has still to meet after the map got an entry or changed one.
LEMMA LinkedFacts ==
  ASSUME LoopInv, NEW id \in Ids, Linked(id)
  PROVE  /\ todo' \subseteq Registered \cup {id} /\ rehashed' \in BOOLEAN
         /\ loop # "submit" => todo' = {}
         /\ ~ rehashed' => ~ rehashed /\ todo \subseteq todo'
         /\ ~ rehashed' => (todo' = todo \/ (todo' = todo \cup {id} /\ id \notin Registered))
BY DEF Linked, LoopInv, LoopTypeOK, Met

\* A new scheduler has a number of its own.
LEMMA AddStep ==
  ASSUME LoopInv, PoolInv', NEW id \in Ids, addTaskScheduler(id)
  PROVE  LoopInv'
<1> DEFINE n == made + 1
<1>1. /\ n \in Nat /\ made \in Nat /\ n \in 0 .. MaxMade /\ made' = n /\ idOf' = Append(idOf, id)
      /\ task_schedulers_' = [task_schedulers_ EXCEPT ![id] = n]
      /\ UNCHANGED <<poolVars, loop, startOf, starting, looping, runningOnes, seen>>
      /\ Linked(id)
  BY LoopAssumption DEF addTaskScheduler, LoopInv, LoopTypeOK
<1>2. /\ task_schedulers_ \in [Ids -> 0 .. made] /\ startOf \in Seq(0 .. made)
      /\ starting \in [Workers -> 0 .. made] /\ seen \subseteq Registered
      /\ idOf \in Seq(Ids) /\ Len(idOf) = made
  BY DEF LoopInv, LoopTypeOK
<1>3. 0 .. made \subseteq 0 .. n /\ n # 0 /\ n \in 0 .. n
  BY <1>1
<1>4. Registered' = Registered \cup {id}
  BY <1>1, <1>2, <1>3 DEF Registered
<1>5. /\ idOf' \in Seq(Ids) /\ Len(idOf') = n /\ idOf'[n] = id /\ DOMAIN idOf = 1 .. made
      /\ \A o \in 1 .. made : idOf'[o] = idOf[o] /\ idOf[o] \in Ids
  <2>1. /\ idOf' \in Seq(Ids) /\ Len(idOf') = Len(idOf) + 1 /\ idOf'[Len(idOf) + 1] = id
        /\ \A t \in DOMAIN idOf : idOf'[t] = idOf[t]
    BY <1>1, <1>2, AppendFacts
  <2>2. DOMAIN idOf = 1 .. Len(idOf) /\ \A u \in DOMAIN idOf : idOf[u] \in Ids
    BY <1>2, SeqFacts
  <2> QED
    BY <1>2, <2>1, <2>2
<1>6. LoopTypeOK'
  <2>1. task_schedulers_' \in [Ids -> 0 .. made']
    BY <1>1, <1>2, <1>3
  <2>2. startOf' \in Seq(0 .. made')
    BY <1>1, <1>2, <1>3
  <2>3. starting' \in [Workers -> 0 .. made']
    BY <1>1, <1>2, <1>3
  <2>4. todo' \subseteq Registered' /\ seen' \subseteq Registered' /\ rehashed' \in BOOLEAN
    BY <1>1, <1>2, <1>4, LinkedFacts
  <2> QED
    BY <1>1, <1>5, <2>1, <2>2, <2>3, <2>4 DEF LoopInv, LoopTypeOK, PoolInv, poolVars
<1>7. Met'
  <2>1. \A o \in 1 .. made' : task_schedulers_'[idOf'[o]] # 0
    <3>1. \A o \in 1 .. made : task_schedulers_'[idOf'[o]] # 0
      BY <1>1, <1>2, <1>3, <1>5 DEF LoopInv, Met
    <3>2. task_schedulers_'[idOf'[n]] # 0
      BY <1>1, <1>2, <1>3, <1>5
    <3>3. \A o \in 1 .. made' : o \in 1 .. made \/ o = n
      BY <1>1
    <3> QED
      BY <3>1, <3>2, <3>3
  <2>2. \A i \in Ids : task_schedulers_'[i] # 0 => idOf'[task_schedulers_'[i]] = i
    <3>1. ASSUME NEW i \in Ids, i # id, task_schedulers_[i] # 0
          PROVE  idOf'[task_schedulers_[i]] = i
      <4>1. task_schedulers_[i] \in 1 .. made
        BY <1>1, <1>2, <3>1
      <4> QED
        BY <1>5, <3>1, <4>1 DEF LoopInv, Met
    <3> QED
      BY <1>1, <1>2, <1>5, <3>1
  <2>3. \A i \in Ids, t \in DOMAIN startOf : Starts(t, i)' <=> Starts(t, i)
    <3>1. \A t \in DOMAIN startOf : startOf[t] # 0 => startOf[t] \in 1 .. made
      <4>1. \A t \in DOMAIN startOf : startOf[t] \in 0 .. made
        BY <1>2, SeqFacts
      <4> QED
        BY <1>1, <4>1
    <3> QED
      BY <1>1, <1>5, <3>1 DEF Starts
  <2>4. \A t \in DOMAIN startOf : Starts(t, id) => id \in Registered
    <3>1. \A t \in DOMAIN startOf : startOf[t] # 0 => startOf[t] \in 1 .. made
      <4>1. \A t \in DOMAIN startOf : startOf[t] \in 0 .. made
        BY <1>2, SeqFacts
      <4> QED
        BY <1>1, <4>1
    <3> QED
      BY <3>1 DEF Starts, LoopInv, Met, Registered
  <2>5. /\ loop' # "submit" => todo' = {}
        /\ loop' = "off" => \A t \in DOMAIN startOf' : startOf'[t] = 0
    BY <1>1, LinkedFacts DEF LoopInv, Met
  <2>6. ASSUME ~ rehashed'
        PROVE  /\ ~ rehashed /\ todo \subseteq todo'
               /\ (todo' = todo \/ (todo' = todo \cup {id} /\ id \notin Registered))
    BY <1>1, <2>6, LinkedFacts
  <2>7. ASSUME ~ rehashed'
        PROVE  \A i \in Ids : \A t, u \in DOMAIN startOf' : (Starts(t, i) /\ Starts(u, i))' => t = u
    BY <1>1, <2>3, <2>6, <2>7 DEF LoopInv, Met
  <2>8. ASSUME ~ rehashed'
        PROVE  \A t \in DOMAIN startOf', i \in todo' : ~ Starts(t, i)'
    <3>1. todo \subseteq Ids /\ todo' \subseteq Ids
      BY <1>1, LinkedFacts DEF LoopInv, LoopTypeOK, Registered
    <3>2. \A t \in DOMAIN startOf, i \in todo : ~ Starts(t, i)
      BY <2>6, <2>8 DEF LoopInv, Met
    <3> QED
      BY <1>1, <2>3, <2>4, <2>6, <2>8, <3>1, <3>2
  <2>9. ASSUME ~ rehashed', loop' # "off"
        PROVE  \A i \in seen' \ todo' : \E t \in DOMAIN startOf' : Starts(t, i)'
    <3>1. \A i \in seen \ todo : i \in Ids /\ \E t \in DOMAIN startOf : Starts(t, i)
      BY <1>1, <1>2, <2>6, <2>9 DEF LoopInv, Met, Registered
    <3> QED
      BY <1>1, <2>3, <2>6, <2>9, <3>1
  <2> QED
    BY <2>1, <2>2, <2>5, <2>7, <2>8, <2>9 DEF Met
<1>8. Started'
  BY <1>1 DEF LoopInv, Started, poolVars
<1> QED
  BY <1>6, <1>7, <1>8 DEF LoopInv

\* run() begins with the schedulers that are there.
LEMMA RunBegins ==
  ASSUME LoopInv, PoolInv', Run
  PROVE  LoopInv'
<1>1. /\ loop = "off" /\ loop' = "submit" /\ todo' = Registered
      /\ seen' = Registered
      /\ UNCHANGED <<task_schedulers_, made, idOf, startOf, starting, looping, runningOnes, rehashed>>
      /\ UNCHANGED poolVars \/ Restart
  BY DEF Run
<1>2. submitted' = submitted /\ \A w \in Workers : RunKept(w)
  <2>1. CASE UNCHANGED poolVars
    BY <2>1 DEF poolVars, RunKept
  <2>2. CASE Restart
    BY <2>2, PoolOnlyKeeps DEF PoolOnly, LoopInv
  <2> QED
    BY <1>1, <2>1, <2>2
<1>4. LoopTypeOK'
  BY <1>1, <1>2 DEF LoopInv, LoopTypeOK, PoolInv, RunKept, Registered
<1>5. Started'
  BY <1>1, <1>2 DEF LoopInv, LoopTypeOK, Started, RunKept
<1>6. Met'
  <2>1. \A t \in DOMAIN startOf : startOf[t] = 0
    BY <1>1 DEF LoopInv, Met, Starts
  <2>2. seen' \ todo' = {}
    BY <1>1
  <2> QED
    BY <1>1, <2>1, <2>2 DEF LoopInv, Met, Starts
<1> QED
  BY <1>4, <1>5, <1>6 DEF LoopInv

\* A task more, of a scheduler or of another.
LEMMA SubmitKeeps ==
  ASSUME LoopInv, PoolInv', NEW s \in Submitters, SubmitPush(s), NEW e \in 0 .. made,
         startOf' = Append(startOf, e), todo' \subseteq todo,
         UNCHANGED <<loop, task_schedulers_, made, idOf, starting, looping, runningOnes,
                     rehashed, seen>>
  PROVE  LoopTypeOK' /\ Started'
<1>1. submitted' = submitted + 1 /\ pc' = pc /\ task' = task
  BY DEF SubmitPush
<1>2. /\ startOf \in Seq(0 .. made) /\ startOf' \in Seq(0 .. made)
      /\ Len(startOf') = submitted' /\ Len(startOf) = submitted
      /\ \A t \in DOMAIN startOf : t \in DOMAIN startOf' /\ startOf'[t] = startOf[t]
  BY <1>1, AppendFacts DEF LoopInv, LoopTypeOK
<1>3. LoopTypeOK'
  BY <1>1, <1>2 DEF LoopInv, LoopTypeOK, PoolInv, Registered
<1>4. Started'
  <2>1. \A w \in Workers : pc[w] = "run" => task[w] \in DOMAIN startOf
    BY <1>2 DEF LoopInv, PoolInv, PoolTypeOK, Held, Task
  <2> QED
    BY <1>1, <1>2, <2>1 DEF LoopInv, Started
<1> QED
  BY <1>3, <1>4

\* run() submits the start of a scheduler that it has not submitted.
LEMMA SubmitStartStep ==
  ASSUME LoopInv, PoolInv', NEW id \in Ids, SubmitStart(id)
  PROVE  LoopInv'
<1> DEFINE e == task_schedulers_[id]
<1>1. /\ loop = "submit" /\ id \in todo /\ SubmitPush(Runner) /\ todo' = todo \ {id}
      /\ startOf' = Append(startOf, e)
      /\ UNCHANGED <<loop, task_schedulers_, made, idOf, starting, looping, runningOnes, rehashed, seen>>
  BY DEF SubmitStart
<1>2. /\ e \in 0 .. made /\ e # 0 /\ startOf \in Seq(0 .. made) /\ todo \subseteq Ids
      /\ \A i \in todo : task_schedulers_[i] # 0
  BY <1>1 DEF LoopInv, LoopTypeOK, Registered
<1>3. LoopTypeOK' /\ Started'
  BY <1>1, <1>2, SubmitKeeps, LoopAssumption
<1>4. Met'
  <2> HIDE DEF e
  <2>1. /\ \A t \in DOMAIN startOf : t \in DOMAIN startOf' /\ startOf'[t] = startOf[t]
        /\ \A t \in DOMAIN startOf' : t \in DOMAIN startOf \/ (t = Len(startOf) + 1 /\ startOf'[t] = e)
        /\ Len(startOf) + 1 \in DOMAIN startOf' /\ startOf'[Len(startOf) + 1] = e
    BY <1>1, <1>2, AppendFacts
  <2>2. idOf[e] = id
    BY <1>2 DEF LoopInv, Met, e
  <2>3. /\ \A t \in DOMAIN startOf, i \in Ids : Starts(t, i)' <=> Starts(t, i)
        /\ \A t \in DOMAIN startOf' : t \in DOMAIN startOf
                                       \/ (t = Len(startOf) + 1 /\ \A i \in Ids : Starts(t, i)' <=> i = id)
        /\ \E t \in DOMAIN startOf' : Starts(t, id)'
    <3>1. /\ \A t \in DOMAIN startOf : startOf'[t] = startOf[t]
          /\ UNCHANGED idOf
      BY <1>1, <2>1
    <3>2. \A t \in DOMAIN startOf, i \in Ids : Starts(t, i)' <=> Starts(t, i)
      BY <3>1 DEF Starts
    <3>3. ASSUME NEW t \in DOMAIN startOf', startOf'[t] = e
          PROVE  \A i \in Ids : Starts(t, i)' <=> i = id
      BY <1>2, <2>2, <3>1, <3>3 DEF Starts
    <3> QED
      BY <2>1, <3>2, <3>3
  <2>4. ASSUME ~ rehashed
        PROVE  /\ \A i \in Ids : \A t, u \in DOMAIN startOf : Starts(t, i) /\ Starts(u, i) => t = u
               /\ \A t \in DOMAIN startOf, i \in todo : ~ Starts(t, i)
               /\ \A i \in seen \ todo : \E t \in DOMAIN startOf : Starts(t, i)
    BY <1>1, <2>4 DEF LoopInv, Met
  <2>5. ASSUME ~ rehashed
        PROVE  /\ \A i \in Ids : \A t, u \in DOMAIN startOf' : (Starts(t, i) /\ Starts(u, i))' => t = u
               /\ \A t \in DOMAIN startOf', i \in todo' : ~ Starts(t, i)'
    BY <1>1, <1>2, <2>1, <2>3, <2>4, <2>5
  <2>6. ASSUME ~ rehashed
        PROVE  \A i \in seen \ todo' : \E t \in DOMAIN startOf' : Starts(t, i)'
    <3>1. seen \subseteq Ids
      BY DEF LoopInv, LoopTypeOK, Registered
    <3> QED
      BY <1>1, <2>1, <2>3, <2>4, <2>6, <3>1
  <2> QED
    BY <1>1, <2>5, <2>6 DEF LoopInv, Met
<1> QED
  BY <1>3, <1>4 DEF LoopInv

\* Another thread submits a task of its own.
LEMMA SubmitOtherStep ==
  ASSUME LoopInv, PoolInv', NEW s \in Submitters, SubmitOther(s)
  PROVE  LoopInv'
<1>1. /\ SubmitPush(s) /\ startOf' = Append(startOf, 0)
      /\ UNCHANGED <<loop, task_schedulers_, made, idOf, todo, starting, looping, runningOnes, rehashed, seen>>
  BY DEF SubmitOther
<1>2. 0 \in 0 .. made /\ startOf \in Seq(0 .. made) /\ \A id \in todo : task_schedulers_[id] # 0
  BY DEF LoopInv, LoopTypeOK, Registered
<1>3. LoopTypeOK' /\ Started'
  BY <1>1, <1>2, SubmitKeeps
<1>4. Met'
  <2>1. /\ \A t \in DOMAIN startOf : t \in DOMAIN startOf' /\ startOf'[t] = startOf[t]
        /\ \A t \in DOMAIN startOf' : startOf'[t] = 0 \/ (t \in DOMAIN startOf /\ startOf'[t] = startOf[t])
    BY <1>1, <1>2, AppendFacts
  <2>2. \A i \in Ids : \A t \in DOMAIN startOf' : Starts(t, i)' => t \in DOMAIN startOf
    BY <2>1 DEF Starts
  <2>3. \A i \in Ids : \A t \in DOMAIN startOf : Starts(t, i)' <=> Starts(t, i)
    BY <1>1, <2>1 DEF Starts
  <2>4. todo \subseteq Ids /\ seen \subseteq Ids
    BY DEF LoopInv, LoopTypeOK, Registered
  <2>5. loop = "off" => \A t \in DOMAIN startOf' : startOf'[t] = 0
    BY <2>1 DEF LoopInv, Met
  <2> QED
    BY <1>1, <2>1, <2>2, <2>3, <2>4, <2>5 DEF LoopInv, Met
<1> QED
  BY <1>3, <1>4 DEF LoopInv

\* run() stops the pool, and sleeps.
LEMMA StopStep ==
  ASSUME LoopInv, PoolInv', StopPool \/ Sleep
  PROVE  LoopInv'
<1>1. /\ todo = {} /\ loop # "off" /\ loop' \in {"stop", "asleep"}
      /\ UNCHANGED <<task_schedulers_, made, idOf, todo, startOf, starting, looping, runningOnes, rehashed, seen>>
      /\ UNCHANGED poolVars \/ StopNotify
  BY DEF StopPool, Sleep, LoopInv, Met
<1>2. submitted' = submitted /\ \A w \in Workers : RunKept(w)
  <2>1. CASE UNCHANGED poolVars
    BY <2>1 DEF poolVars, RunKept
  <2>2. CASE StopNotify
    BY <2>2, PoolOnlyKeeps DEF PoolOnly, LoopInv
  <2> QED
    BY <1>1, <2>1, <2>2
<1>3. LoopTypeOK'
  BY <1>1, <1>2 DEF LoopInv, LoopTypeOK, PoolInv, RunKept, Registered
<1>4. Started'
  BY <1>1, <1>2 DEF LoopInv, LoopTypeOK, Started, RunKept
<1>5. Met'
  BY <1>1 DEF LoopInv, Met, Starts
<1> QED
  BY <1>3, <1>4, <1>5 DEF LoopInv

\* A worker calls the start() of a scheduler: its task's, or a later one's.
LEMMA BeginStep ==
  ASSUME LoopInv, PoolInv', NEW w \in Workers, Begin(w)
  PROVE  LoopInv'
<1>1. /\ pc[w] = "run" /\ starting[w] = 0 /\ startOf[task[w]] # 0
      /\ UNCHANGED <<loop, task_schedulers_, made, idOf, todo, startOf, looping, runningOnes, rehashed, seen>>
  BY DEF Begin
<1>2. PICK t \in task[w] .. submitted :
        /\ startOf[t] # 0
        /\ IF startOf[t] \in runningOnes
             THEN TaskEnds(w) /\ UNCHANGED starting
             ELSE starting' = [starting EXCEPT ![w] = startOf[t]] /\ UNCHANGED poolVars
  BY DEF Begin
<1>3. Met'
  BY <1>1 DEF LoopInv, Met, Starts
<1>4. t \in DOMAIN startOf /\ startOf[t] \in 0 .. made
  <2>1. startOf \in Seq(0 .. made) /\ Len(startOf) = submitted /\ submitted \in Nat
    BY DEF LoopInv, LoopTypeOK, PoolInv, PoolTypeOK
  <2>2. DOMAIN startOf = 1 .. submitted /\ \A u \in DOMAIN startOf : startOf[u] \in 0 .. made
    <3>1. DOMAIN startOf = 1 .. Len(startOf) /\ \A u \in DOMAIN startOf : startOf[u] \in 0 .. made
      BY <2>1, SeqFacts
    <3> QED
      BY <2>1, <3>1, Zenon
  <2>3. task[w] \in Task
    BY <1>1 DEF LoopInv, PoolInv, PoolTypeOK, Held
  <2>4. task[w] \in Nat /\ task[w] # 0
    BY <2>3 DEF Task
  <2> QED
    BY <2>1, <2>2, <2>4
<1>5. CASE startOf[t] \in runningOnes
  <2>1. TaskEnds(w) /\ UNCHANGED starting
    BY <1>2, <1>5
  <2>2. submitted' = submitted /\ \A v \in Workers : starting[v] # 0 => RunKept(v)
    BY <1>1, <2>1, EndsKeeps DEF LoopInv
  <2>3. LoopTypeOK'
    BY <1>1, <1>2, <2>1, <2>2 DEF LoopInv, LoopTypeOK, PoolInv, RunKept, Registered
  <2>4. Started'
    BY <1>1, <1>2, <2>1, <2>2 DEF LoopInv, LoopTypeOK, Started, RunKept
  <2> QED
    BY <1>3, <2>3, <2>4 DEF LoopInv
<1>6. CASE startOf[t] \notin runningOnes
  <2>1. starting' = [starting EXCEPT ![w] = startOf[t]] /\ UNCHANGED poolVars
    BY <1>2, <1>6
  <2>2. \A v \in Workers : starting'[v] = IF v = w THEN startOf[t] ELSE starting[v]
    BY <2>1 DEF LoopInv, LoopTypeOK
  <2>3. UNCHANGED <<pc, task, submitted>>
    BY <2>1 DEF poolVars
  <2>4. LoopTypeOK'
    <3>1. starting' \in [Workers -> 0 .. made]
      BY <1>4, <2>1 DEF LoopInv, LoopTypeOK
    <3>2. looping \subseteq {v \in Workers : starting'[v] # 0}
      BY <1>2, <2>2 DEF LoopInv, LoopTypeOK
    <3>3. \A v \in Workers : starting'[v] # 0 => pc[v] = "run"
      BY <1>1, <2>2 DEF LoopInv, LoopTypeOK
    <3> QED
      BY <1>1, <1>2, <2>3, <3>1, <3>2, <3>3 DEF LoopInv, LoopTypeOK, PoolInv, Registered
  <2>5. Started'
    BY <1>1, <1>2, <2>2, <2>3 DEF LoopInv, Started
  <2> QED
    BY <1>3, <2>4, <2>5 DEF LoopInv
<1> QED
  BY <1>5, <1>6

\* It enters the loop of the scheduler.
LEMMA EnterStep ==
  ASSUME LoopInv, PoolInv', NEW w \in Workers, EnterLoop(w)
  PROVE  LoopInv'
<1>1. UNCHANGED <<poolVars, loop, task_schedulers_, made, idOf, todo, startOf, starting, rehashed, seen>>
  BY DEF EnterLoop
<1>2. looping' = looping \cup {w} /\ runningOnes' = runningOnes \cup {starting[w]} /\ starting[w] # 0
  BY DEF EnterLoop
<1>3. starting[w] \in Schedulers
  BY <1>2, LoopAssumption DEF LoopInv, LoopTypeOK, Schedulers
<1>4. LoopTypeOK'
  BY <1>1, <1>2, <1>3 DEF LoopInv, LoopTypeOK, PoolInv, Registered, poolVars
<1>5. Started' /\ Met'
  BY <1>1 DEF LoopInv, Started, Met, Starts, poolVars
<1> QED
  BY <1>4, <1>5 DEF LoopInv

\* It leaves the loop, and its task ends.
LEMMA LeaveStep ==
  ASSUME LoopInv, PoolInv', NEW w \in Workers, LeaveLoop(w)
  PROVE  LoopInv'
<1>1. /\ UNCHANGED <<loop, task_schedulers_, made, idOf, todo, startOf, runningOnes, rehashed, seen>>
      /\ TaskEnds(w) /\ looping' = looping \ {w} /\ starting' = [starting EXCEPT ![w] = 0]
  BY DEF LeaveLoop
<1>2. submitted' = submitted /\ \A v \in Workers \ {w} : RunKept(v)
  BY <1>1, EndsKeeps DEF LoopInv
<1>3. \A v \in Workers : starting'[v] = IF v = w THEN 0 ELSE starting[v]
  BY <1>1 DEF LoopInv, LoopTypeOK
<1>4. LoopTypeOK'
  <2>1. starting' \in [Workers -> 0 .. made]
    BY <1>1 DEF LoopInv, LoopTypeOK
  <2>2. looping' \subseteq {v \in Workers : starting'[v] # 0}
    BY <1>1, <1>3 DEF LoopInv, LoopTypeOK
  <2>3. \A v \in Workers : starting'[v] # 0 => pc'[v] = "run"
    BY <1>2, <1>3 DEF LoopInv, LoopTypeOK, RunKept
  <2> QED
    BY <1>1, <1>2, <2>1, <2>2, <2>3 DEF LoopInv, LoopTypeOK, PoolInv, Registered
<1>5. Started'
  BY <1>1, <1>2, <1>3 DEF LoopInv, LoopTypeOK, Started, RunKept
<1>6. Met'
  BY <1>1 DEF LoopInv, Met, Starts
<1> QED
  BY <1>4, <1>5, <1>6 DEF LoopInv

\* Another thread stops the scheduler.
LEMMA StopSchedulerStep ==
  ASSUME LoopInv, PoolInv', NEW o \in Schedulers, StopScheduler(o)
  PROVE  LoopInv'
<1>1. /\ UNCHANGED <<poolVars, loop, task_schedulers_, made, idOf, todo, startOf, starting, looping,
                    rehashed, seen>>
      /\ runningOnes' = runningOnes \ {o}
  BY DEF StopScheduler
<1>2. LoopTypeOK'
  BY <1>1 DEF LoopInv, LoopTypeOK, PoolInv, Registered, poolVars
<1>3. Started' /\ Met'
  BY <1>1 DEF LoopInv, Started, Met, Starts, poolVars
<1> QED
  BY <1>2, <1>3 DEF LoopInv

LEMMA LoopInitInv == LoopInit => LoopInv
<1> SUFFICES ASSUME LoopInit PROVE LoopInv
  OBVIOUS
<1>1. PoolInv
  BY PoolInitInv DEF LoopInit
<1>2. LoopTypeOK
  <2>1. submitted = 0
    BY DEF LoopInit, PoolInit
  <2>2. startOf \in Seq(0 .. made) /\ Len(startOf) = 0 /\ made \in 0 .. MaxMade /\ 0 \in 0 .. made
    BY LoopAssumption DEF LoopInit
  <2>3. idOf \in Seq(Ids) /\ Len(idOf) = made
    BY DEF LoopInit
  <2>4. todo = {} /\ seen = {} /\ looping = {} /\ runningOnes = {}
    BY DEF LoopInit
  <2>5. task_schedulers_ \in [Ids -> 0 .. made] /\ starting \in [Workers -> 0 .. made]
    BY <2>2 DEF LoopInit
  <2>6. \A w \in Workers : starting[w] = 0
    BY DEF LoopInit
  <2> QED
    BY <1>1, <2>1, <2>2, <2>3, <2>4, <2>5, <2>6 DEF LoopInit, LoopTypeOK, PoolInv
<1>3. Started /\ Met
  BY DEF LoopInit, Started, Met
<1> QED
  BY <1>1, <1>2, <1>3 DEF LoopInv

\* The pool's own steps, taken by the thread that owns it and by its workers.
LEMMA PoolOnlyStep ==
  ASSUME LoopInv, PoolInv', PoolOnly, UNCHANGED loopVars
  PROVE  LoopInv'
<1>1. submitted' = submitted /\ \A w \in Workers : RunKept(w)
  BY PoolOnlyKeeps DEF LoopInv
<1> QED
  BY <1>1, LoopKept

LEMMA OtherEndsStep ==
  ASSUME LoopInv, PoolInv', NEW w \in Workers, OtherEnds(w)
  PROVE  LoopInv'
<1>1. TaskEnds(w) /\ startOf[task[w]] = 0 /\ UNCHANGED loopVars
  BY DEF OtherEnds
<1>2. starting[w] = 0
  BY <1>1 DEF LoopInv, Started
<1>3. submitted' = submitted /\ \A v \in Workers : starting[v] # 0 => RunKept(v)
  BY <1>1, <1>2, EndsKeeps DEF LoopInv
<1> QED
  BY <1>1, <1>3, LoopKept

LEMMA LoopStep == LoopInv /\ [LoopNext]_eventLoopVars => LoopInv'
<1> SUFFICES ASSUME LoopInv, [LoopNext]_eventLoopVars
             PROVE  LoopInv'
  OBVIOUS
<1>1. PoolInv'
  BY LoopIsPool, PoolStep DEF LoopInv
<1>2. ASSUME NEW id \in Ids, addTaskScheduler(id) \/ getTaskScheduler(id)
      PROVE  LoopInv'
  BY <1>1, <1>2, AddStep DEF getTaskScheduler
<1>3. CASE Run
  BY <1>1, <1>3, RunBegins
<1>4. CASE RunStep
  <2>1. CASE Sleep \/ StopPool
    BY <1>1, <2>1, StopStep
  <2>2. ASSUME NEW id \in Ids, SubmitStart(id)
        PROVE  LoopInv'
    BY <1>1, <2>2, SubmitStartStep
  <2>3. CASE UNCHANGED loopVars /\ (Owner \/ SubmitNotify(Runner))
    <3>1. PoolOnly
      BY <2>3, LoopAssumption DEF PoolOnly
    <3> QED
      BY <1>1, <2>3, <3>1, PoolOnlyStep
  <2> QED
    BY <1>4, <2>1, <2>2, <2>3 DEF RunStep
<1>5. CASE UsePool
  <2>1. PoolOnly /\ UNCHANGED loopVars
    BY <1>5 DEF UsePool, PoolOnly
  <2> QED
    BY <1>1, <2>1, PoolOnlyStep
<1>6. ASSUME NEW s \in Submitters \ {Runner}, SubmitOther(s)
      PROVE  LoopInv'
  BY <1>1, <1>6, SubmitOtherStep
<1>7. ASSUME NEW w \in Workers,
             Pool(w) \/ Begin(w) \/ EnterLoop(w) \/ LeaveLoop(w) \/ OtherEnds(w)
      PROVE  LoopInv'
  <2>1. CASE Pool(w)
    <3>1. PoolOnly /\ UNCHANGED loopVars
      BY <2>1 DEF Pool, PoolOnly
    <3> QED
      BY <1>1, <3>1, PoolOnlyStep
  <2>2. CASE Begin(w)
    BY <1>1, <2>2, BeginStep
  <2>3. CASE EnterLoop(w)
    BY <1>1, <2>3, EnterStep
  <2>4. CASE LeaveLoop(w)
    BY <1>1, <2>4, LeaveStep
  <2>5. CASE OtherEnds(w)
    BY <1>1, <2>5, OtherEndsStep
  <2> QED
    BY <1>7, <2>1, <2>2, <2>3, <2>4, <2>5
<1>8. ASSUME NEW o \in Schedulers, StopScheduler(o)
      PROVE  LoopInv'
  BY <1>1, <1>8, StopSchedulerStep
<1>9. CASE UNCHANGED eventLoopVars
  <2>1. UNCHANGED loopVars /\ submitted' = submitted /\ \A w \in Workers : RunKept(w)
    BY <1>9 DEF eventLoopVars, poolVars, RunKept
  <2> QED
    BY <1>1, <2>1, LoopKept
<1> QED
  BY <1>2, <1>3, <1>4, <1>5, <1>6, <1>7, <1>8, <1>9 DEF LoopNext

\* Two workers in one scheduler's loop that start what their tasks are for, and
\* the map did not grow: their tasks are the same, and so are they.
LEMMA OneEach == LoopInv => OneLoopEach
<1> SUFFICES ASSUME LoopInv, ~ rehashed, NEW v \in looping, NEW w \in looping,
                    starting[v] = starting[w], OwnStart(v), OwnStart(w)
             PROVE  v = w
  BY DEF OneLoopEach
<1>1. v \in Workers /\ w \in Workers /\ starting[v] # 0 /\ starting[w] # 0
  BY DEF LoopInv, LoopTypeOK
<1>2. /\ pc[v] = "run" /\ startOf[task[v]] = starting[v]
      /\ pc[w] = "run" /\ startOf[task[w]] = starting[w]
  BY <1>1 DEF LoopInv, Started, OwnStart
<1>3. /\ task[v] # 0 /\ task[v] \in Task /\ task[v] <= submitted
      /\ task[w] # 0 /\ task[w] \in Task /\ task[w] <= submitted
  BY <1>1, <1>2 DEF LoopInv, PoolInv, PoolTypeOK, Held
<1>4. DOMAIN startOf = 1 .. submitted /\ submitted \in Nat
  BY DEF LoopInv, LoopTypeOK, PoolInv, PoolTypeOK
<1>5. task[v] \in DOMAIN startOf /\ task[w] \in DOMAIN startOf
  BY <1>3, <1>4 DEF Task
<1>6. task[v] = task[w]
  <2>1. starting[v] \in 1 .. made /\ idOf[starting[v]] \in Ids
    <3>1. starting[v] \in 1 .. made /\ idOf \in Seq(Ids) /\ Len(idOf) = made
      BY <1>1 DEF LoopInv, LoopTypeOK
    <3>2. \A o \in DOMAIN idOf : idOf[o] \in Ids
      BY <3>1, SeqFacts
    <3>3. DOMAIN idOf = 1 .. made
      BY <3>1, SeqFacts
    <3> QED
      BY <3>1, <3>2, <3>3
  <2> QED
    BY <1>1, <1>2, <1>5, <2>1 DEF LoopInv, Met, Starts
<1> QED
  BY <1>1, <1>3, <1>6 DEF LoopInv, PoolInv, Held

-----------------------------------------------------------------------------
\* The types of the pool and of the loop, for every number of threads, tasks,
\* ids and schedulers.
THEOREM LoopTypes == LoopSpec => []LoopTypeOK
<1>1. LoopInv => LoopTypeOK
  BY DEF LoopInv
<1> QED
  BY <1>1, LoopInitInv, LoopStep, PTL DEF LoopSpec

\* Whatever EventLoop does is what the owner, the submitters and the workers of
\* a ThreadPool may do (EventLoop.cpp:73-88).
THEOREM RunsOnThePool == LoopSpec => PoolSpec
<1>1. LoopInit => PoolInit
  BY DEF LoopInit
<1> QED
  BY <1>1, LoopIsPool, PTL DEF LoopSpec, PoolSpec

\* A task is taken once, in the order of submission, or refused by a full queue
\* (ThreadPool.h:111-123, SafeQueue.h).
THEOREM TakenOnce == LoopSpec => []TaskOnce
<1>1. LoopInv => TaskOnce
  BY DEF LoopInv, PoolInv
<1> QED
  BY <1>1, LoopInitInv, LoopStep, PTL DEF LoopSpec

\* stop() joins workers that leave only when it has cleared running_, which it
\* does after the joins (ThreadPool.h:94-105).
THEOREM StopWaitsForEver == LoopSpec => []StopNeedsIdlePool
<1>1. LoopInv => StopNeedsIdlePool
  BY DEF LoopInv, PoolInv, Worked, StopNeedsIdlePool
<1> QED
  BY <1>1, LoopInitInv, LoopStep, PTL DEF LoopSpec

\* A task submitted before stop is left beside a sleeping worker only if stop's
\* notification missed that worker (ThreadPool.h:67-68, 99).
THEOREM LeftIfMissed == LoopSpec => []LeftOnlyIfMissed
<1>1. LoopInv => LeftOnlyIfMissed
  BY DEF LoopInv, PoolInv, PoolTypeOK, Waiting, Joining, LeftOnlyIfMissed
<1> QED
  BY <1>1, LoopInitInv, LoopStep, PTL DEF LoopSpec

\* run() submits the start of each id that was in the map when it began, and of
\* no id twice, whatever clients make and replace meanwhile, unless the table
\* grows under it (EventLoop.cpp:52-85).
THEOREM MetOnce == LoopSpec => []MeetsEachId
<1>1. LoopInv => MeetsEachId
  BY DEF LoopInv, Met, MeetsEachId
<1> QED
  BY <1>1, LoopInitInv, LoopStep, PTL DEF LoopSpec

\* Two workers are in the loop of one scheduler only if one of them called the
\* lambda of another task, or the map grew under run (ThreadPool.h:28,
\* EventLoop.cpp:81-83).
THEOREM LoopOnce == LoopSpec => []OneLoopEach
BY LoopInitInv, LoopStep, OneEach, PTL DEF LoopSpec
=============================================================================
