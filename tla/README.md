# LpNet in TLA+

LpNet is a small C++17 network library: event loops with timers, a thread pool, TCP
server and client classes, buffers and a logger.  This directory holds TLA+ models
of its components, TLC configurations that check them on small instances, and TLAPS
proofs of what matters most for every size. Paths below are relative to the
repository; all code is under `src/src/`.

Contents: [Inventory](#inventory), [Modules and code](#modules-and-code),
[Runs](#runs), [Bounds](#bounds), [Fairness](#fairness), [Proofs](#proofs), [What
the code does not keep](#what-the-code-does-not-keep), [Not
modelled](#not-modelled), [Next](#next).

## Inventory

How the parts interact.  `EventLoop::run` submits `TaskScheduler::start` of every
scheduler to a `ThreadPool`; each pool thread then runs one scheduler's loop for
ever.  A turn of the loop drains the trigger events (a `RingBuffer` that any thread
fills), starts the `Timer`'s worker thread, waits in `SelectManager::handleEvent`
for descriptors and dispatches their `Channel`s, and joins the worker.  `Acceptor`
and `TcpConnection` own channels whose callbacks hold a raw `this`; `TcpServer`
keeps the connections in a map and removes them by trigger events.  `TcpClient` owns
a `Connector`, which posts its retries as trigger events.  Every part logs: a
`Logger` calls its appenders one by one, then the root logger.

| Component | State | Operations | What is hard | What must hold |
|---|---|---|---|---|
| RingBuffer (`util/buffer/RingBuffer.h`) | two positions, slots, mutex | `push` (locked), `pop` (not locked), `size`, `full` | `pop` interleaves with `push`; the size is taken modulo the capacity | with one consumer and a backlog below the capacity: FIFO, once; beyond that, what is lost |
| TaskScheduler (`net/TaskScheduler.*`) and Timer (`util/Timer.*`) | flags, two mutexes, trigger queue, worker thread, timer map | `start`, `stop`, `addTimer`, `removeTimer`, `addTriggerEvent(Force)` | a worker is spawned and joined every turn and sleeps while it holds a mutex; flags straddle spawn and join | no joinable thread is overwritten; no timer lost or called twice; nobody blocks for ever; stop ends the loop |
| TimerTaskMap, TimerTaskHeap (`util/Timer.*`) | a map under a comparison that is no order; an array and its size | `add`, `modify`, `remove`, `get`, `pop` | equal expiries; the hole that a removal leaves | a queue of timers |
| ThreadPool (`util/ThreadPool.h`), SafeQueue | workers, queue, condition, flag | constructor, `start`, `stop`, `submit`, `work` | notify without the mutex; workers started before the flag is set; stop joins before it clears | every task once; no lost wake-up; when stop returns |
| EventLoop (`net/EventLoop.*`) | schedulers, mutex, pool | `run`, `addTaskScheduler`, `getTaskScheduler`, forwarding calls | `run` iterates without the mutex; tasks refer to locals; `stop` right after the submissions | every scheduler it saw is started, in one thread |
| SelectManager (`net/SelectManager.*`), Channel, Pipe | registered channels, three cached `fd_set`s, three flags, `max_fd_` | `updateChannel`, `removeChannel`, `handleEvent` | flags are read without the mutex, `select` and the dispatch run without it | the caches agree with the registrations; `max_fd_` covers them; interest and readiness are not lost |
| TcpServer, Acceptor, TcpConnection | connections map, channels, write queues, five kinds of mutex | `start`, `stop`, `accept`, `send`, the callbacks, `disconnect`, `close` | callbacks with a raw `this`; stop against accept; close from several threads | no callback on a destroyed connection; a disconnection is reported once and ends in a removal; stop returns |
| Connector, TcpClient (`net/Connector.*`, `net/tcp/TcpClient.*`) | flags, retry count and interval, one socket, `conn_` | `connect`, `close`, the posted retry; `start`, `stop` | nothing is locked; a retry posts the next before it counts | number of attempts; `conn_` and socket are there when used; the retries end |
| Buffer, BufferReader, BufferWriter (`util/buffer`) | circular bytes, queue of buffers | `read`, `write`, `recv`, `send`, `reset`, `find`, integers | wrap-around, growth, signed characters | a byte queue; integers are read as written |
| LRUReplacer (`util/buffer/Replacer.*`), BufferPool | list of entries, mutex | `access`, `evite`, `remove` | copy to the front, erase the original; trim before insertion | recency order, one entry per key, capacity |
| Arena (`util/mm/Arena.*`) | blocks, bump pointer, bytes left | `allocate`, `allocateAligned` | padding, fallback, large requests | results are disjoint, aligned and inside their block |
| Logger, LogManager, LogIniter (`util/logger`) | level, formatter and appenders of each logger, the map of loggers, a mutex for each | `log`, `addAppender`, `delAppender`, `clearAppenders`, `setFormatter`, `toYamlString`, `getLogger`, `init` | a logger's mutex is held while other mutexes are taken; appenders are shared; events carry a flag from one appender to the next | order in every appender; who gets which line; every call returns |
| LogFormatter | pattern, items | `init`, `format` | time formats hold the pattern's own delimiters | what is printed is what was meant |
| FileLogAppender | the open file, its day, number and line count | `log`, `reopen` | `lastAccessTime_` is not locked; midnight; failed writes | lines go to the right day's file; files fill in order; reopening repairs |
| EpollManager | epoll descriptor | `control`, `handleEvent` | locks its mutex twice; registers nothing | - |
| Fiber, FiberScheduler | - | - | does not compile | - |
| UDP, Socket, NetAddress, string_utils, Env, db | wrappers and declarations | - | - | - |

The hazards, each at its line and with the properties that watch over it, are listed
in `PROJECT.json`.

## Modules and code

**RingBuffer.tla, EventQueue.tla.**  `push` is three steps under `mutex_`
(admission, store, advance), `pop` three steps without any lock (test, copy,
advance): exactly the accesses that other threads can see in between.  A slot or
position access is atomic and stores become visible in program order, which is what
x86 gives; the C++ standard calls the accesses a data race, and an ordering weaker
than x86's is not modelled.  The k-th completed push carries the value k, so a
delivery tells which push it came from.  `EventQueue` is the abstract promise, a
FIFO queue; `RingBuffer!QueueSpec` is that specification under the refinement
mapping that reads the pending events off the slots from `get_pos_` on.  The
abstract push happens when `put_pos_` advances, the abstract pop when `get_pos_`
does.

**TaskScheduler.tla.**  The scheduler with the Timer it owns.  The loop thread's
program counter `loop` follows `TaskScheduler::start` and the Timer's `start` and
`stop`; `worker_` follows `Timer::run`; `client` follows a call of another thread
between taking the scheduler's mutex and finishing under the Timer's. Time is
counted down: `left[t]` is what remains until a timer is due (negative when late,
saturating at `MaxLate`), and `Tick` lets it pass for everything at once.  The
trigger queue is the abstract FIFO queue that RingBuffer implements.  The wait for
descriptors is one step that ends at any time, and always: a time-out of zero or
less is replaced by 10 ms (`SelectManager.cpp:140-146`).  `Pipe::write` sends on the
read end, so no wake-up ever shortens the wait, and none is modelled.

**TimerQueue.tla, TimerTaskBase.tla, TimerTaskMap.tla, TimerTaskHeap.tla.**
`TimerQueue` is what Timer expects of a `TimerTaskBase`: a set of timers, from which
`pop` takes one that is due first.  The module `TimerTaskBase` holds what both
queues share, the timers and the clock.  `TimerTaskMap` is a `std::map` whose
comparison calls keys of equal expiry less than each other.  Its entries are a
sequence; where an insertion ends among equal ones follows from how `operator[]` and
`emplace` search. `TimerTaskHeap` is an array whose removal sinks the hole and then
drops the last slot.  Its three loops are written as functions that take one turn,
applied as often as the array has slots.  The slots start as timers that are all
zero, and `size_`, which no constructor sets, with any value.  `inside` says that it
is not above the capacity; `add` on a full array clears it, and what the code does
to the memory behind the array after that is not followed.

**ThreadPool.tla.**  The owner (constructor, `start`, `stop`), submitters and
workers.  The condition variable is the set `waiting`; the evaluation of its
predicate and the block are separate steps, because `submit` pushes and notifies
without `mutex_`; spurious wake-ups are included.  A running task ends at some
moment or never (a scheduler's loop).

**EventLoop.tla** extends ThreadPool: the thread `Runner` builds the pool, may stop
and restart it, and calls `run`.  A scheduler is a number; its loop is abstract and
goes on until somebody calls its `stop`.  Two pieces of undefined behaviour are
choices.  `run` iterates without the mutex while other threads insert (`Linked`): a
new entry of the `unordered_map` is linked into its list, where `run` meets it or
does not; replacing the scheduler of an entry leaves the list as it is; and where
the table has to grow, all entries are linked anew, so that `run` may then skip some
and meet others twice (`rehashed`).  A task refers to a lambda of `run` that has
gone (`ThreadPool.h:28`); the worker finds the one of its turn or of a later turn,
which took the same place.

**SelectManager.tla.**  `handleEvent` is cut where the code reads the flags, zeroes
`max_fd_`, rebuilds under the mutex, waits, collects under the mutex and dispatches.
`updateChannel` is the code's, with its commented-out line: a change of a registered
channel raises only the write flag.  `select` returns some of the ready descriptors'
sets, nothing, or fails.  Descriptors are below `FD_SETSIZE`, which the code does
not test.

**TcpServer.tla.**  Server, acceptor, connections and one loop, with peers that
connect, send and hang up, an owner that starts and stops the server and user
threads that send.  `TcpConnection::running_` is false in every connection the
library makes and nothing in the library sets it; the member is protected, so a
subclass can.  `Activated` are the connections made by such a subclass, all others
are as the library ships them.  `Shared` are those handed to user threads.  The
write queue is the number of its buffers.  `TcpServer::running_` has no initialiser,
so `Init` leaves its first value free.  SelectManager's sets are reduced to what
decides which event is collected: the write set, which is refreshed only with the
flags.  `select` finds any of the registered sockets ready to be written.

**Client.tla.**  TcpClient with its Connector.  User threads call `start` and
`stop`, the scheduler's thread runs the retries, and each is in `connect` on its
own.  Plain members are read and written in separate steps, but for two places where
neighbours are one step: the test at the head of `connect` (`Connector.cpp:19`) and
what it sets after a success (lines 34-36).  An attempt on a socket
that was never connected succeeds or fails; on a connected or closed one it fails.
The delay given to `addTriggerEventForce` is not looked at unless its queue is full,
so a retry may run at once.

**Logger.tla, LogFormatter.tla, Pattern.tla.**  A call of a logger is the list of
steps it has still to take; a step that takes a mutex and keeps it is followed by
the one that releases it.  The order is LogManager, logger, root logger, appender.
`LogIniter::init` becomes, for each appender of a node, a step that makes it, one
that skips it or one that throws, by what the node lacks; `LogManager::toYamlString`
visits the loggers of an unordered map in any order.  `LogFormatter` cuts a pattern
into items and prints an event; a pattern is a sequence of characters and keywords,
and `Cut` is a turn of the loop over it.  `Pattern` is a formatter by itself:
somebody means a list of directives and spells one after the other.

**FileLogAppender.tla.**  `log` is cut where threads can interleave: the test of
`lastAccessTime_`, `reopen` under the mutex, the assignment of `lastAccessTime_`,
the line under the mutex.  A stream is the open file and whether it is good; opening
and writing may fail.

**Buffer.tla, ByteOrder.tla.**  `Buffer` is the circular buffer as `BufferReader`
uses it: append with its growth, the ways to consume, `find`.  The array has one
byte more than `reset` allocates, as the allocator's rounding gives for the sizes in
use; `read(fd)`, which sends the buffer's content instead of receiving, is modelled
by what it consumes.  `ByteOrder` writes an integer byte by byte and reads it back
through signed characters: the bytes of the result are the columns of the shifted
operands, each of them 0, 255 or one byte of the number, so that their bitwise or is
the largest in the column.

**Arena.tla, LRUReplacer.tla.**  An address of the Arena is a block and an offset.
A replacer operation is one step, since each holds the mutex throughout; `newer`
remembers for each two keys which was used later, without a clock.

**MCxxx.tla** are the instances for TLC.  Where an instance holds components that
share nothing, a behaviour picks one of them (`part`) and leaves the others in their
initial states, so that the state space is a sum: `MCUtilities` (Arena, Buffer,
LRUReplacer, the two timer queues, ByteOrder, Pattern), `MCSelectManager`
(SelectManager, Client), `MCLogging` (Logger, FileLogAppender), `MCRingBuffer` (a
buffer within its limits, a buffer that is overrun).

**xxxProofs.tla** hold the theorems.

## Runs

| Run | Instance | Properties |
|---|---|---|
| ring_buffer | 2 producers, 1 consumer; capacity 4, backlog at most 3, 10 pushes; beside it capacity 2, 7 pushes without limit on the backlog | `InOrderExactlyOnce`: the i-th delivery is the i-th push; `QueueSpec`: refinement of EventQueue; `OverrunShape`: `size()` is the backlog modulo the capacity and `full()` is never true, so the overflow test of `push` never refuses, and what an overrun loses is a whole number of laps |
| ring_buffer_two_consumers | 2 consumers | violated: `NoDuplicateDelivery` |
| scheduler_safety | 2 clients, 2 timers, cycled and not, durations 1 and 2 | `WorkerOnlyWithinRound`: the hand-over of the worker thread, which is never overwritten while joinable; `OneShotOnce`: a timer is in exactly one place |
| scheduler_liveness | 2 clients, 2 timers, 1 trigger | `TriggersRun`, `StopEnds`, `OperationsReturn`, `TimersFire` |
| scheduler_cycled | 1 cycled timer | violated: `CycledTimerCalled` |
| event_loop | 2 workers, a second submitter, 2 schedulers under 2 ids, queue of 1, 2 tasks | `TaskOnce`: taken once, in order, or refused; `StopNeedsIdlePool`: `stop` joins only workers that never entered their loop; `LeftOnlyIfMissed`: whom the unlocked notifications of `stop` can miss; `MeetsEachId`: `run` submits each id it found once, whatever is added or replaced meanwhile, unless the table grows; `OneLoopEach`: how one scheduler gets two loops; `QueueDrains` |
| select_manager | wake-up descriptor and one more; a client with 2 user threads and 3 calls | `SelectArguments`: what `select` is handed is current or about to be rebuilt, under a bound that covers it; `ReadableIsHandled`, `WriteInterestReaches`; `RetriesBounded`, `ConnectedHasConnection`, `RetriesEnd` |
| server | 2 active peers, one handed to a sending thread, or one peer handed to two; 2 sends | `NoDanglingChannel`: what is registered, collected or dispatched still exists; `DisconnectedOnce`: a disconnection is reported once, or twice where user threads send; `NoConnectionAfterClose`; `DisconnectedIsRemoved`; `StopReturns`; `StopReachesTheWait`: no deadlock among the mutexes of stop, the acceptor, the connections and the loop |
| server_accept | a peer with a long address | violated: `AcceptedSocketReturned` |
| utilities | block of 4096 with requests of 13, 1020, 1024, 1025, 2000 bytes; a reader that grows from 4 to 8 bytes; 4 keys, capacity 3; 4 timers, cycled and not, of one duration, 2 clock readings and a heap of 4 slots; integers of 2 to 4 bytes; patterns of up to 3 directives | `ChunksApart`; `BufferIsQueue`: the bytes that were appended, and where a delimiter first is among them; `CacheIsLRU`; `MapIsQueue`: refinement of TimerQueue; `HeapKeepsTimers`: what the heap's steps lose, bring in and hand out, and from which arrays they are steps of TimerQueue; `ReadsBackUnlessSigned`: exactly which integers survive; `MeansWhatItSpells`: the items of a pattern are the directives that were meant |
| logging | 2 threads, root and another logger, 3 appenders, 2 events, 3 calls; 2 threads at one file appender around midnight | `SameOrder`: events of one logger keep their order in all its appenders; `WrittenToAll`: who has the line when a logger has called its appenders; `ColourOnTerminalOnly`; `RightFile`; `NoDeadlock`: while calls are under way one of them can go on; `LogCallsReturn` |
| logger_reopen | 1 logging thread | violated: `ReopenMeansReady` |

The type invariants of RingBuffer, SelectManager, TaskScheduler, ThreadPool with
EventLoop, TcpServer, Client, TimerTaskMap and the logging are theorems and no run
repeats them; that of the logging says besides that an appender which a logger lists
has a formatter.  (It bounds the counter `lines_`, which is no bound on a file: when
it wraps, only the number goes up, and lines go to the old file until the next
reopening, `Logger.cpp:115-118, 125-128`.)  Those of Arena, LRUReplacer and
TimerTaskHeap are part of the inductive invariants of these modules;
the others stand in their modules as documentation.

A violated run checks one sentence of the repository against what the code does.
For each property of the passing runs `PROJECT.json` names a mutant: a definition
with a plausible bug, kept in the module and marked `Mutant`, under which the same
run finds the property violated.

What some properties do not say:

- `StopNeedsIdlePool` is not praise.  `ThreadPool::stop` joins workers that leave
  only when they see `running_` cleared, and clears it after the joins.  So stop
  returns only if every worker read the flag before the constructor set it.
- `QueueDrains` is conditional on some worker testing the queue again.  Without that
  the pool may have no worker left (all of them may leave before the flag is set),
  or all may be busy or asleep.  So it says nothing of the lost wake-up or of the
  early exit; those are the matter of `LeftOnlyIfMissed` and `StopNeedsIdlePool`.
- `MeetsEachId` and `OneLoopEach` end with the growth of the table under `run`: then
  entries may be skipped and met twice.  All other insertions and replacements are
  covered.  `OneLoopEach` does not promise one loop for a scheduler.  It says how
  there come to be two: one of the workers called the lambda of another task and
  came to `start` together with the worker whose task that is, or with a third one
  that called it too.
- `TimersFire` is conditional on the worker getting past its first test infinitely
  often: `Timer::start` spawns the worker before it sets the flag the worker tests,
  and a worker that is always too early does nothing.
- Timer ids pass through a `bool`: `addTimer` returns `true`, which converts to 1,
  so the model's clients remove timer 1 whichever they added.  `OneShotOnce` counts
  what was removed by what left the map.
- `HeapKeepsTimers` does not promise a heap.  From an array in order two kinds of
  steps are not those of the queue, and the property says what they do: a removal
  whose hole does not end at the last slot loses the last slot's timer instead of
  its own (`LastGoes`), and `modify` leaves a timer too high that belongs further
  down than its child (`TooHigh`), since `moveDown` never goes on from the slot it
  swapped with.  From any other array too, and so always, a step loses at most one
  timer and brings in at most one.  It ends where `size_` is above the capacity.
- `RetriesBounded` counts the attempts of retries as long as none has succeeded and
  no user's attempt has: `connect` sets the count back to five.
- `DisconnectedOnce` allows two reports for connections that user threads send on:
  `close` on the loop, posted by `disconnect` and so without the connection's mutex,
  and one `close` under that mutex may both pass the test of `running_`.  The run
  reaches that; there is no third.
- `DisconnectedIsRemoved` includes a close before the disconnect callback is set:
  there is none, because only a sender could close, and as long as the loop has not
  taken a connection's buffers a sender finds one there and does not.
- `BufferIsQueue` is for strings of at most `kMaxBytesPerRead` bytes, an assumption
  of the module: of a longer one `append` may drop the end and still returns its
  length.
- `RightFile` is for fewer events than the number's 256 values; after the wrap the
  first file of the day is opened again.  A line may reach the file of a day that
  ended up to two clock readings before the event.
- `SameOrder` speaks of the events of one logger.  Two loggers that share an
  appender interleave there as they like.

## Bounds

Every bound is a constant and appears in a guard: `MaxPush`, `MaxBacklog`,
`MaxTimers`, `MaxTriggers`, `MaxLate`, `MaxTasks`, `MaxMade`, `MaxCalls`,
`MaxAppends`, `MaxChunks`, `MaxCapacity`, `MaxClock`, `MaxLogged`, `MaxEvents`,
`MaxAppenders`, `MaxDirectives`.

- RingBuffer: 10 pushes through 4 slots go round more than twice, so that the
  positions wrap while a push and a pop are half done; beside it (`OverCapacity`,
  `OverPush`, `OverBacklog`) 7 pushes overrun 2 slots by more than two laps.  The
  proofs remove the bounds.
- TaskScheduler: two timers are enough for each order of due times, for a timer that
  becomes due while another call holds a mutex, and for an id other than 1; two
  clients for a wait behind a wait.  The nap of an idle worker and the lateness are
  one or two ticks, which keeps the order of events and not their distance; nothing
  in the code compares distances.  The liveness run leaves out cycled timers, which
  the third run shows are not called.  The safety properties are proved without the
  bounds.
- EventLoop and ThreadPool: two workers, so that a notification finds one waiting
  while the other competes for the task; two schedulers, so that `run` is between
  them while one is added or replaced and a task may meet the other's lambda; a
  queue of one, so that it refuses.  The safety properties are proved for every
  number of each.
- SelectManager: the wake-up descriptor is always registered, the other one comes
  and goes.  That is enough for "one descriptor disappears or is raised above the
  bound while another stays"; the safety part is proved for every set.
- Client: two users and three calls let a `start` run against a `stop` and against
  the retries of an earlier `start`; all five retries happen.
- TcpServer: two connections let one be accepted after stop's sweep while another is
  being closed, and let an event collected for one be dispatched after the other has
  gone.  A user thread competes with the loop for a connection; two are needed for
  one to find the queue empty because the loop sent the other's buffer.  A behaviour
  of `MCTcpServer` has either both peers and one user thread or one peer and both
  threads; the restriction only takes away calls nobody has to make.
- Arena: the five sizes are an odd one, one just below, at and above the limit for
  large requests, and one above it that still fits twice into a block.
- Buffer: a read limit of 3 in a buffer of 4 makes a string wrap around, fit exactly
  and force the growth; targets include one with a repeated first byte and the empty
  one.
- Timer queues: four timers of one duration, added and modified at two clock
  readings, give equal and different expiries in every order of insertion; expiries
  are relative.  Four slots are the fewest in which a timer of the heap can have a
  grandchild, and it begins with 0 to 4 blank ones.  Both queues are proved without
  the bounds.
- ByteOrder: 0, 1, 127, 128 and 255, the bytes around the sign.
- Pattern: the directives include times with a closing brace, with the item
  delimiter and with text after them; three of them put each beside each.
  Proved for any directives and any number of them.
- Logger: two threads and two loggers put one call of a logger inside another's;
  three appenders let two loggers share one and one logger list one twice; both
  kinds of configuration node, complete and lacking what an appender needs.
  `MaxAppenders` keeps a call from beginning that may make one more.  Order and
  completeness of the lines and the freedom from deadlock are proved for any number
  of each.
- FileLogAppender: a day of four clock readings makes midnight fall between any two
  steps; two threads may disagree about the last reopening; two lines fill a file,
  so that four events (`MaxLogged`) begin a second one.  `RightFile` is proved for
  any number of each.

## Fairness

- Threads run: weak fairness of the loop, the worker, the pool's workers, the owner
  inside `stop`, a submitter between push and notify, `run`, the client's threads
  inside a call and the scheduler's thread with a retry to run.
- Mutexes: a thread that waits for a mutex which becomes free again and again gets
  it in the end (strong fairness of the acquiring step; in Logger and TcpServer, of
  each step of a thread).  `std::mutex` does not promise this, but every holder
  releases it after a few instructions or a finite sleep, and the schedulers in use
  do not starve a waiter for ever.
- Time passes (weak fairness of `Tick`), and `select` is not interrupted each time
  (strong fairness of `SelectReturns`).
- Peers hang up in the end: only for `StopReturns`, which could not hold without.
- No fairness for what users do: calls of `start`, `stop`, `submit`, `addTimer`,
  `send`, `log` and the end of a task.

No run asks TLC for deadlocks, since in each of them the system may really stop: a
workload that is used up, a server that has stopped, a client that has crashed, a
pool whose `stop` waits for ever.  The properties say what must not be stuck:
`NoDeadlock`, without any fairness, about the loggers' mutexes, and under fairness
`StopReachesTheWait`, `LogCallsReturn`, `OperationsReturn` and `ReadableIsHandled`
about threads that wait for each other.

## Proofs

Proved by TLAPS for every value of the constants that satisfies the named
assumptions of the module (positive capacity, distinct names).  In each case the
property is not inductive; the invariant that is, and why it has to say more:

- `RingBufferProofs`: `TypeCorrect` (no further assumption).  `FifoDelivery` and
  `ImplementsQueue` under `SingleConsumer` and `BacklogFits`, the two conditions
  that the code needs and nowhere tests.  The invariant adds that `put_pos_` is the
  slot after the youngest pending event, that each pending slot holds its event,
  also one stored and not yet published, and that the consumer between its steps has
  seen the head.  The heart of `FifoStep` is that a store goes to a slot outside the
  pending ones as long as the backlog is below the capacity, so an unlocked copy
  never reads a slot that is being written.  The refinement shows that `PushAdvance`
  and `PopAdvance` are the abstract steps and all others stutter.  `WholeLaps` drops
  `BacklogFits`: the positions are the numbers of pushes and deliveries modulo the
  capacity, each slot holds an event whose number is its own modulo the capacity,
  and so what a delivery finds differs from what it should be by whole laps.
  `OverrunProofs` carries that over to the second buffer of `MCRingBuffer`
  (`OverrunInWholeLaps`, which is `OverrunShape`).
- `TaskSchedulerProofs`: `SchedulerTypes`, `WorkerWithinRound`, `NoneLost`,
  `OnceEach`.  `Rounds`: `Timer::running_` is set exactly from the spawn to the
  join, by the loop alone.  `Due`: the worker sleeps under the Timer's mutex at
  least until the head of the queue is due, and nobody else touches the queue
  meanwhile, so what it then pops is due.  `Constructed` and `Apart`: an id is
  handed over by the one client that got it, before it is queued, and is queued
  once. `Placed`: a one-shot timer is with a client, queued, with the worker, called
  or removed, and in one of these only.  The insertion into the ordered queue and
  the erasure have lemmas of their own.
- `EventLoopProofs`: first `PoolInv` for the steps of the pool alone.  Tasks are
  numbered as submitted; `Held`: a worker that runs has a task which is no other's
  and older than all that are queued (`TakenOnce`).  `Worked`: while the pool is up,
  a worker that entered its loop cannot leave it (`StopWaitsForEver`).  `Joining`:
  while stop joins and an earlier task is queued, only workers that were between
  predicate and sleep when stop notified sleep or are about to (`LeftIfMissed`).
  Then `RunsOnThePool`: each step of EventLoop is a step of the pool or leaves it
  alone, so that the first part applies.  `Met`: as long as the
  table has not grown, the ids submitted and those still to be met include all that
  `run` saw and have none in common, and no id was submitted twice; an entry that is
  replaced keeps its place in the list and its id (`MetOnce`).  `Started`: a worker
  that is in a scheduler's start has a task that was submitted for one; so two
  workers in one scheduler's loop, each with the scheduler of its own task, have the
  same task by `Met`, and are one by `Held` (`LoopOnce`).
- `NetworkProofs`, first part (SelectManager): `TypeCorrect`, `Copies`, `MaxFd` and
  both together, `Arguments`, for every set of descriptors.  The flags are read
  before the mutex is taken; what makes this safe is that only the loop clears them,
  and that the exception flag stands for all three whenever a channel comes or goes.
  The lemma that a finite set of descriptors has a maximum goes through well-founded
  induction on what is missing to the largest descriptor.
- `NetworkProofs`, second part (Client): `ClientTypes`, `FiveRetries`,
  `ConnectionFirst`.  Nothing is locked, so the invariant goes over where each
  thread stands.  `Past`: beyond the attempt the socket is no longer fresh, beyond
  the callback `conn_` is there.  `Credit`: while the socket is fresh only the loop
  writes `retry_times_`, so its load and store are as good as one step, and attempts
  made and attempts left are at most five together, six between a failure and its
  count.
- `NetworkProofs`, third part (TimerTaskMap): `MapCorrect` and `Refines`, which is
  `MapIsQueue`, under `TimerAssumption`.  The entries are in the order of their
  expiries and no id is there twice.  Both ways of inserting find a place that keeps
  the order, although among equal expiries they choose different ones; so the head
  is due first and each operation is the abstract one on the set of entries.
- `NetworkProofs`, fourth part (TimerTaskHeap): `HeapKeeps`, which is
  `HeapKeepsTimers`, under `TimerAssumption`, for any ids, durations and number of
  slots.  The invariant is only that the slots hold timers or blanks, since nothing
  more survives every step.  For any array, the loops exchange slots and so keep the
  timers as a whole (`Shuffled`); what comes in or goes out is one slot.  For an
  array in order (`Heap`: every timer due no earlier than its parent, each id once)
  a loop is shown right by what holds after each of its turns, from the last turn on
  which it would not hold (`GoesOn`, from the well-foundedness of the numbers).
  While `moveUp` climbs, only the slot it is at may be earlier than its parent, and
  its children are late enough for that parent (`ButForParent`); while the hole
  sinks, only it may be out of order with its children (`ButForChildren`), and where
  it ends there are none, so dropping it, if it is the last slot, leaves a heap
  without the removed timer, and if it is not, all but the last slot's timer.  That
  the loops stop comes from the slot: it halves, or at least doubles, each turn.
- `TcpServerProofs`: `ServerTypesHold`.  `NeverRemoved`: a connection that no
  subclass activates is never removed from the server's map, and so a `stop` that
  finds one never returns; the invariant `CloseOnlyActivated` follows the name in
  the removal event back to the test of `running_` in `close`
  (`OnlyActivatedClose`). `NothingDangles`: a registered channel is that of a
  connection in the map or on its way there (`Kept`); a posted removal names a
  connection whose channel is registered no more (`Gone`), and removals run only
  while no collected events are in hand (`Round`), so what the loop dispatches is
  still in the map (`Handled`). `NoneAfterClose`: a connection is on its way into
  the map only while the Acceptor's mutex is held and its socket open (`Accepting`).
  `ReportedOnce`: who is alive has reported nothing, and the loop closes only who is
  alive (`Reported`).  For connections that user threads share, `Twice` counts what
  was reported and what still may be: one close that `disconnect` posted and one
  under the connection's mutex, together at most two once `running_` is cleared.
- `LoggingProofs`, the file appender: `EveryLineInTheRightFile`, under
  `AppenderAssumption`.  `lastAccessTime_` is read and set without the mutex, so the
  argument does not use how a thread came to set it: `Reopened` says that its day
  has been reopened by then, by whichever thread, and that a thread about to write
  has seen the day of two clock readings before its event or a later one.
  `FileOfToday`: the open file was begun on the day the appender believes in unless
  the stream is bad.  `Numbers`, only while fewer events are logged than the counter
  has values: the number of the file does not run ahead of the events.
- `LoggingProofs`, the loggers: `LoggingTypes`, under `LoggerAssumption`.  `Todo`
  says what each kind of step carries; the point is the step `put`, which was told
  by `add` whether the appender lacks a formatter, in an earlier critical section:
  an appender without one is given the logger's, and a formatter is never taken
  away. `LoggerInvariant` for the rest.  `Mine`: a thread holds the mutexes that its
  list will release, its calls of `log()` are nested with the writes of the
  innermost first, and all are about one event.  `Own`: no two threads log one
  event.  `Fresh` and `LastWord`: a call that has not begun has no line yet, and
  while it writes, the last line of its logger in any appender is its own; so a
  second event of that logger comes after it everywhere (`EventsInOneOrder`).
  `Progress`: the writes to come are the rest of the logger's list, and each
  appender has the event as often as the part before lists it; while the call for
  the root logger goes on inside, the list is empty (`EveryAppenderWritten`).
  `ColourInv`: between two writes every event has its colours off, whichever
  appender it passed last (`ColourStaysOnTerminal`).  `LocksInOrder`, which is
  `NoDeadlock`: whoever holds the manager's mutex has a dump of a logger before it
  and nothing of its own locked (`Dumping`), and whoever holds the root logger's
  mutex never waits, whoever holds another's only for the root logger's (`Inner`,
  `Returns`); so from a thread that waits at most three steps lead, from holder to
  holder, to one that does not.
- `UtilityProofs`, Arena: `NeverTwice` and `AssertionHolds`, for every block size
  that is a multiple of 8 and every sequence of requests.  The invariant adds that
  in the current block all results end at or before `alloc_ptr_` and that what
  remains is the rest of the block; without the second, the padding could be lost.
- `UtilityProofs`, Buffer: `ByteQueue`, under `BufferAssumption` (strings and first
  capacity as `kMaxBytesPerRead` requires).  `BufInv`: the array of `capacity_ + 1`
  places holds the expected bytes from `get_pos_` on, round its end, and `put_pos_`
  is the place behind them; one place stays free, so full and empty differ.  Growth
  leaves room for `kMaxBytesPerRead` bytes, hence `Buffer::write` never cuts a
  string.  For `find`: the places of the array correspond one to one to the expected
  bytes, and a comparison that runs into `put_pos_` at j leaves no room for the
  target at j or later, so ending the search there is right.
- `UtilityProofs`, LRUReplacer: `LeastRecentlyUsed`, under `ReplacerAssumption`.
  The list is ordered by `newer`, which is irreflexive, so each key is in it once;
  taking an entry out and putting one to the front keep the order of the others, and
  the last entry is older than all others.
- `UtilityProofs`, ByteOrder: `ReadBack`, under `CodecAssumption`.  In column i of
  the shifted operands stand byte i of the number and the sign extensions of the
  bytes below; so the column's maximum is 255 above a byte of 128 or more and else
  byte i.
- `UtilityProofs`, LogFormatter: `SpellsWhatIsMeant`, which is `MeansWhatItSpells`,
  under `PatternAssumption` (an argument holds no `$`, which a pattern cannot
  escape).  The parser's state after a pattern decides how it goes on, so the scan
  of a longer pattern continues that of the shorter one: a directive's `$` pushes
  the piece before it, and its name becomes the next piece.  That piece parses to
  the directive, since the last brace of a time's name is the one that closes it.
  The induction is over the steps of `Construct`, a directive at a time.

Only model-checked: all liveness properties (and the ENABLED in them), which need
fairness and are out of the prover's reach.  These are `TriggersRun`, `StopEnds`,
`OperationsReturn`, `TimersFire`, `QueueDrains`, `ReadableIsHandled`,
`WriteInterestReaches`, `RetriesEnd`, `DisconnectedIsRemoved`, `StopReturns`,
`StopReachesTheWait` and `LogCallsReturn`.  Every safety property of the passing
runs is a theorem.

## What the code does not keep

Found while modelling, each shown by a run that TLC ends with a counterexample:

- *Two consumers* (`RingBuffer.h:43`).  The class is labelled thread-safe; `pop` is
  not locked, and two threads that pop get the same element.
- *Cycled timers* (`Timer.cpp:225`).  `pop` re-arms a cycled timer before handing it
  out, `TimerTask::run` tests the new expiry and does not call it.  The header's
  TODO says so too.
- *Accept* (`socket_util.h:138`).  The room for the peer's address text is given as
  `sizeof(ip)`, eight bytes; for most addresses the conversion fails and the
  accepted descriptor is dropped and never closed.
- *Reopening* (`Logger.cpp:152`).  After a failed write the stream tests false, is
  not closed, cannot be opened, and `reopen` reports success.

Seen in the sources and stated here because no sentence of the repository promises
otherwise, or a model of them would say nothing more:

- `Pipe::write` writes to the read end; `RingBuffer::push(T&&)` calls
  `size()`, which locks the mutex that `push` holds (`RingBuffer.h:34`), and
  `push(const T&)` has no `return` after a success (line 29), a value that no caller
  looks at; the bodies of `LRUReplacer`'s templates
  are in a `.cpp` file that no user can link.
- EventLoop: a forwarding call with an unknown id makes a null entry and
  dereferences it; `run` never comes back from stopping the pool once a scheduler's
  loop runs.
- Timer: `size_` of TimerTaskHeap is never initialised and `add` does not compare it
  with the capacity (both in the model); its `remove` drops the last slot wherever
  the hole has gone, and its `moveDown` stops short of the grandchildren;
  `next_time_id` is a plain counter of all threads.
- Client: `start` ignores the result of `connect` and sets `running_`, so a `stop`
  before the first success uses a null `conn_` (`crashed` in the model).  A `stop`
  between the success and `connecting_ = true` leaves the socket open.  The
  connection is made of `connect`'s result, which is 0, and not of the socket.  The
  retry's closure refers to parameters of a call that has returned.  After `stop`
  the closed socket is used again, so a client connects once in its life.  The
  Connector asks for the scheduler "UdpClient", the connection for "TcpClient".
- Logger: `init` of LogIniter tests `node["level"]` and reads `conf["level"]`
  (`Logger.cpp:588, 599`), so an appender with a level in a node without one is an
  exception.  A second `LogIniter::getLogger` of a name adds another appender to it.
  `LogEvent::format` reads past its 256 bytes for a longer line.  In a pattern
  "CHAR:" followed by nothing and the empty pattern are error items; "DATETIME{"
  without a closing brace is accepted.

## Not modelled

- EpollManager: registers no descriptor, and nothing uses it.
- Fiber, FiberScheduler: do not compile against each other, and nothing uses them.
- UDP, Env, db, macros, Library: no behaviour over time.
- string_utils: pure helpers, of which the program calls only `start_with`, a
  comparison in the pattern's parser.
- Clock, Timestamp, Record: the clock is an action of the models that look at it.
- Socket wrappers: only where a failure matters (accept, connect).
- Buffer: which bytes a wrapped or partial socket transfer sends and receives, and
  the capacity that `reset` allocates; what is left of it is layout of memory.
- Logging: the text of dates and numbers, the syntax of YAML, `setLogger`, null
  formatters, and calls of `LogAppender::setLevel` and `Logger::setLevel`
  (`Logger.h:354, 432`) other than LogIniter's, the only ones there are: an
  appender's level is given when it is made.  `today_` is the day of
  the year and comes back after a year; the model counts days.
- ThreadPool: that arguments of `submit` other than `run`'s lambda have gone.
- A weaker memory order than x86's; unsynchronised access to the standard containers
  (`Timer`'s map in `nextTimestamp`, `SelectManager::channels_.empty()`), whose
  outcome no small set describes; the models read them in one step.
- The wall clock set back.

## Next

In the order of their worth, for whoever goes on:

1. TaskScheduler's operations as critical sections: that a posted trigger event is
   run in the order of posting, from the refinement of RingBuffer.
2. EventLoop over TaskScheduler itself instead of the abstract loop of a scheduler.
