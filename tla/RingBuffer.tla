----------------------------- MODULE RingBuffer -----------------------------
(***************************************************************************)
(* RingBuffer<T> of src/src/util/buffer/RingBuffer.h, the queue behind     *)
(* TaskScheduler::addTriggerEvent.  push(const T&) runs under mutex_;      *)
(* pop(T&) takes no lock at all, so its three accesses (emptiness test,    *)
(* copy of the slot, advance of get_pos_) interleave with every push and   *)
(* with every other pop.  A slot or index access is one atomic step and    *)
(* stores become visible in program order, as on the x86 builds.           *)
(*                                                                         *)
(* The k-th push to complete carries the value k; the value 0 is the       *)
(* default-constructed T that the constructor fills the slots with.        *)
(***************************************************************************)
EXTENDS Naturals, Sequences

CONSTANTS Producers,     \* threads that call push
          Consumers,     \* threads that call pop
          Nobody,        \* the holder of a free mutex_
          Capacity,      \* capacity_
          MaxPush,       \* how many pushes the workload makes
          MaxBacklog     \* how far the workload lets pushes run ahead of pops

ASSUME CapacityAssumption == Capacity \in Nat \ {0}
ASSUME WorkloadAssumption == MaxPush \in Nat /\ MaxBacklog \in Nat
ASSUME ThreadAssumption == /\ Producers \cap Consumers = {}
                           /\ Nobody \notin Producers \cup Consumers

VARIABLES put_pos_, get_pos_, data_,   \* the members of the class
          mutex_,        \* the thread that holds mutex_, or Nobody
          pc,            \* where each thread stands in push or pop
          x,             \* the out-parameter of each consumer's pop
          pushed,        \* history: completed pushes
          popped         \* history: what the pops that returned true delivered

vars == <<put_pos_, get_pos_, data_, mutex_, pc, x, pushed, popped>>

Slots == 0 .. Capacity - 1
Value == 0 .. MaxPush
Threads == Producers \cup Consumers

\* Mutant: the formula of a buffer with one spare slot.
SizeWithSpareSlot == (Capacity + put_pos_ - get_pos_) % (Capacity + 1)

sizeInternal == (Capacity + put_pos_ - get_pos_) % Capacity
emptyInternal == put_pos_ = get_pos_
fullInternal == sizeInternal = Capacity

Advance(pos) == (pos + 1) % Capacity

\* Pushes completed and not yet popped.
Backlog == pushed - Len(popped)

Init == /\ put_pos_ = 0
        /\ get_pos_ = 0
        /\ data_ = [s \in Slots |-> 0]
        /\ mutex_ = Nobody
        /\ pc = [t \in Threads |-> "idle"]
        /\ x = [c \in Consumers |-> 0]
        /\ pushed = 0
        /\ popped = <<>>

-----------------------------------------------------------------------------
(* push(const T&): lock, capacity test, store, advance, unlock. *)

\* The capacity test either lets the push go on or ends it with false.
PushLock(p) ==
  /\ pc[p] = "idle"
  /\ mutex_ = Nobody
  /\ pushed < MaxPush
  /\ Backlog < MaxBacklog
  /\ IF Capacity <= sizeInternal
       THEN UNCHANGED <<mutex_, pc>>
       ELSE mutex_' = p /\ pc' = [pc EXCEPT ![p] = "store"]
  /\ UNCHANGED <<put_pos_, get_pos_, data_, x, pushed, popped>>

PushStore(p) ==
  /\ pc[p] = "store"
  /\ data_' = [data_ EXCEPT ![put_pos_] = pushed + 1]
  /\ pc' = [pc EXCEPT ![p] = "advance"]
  /\ UNCHANGED <<put_pos_, get_pos_, mutex_, x, pushed, popped>>

\* The end of push.  A push that goes through has no return statement, which is
\* undefined behaviour; nobody looks at the result and it is left out.
PushAdvance(p) ==
  /\ pc[p] = "advance"
  /\ put_pos_' = Advance(put_pos_)
  /\ pushed' = pushed + 1
  /\ mutex_' = Nobody
  /\ pc' = [pc EXCEPT ![p] = "idle"]
  /\ UNCHANGED <<get_pos_, data_, x, popped>>

-----------------------------------------------------------------------------
(* pop(T&): no lock. *)

\* On an empty buffer pop returns false and changes nothing, so only the
\* pops that pass the test take a step.
PopCheck(c) ==
  /\ pc[c] = "idle"
  /\ ~emptyInternal
  /\ pc' = [pc EXCEPT ![c] = "read"]
  /\ UNCHANGED <<put_pos_, get_pos_, data_, mutex_, x, pushed, popped>>

\* Mutant: the slot after get_pos_ is copied.
PopReadAhead(c) ==
  /\ pc[c] = "read"
  /\ x' = [x EXCEPT ![c] = data_[Advance(get_pos_)]]
  /\ pc' = [pc EXCEPT ![c] = "take"]
  /\ UNCHANGED <<put_pos_, get_pos_, data_, mutex_, pushed, popped>>

PopRead(c) ==
  /\ pc[c] = "read"
  /\ x' = [x EXCEPT ![c] = data_[get_pos_]]
  /\ pc' = [pc EXCEPT ![c] = "take"]
  /\ UNCHANGED <<put_pos_, get_pos_, data_, mutex_, pushed, popped>>

\* Mutant: get_pos_ stays where it is.
PopWithoutAdvance(c) ==
  /\ pc[c] = "take"
  /\ popped' = Append(popped, x[c])
  /\ pc' = [pc EXCEPT ![c] = "idle"]
  /\ UNCHANGED <<put_pos_, get_pos_, data_, mutex_, x, pushed>>

PopAdvance(c) ==
  /\ pc[c] = "take"
  /\ get_pos_' = Advance(get_pos_)
  /\ popped' = Append(popped, x[c])
  /\ pc' = [pc EXCEPT ![c] = "idle"]
  /\ UNCHANGED <<put_pos_, data_, mutex_, x, pushed>>

-----------------------------------------------------------------------------
Push(p) == PushLock(p) \/ PushStore(p) \/ PushAdvance(p)
Pop(c) == PopCheck(c) \/ PopRead(c) \/ PopAdvance(c)

Next == \/ \E p \in Producers : Push(p)
        \/ \E c \in Consumers : Pop(c)

Spec == Init /\ [][Next]_vars

-----------------------------------------------------------------------------
TypeOK == /\ put_pos_ \in Slots
          /\ get_pos_ \in Slots
          /\ data_ \in [Slots -> Value]
          /\ mutex_ \in Producers \cup {Nobody}
          /\ pc \in [Threads -> {"idle", "store", "advance", "read", "take"}]
          /\ \A p \in Producers : pc[p] \in {"idle", "store", "advance"}
          /\ \A c \in Consumers : pc[c] \in {"idle", "read", "take"}
          /\ x \in [Consumers -> Value]
          /\ pushed \in 0 .. MaxPush
          /\ popped \in Seq(Value)

\* The slot that holds the k-th pending event, counted from 0.
PendingSlot(k) == IF get_pos_ + k < Capacity THEN get_pos_ + k
                                             ELSE get_pos_ + k - Capacity

\* The pending events as the slots hold them, oldest first.
PendingEvents == [i \in 1 .. Backlog |-> data_[PendingSlot(i - 1)]]

\* What the buffer promises while one thread pops and the backlog stays
\* below the capacity: a FIFO queue.  A push takes effect when put_pos_
\* advances, a pop when get_pos_ advances.
Queue == INSTANCE EventQueue WITH
           Event <- Value,
           pending <- PendingEvents,
           delivered <- popped

QueueSpec == Queue!Spec

\* pop hands out every pushed event, in order and once: the i-th delivery is
\* the i-th push (RingBuffer.h:20-50).
InOrderExactlyOnce == \A i \in 1 .. Len(popped) : popped[i] = i

\* However far the pushes overrun the one consumer, the i-th delivery comes
\* from the slot of the i-th push: what is lost or replaced is a whole number
\* of laps (the unchecked lap of RingBuffer.h:24 and 59).
LossOnlyInWholeLaps == \A i \in 1 .. Len(popped) :
                         /\ popped[i] >= i
                         /\ popped[i] % Capacity = i % Capacity

\* size() reports the backlog modulo the capacity, so a buffer that is
\* exactly full reports 0 and the overflow test of push (RingBuffer.h:24) and
\* full() (RingBuffer.h:57) never see a full buffer.
SizeHidesFullLaps == sizeInternal = Backlog % Capacity /\ ~fullInternal

\* "Thread-Safe" (RingBuffer.h:8), read for two threads that pop: no event is
\* delivered twice.
NoDuplicateDelivery == \A i, j \in 1 .. Len(popped) :
                         popped[i] = popped[j] => i = j
=============================================================================
