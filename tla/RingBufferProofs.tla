-------------------------- MODULE RingBufferProofs --------------------------
(***************************************************************************)
(* Proofs about RingBuffer.tla.  TypeCorrect and Exclusion hold for every  *)
(* set of threads and every workload.  The FIFO theorems need what the     *)
(* code needs and nowhere states: one thread pops, and the backlog stays   *)
(* below the capacity.  They hold for every capacity, every number of      *)
(* producers and every number of pushes.  WholeLaps says what is left of   *)
(* them when the backlog does not: positions and slots still agree modulo  *)
(* the capacity.                                                           *)
(***************************************************************************)
EXTENDS RingBuffer, TLAPS

SingleConsumer == \A c, d \in Consumers : c = d
BacklogFits == MaxBacklog < Capacity

\* A thread is inside push exactly when it holds mutex_ (RingBuffer.h:22),
\* and whoever is inside push was admitted by the workload.
MutexHeld == \A p \in Producers : /\ pc[p] # "idle" <=> mutex_ = p
                                  /\ pc[p] # "idle" => pushed < MaxPush

TypeInv == TypeOK /\ MutexHeld

\* The backlog is bounded, with room for the push in progress.
BacklogBound == /\ Backlog \in 0 .. MaxBacklog
                /\ \A p \in Producers : pc[p] # "idle" => Backlog < MaxBacklog

\* put_pos_ is the slot after the youngest pending event.
PutAfterPending == put_pos_ = PendingSlot(Backlog)

\* Every pending slot holds its event, and so does a slot stored and not yet
\* published.
PendingStored == /\ \A k \in 0 .. Backlog - 1 :
                      data_[PendingSlot(k)] = Len(popped) + k + 1
                 /\ \A p \in Producers :
                      pc[p] = "advance" => data_[put_pos_] = pushed + 1

\* A consumer inside pop still has the event it saw, and has copied it once
\* it is past the copy.
ConsumerSeesHead == \A c \in Consumers :
                      /\ pc[c] # "idle" => Backlog > 0
                      /\ pc[c] = "take" => x[c] = Len(popped) + 1

IInv == /\ TypeInv
        /\ BacklogBound
        /\ PutAfterPending
        /\ PendingStored
        /\ ConsumerSeesHead
        /\ InOrderExactlyOnce

-----------------------------------------------------------------------------
\* Advancing an index wraps it at the capacity (RingBuffer.h:28 and 47).
LEMMA AdvanceWraps ==
  ASSUME NEW pos \in Slots
  PROVE  /\ Advance(pos) \in Slots
         /\ Advance(pos) = IF pos + 1 < Capacity THEN pos + 1 ELSE 0
<1>1. Capacity \in Nat \ {0}
  BY CapacityAssumption
<1>2. (pos + 1) % Capacity = IF pos + 1 < Capacity THEN pos + 1 ELSE 0
  BY <1>1, SMT DEF Slots
<1> QED
  BY <1>1, <1>2 DEF Slots, Advance

\* Initially the types hold and nobody is inside push.
LEMMA TypeInvInit == Init => TypeInv
BY CapacityAssumption, WorkloadAssumption, ThreadAssumption
   DEF Init, TypeInv, TypeOK, MutexHeld, Slots, Value, Threads

\* Every step of push and pop keeps the types and the exclusion of pushes.
LEMMA TypeInvStep == TypeInv /\ [Next]_vars => TypeInv'
<1> SUFFICES ASSUME TypeInv, [Next]_vars
             PROVE  TypeInv'
  OBVIOUS
<1> USE CapacityAssumption, WorkloadAssumption, ThreadAssumption
    DEF TypeInv, TypeOK, MutexHeld, Value, Threads
<1>1. ASSUME NEW p \in Producers, PushLock(p)
      PROVE  TypeInv'
  BY <1>1 DEF PushLock
<1>2. ASSUME NEW p \in Producers, PushStore(p)
      PROVE  TypeInv'
  <2>1. pushed + 1 \in Value
    BY <1>2 DEF PushStore
  <2> QED
    BY <1>2, <2>1 DEF PushStore
<1>3. ASSUME NEW p \in Producers, PushAdvance(p)
      PROVE  TypeInv'
  BY <1>3, AdvanceWraps DEF PushAdvance
<1>4. ASSUME NEW c \in Consumers, PopCheck(c)
      PROVE  TypeInv'
  BY <1>4 DEF PopCheck
<1>5. ASSUME NEW c \in Consumers, PopRead(c)
      PROVE  TypeInv'
  BY <1>5 DEF PopRead
<1>6. ASSUME NEW c \in Consumers, PopAdvance(c)
      PROVE  TypeInv'
  BY <1>6, AdvanceWraps DEF PopAdvance
<1>7. CASE UNCHANGED vars
  BY <1>7 DEF vars
<1> QED
  BY <1>1, <1>2, <1>3, <1>4, <1>5, <1>6, <1>7 DEF Next, Push, Pop

\* Type correctness for every capacity, workload and set of threads.
THEOREM TypeCorrect == Spec => []TypeOK
<1>1. TypeInv => TypeOK
  BY DEF TypeInv
<1> QED
  BY <1>1, TypeInvInit, TypeInvStep, PTL DEF Spec

-----------------------------------------------------------------------------
\* Distinct offsets below the capacity name distinct slots, and advancing the
\* consumer's index shifts the numbering by one.
LEMMA PendingSlotFacts ==
  ASSUME get_pos_ \in Slots
  PROVE  /\ \A k \in 0 .. Capacity - 1 : PendingSlot(k) \in Slots
         /\ \A j, k \in 0 .. Capacity - 1 :
              PendingSlot(j) = PendingSlot(k) => j = k
         /\ \A k \in 0 .. Capacity - 2 :
              PendingSlot(k + 1) = IF PendingSlot(k) + 1 < Capacity
                                     THEN PendingSlot(k) + 1 ELSE 0
         /\ PendingSlot(0) = get_pos_
BY CapacityAssumption DEF PendingSlot, Slots

\* The empty buffer satisfies the inductive invariant.
LEMMA FifoInit == Init => IInv
<1> SUFFICES ASSUME Init
             PROVE  IInv
  OBVIOUS
<1>1. TypeInv
  BY TypeInvInit
<1>2. Backlog = 0 /\ Len(popped) = 0
  <2>1. pushed = 0
    BY DEF Init
  <2>2. Len(popped) = 0
    BY DEF Init
  <2>3. pushed - Len(popped) = 0
    BY <2>1, <2>2, SMT
  <2> QED
    BY <2>2, <2>3 DEF Backlog
<1>3. BacklogBound
  BY <1>2, WorkloadAssumption, ThreadAssumption DEF Init, BacklogBound, Threads
<1>4. PutAfterPending
  BY <1>2, CapacityAssumption DEF Init, PutAfterPending, PendingSlot
<1>5. PendingStored /\ ConsumerSeesHead /\ InOrderExactlyOnce
  BY <1>2, ThreadAssumption
     DEF Init, PendingStored, ConsumerSeesHead, InOrderExactlyOnce, Threads
<1> QED
  BY <1>1, <1>3, <1>4, <1>5 DEF IInv

\* Every step of push and pop preserves it, the unlocked steps of pop too,
\* as long as one thread pops and the backlog fits.
LEMMA FifoStep ==
  ASSUME SingleConsumer, BacklogFits, IInv, [Next]_vars
  PROVE  IInv'
<1> USE CapacityAssumption, WorkloadAssumption, ThreadAssumption
<1>0. TypeInv'
  BY TypeInvStep DEF IInv
<1>a. /\ put_pos_ \in Slots /\ get_pos_ \in Slots /\ Capacity \in Nat
      /\ data_ \in [Slots -> Value] /\ pushed \in Nat /\ popped \in Seq(Value)
      /\ pc \in [Threads -> {"idle", "store", "advance", "read", "take"}]
      /\ x \in [Consumers -> Value] /\ Len(popped) \in Nat
      /\ MaxBacklog \in Nat /\ MaxBacklog < Capacity
      /\ Backlog \in 0 .. Capacity - 1
  BY DEF IInv, TypeInv, TypeOK, BacklogFits, BacklogBound
<1>b. /\ \A k \in 0 .. Capacity - 1 : PendingSlot(k) \in Slots
      /\ \A j, k \in 0 .. Capacity - 1 :
           PendingSlot(j) = PendingSlot(k) => j = k
      /\ \A k \in 0 .. Capacity - 2 :
           PendingSlot(k + 1) = IF PendingSlot(k) + 1 < Capacity
                                  THEN PendingSlot(k) + 1 ELSE 0
      /\ PendingSlot(0) = get_pos_
  BY <1>a, PendingSlotFacts
<1>1. ASSUME NEW p \in Producers, PushLock(p)
      PROVE  IInv'
  BY <1>1, <1>0, <1>a
     DEF PushLock, IInv, BacklogBound, PutAfterPending, PendingStored,
         ConsumerSeesHead, InOrderExactlyOnce, Backlog, PendingSlot, Threads,
         TypeInv, MutexHeld
<1>2. ASSUME NEW p \in Producers, PushStore(p)
      PROVE  IInv'
  <2>1. Backlog' = Backlog /\ \A k : PendingSlot(k)' = PendingSlot(k)
    BY <1>2 DEF PushStore, Backlog, PendingSlot
  <2>2. BacklogBound' /\ PutAfterPending'
    BY <1>2, <1>a, <2>1
       DEF PushStore, IInv, BacklogBound, PutAfterPending, Threads
  <2>3. \A k \in 0 .. Backlog - 1 : PendingSlot(k) # put_pos_
    BY <1>a, <1>b DEF IInv, PutAfterPending
  <2>4. PendingStored'
    <3>1. \A k \in 0 .. Backlog - 1 : data_'[PendingSlot(k)] = data_[PendingSlot(k)]
      BY <1>2, <1>a, <1>b, <2>3 DEF PushStore
    <3>2. data_'[put_pos_] = pushed + 1
      BY <1>2, <1>a DEF PushStore
    <3> QED
      BY <1>2, <2>1, <3>1, <3>2 DEF PushStore, IInv, PendingStored
  <2>5. ConsumerSeesHead' /\ InOrderExactlyOnce'
    BY <1>2, <1>a, <2>1
       DEF PushStore, IInv, ConsumerSeesHead, InOrderExactlyOnce, Threads
  <2> QED
    BY <1>0, <2>2, <2>4, <2>5 DEF IInv
<1>3. ASSUME NEW p \in Producers, PushAdvance(p)
      PROVE  IInv'
  <2>1. /\ Backlog' = Backlog + 1 /\ Backlog < MaxBacklog
        /\ \A k : PendingSlot(k)' = PendingSlot(k)
        /\ \A q \in Producers : q # p => pc[q] = "idle"
        /\ \A q \in Producers : pc'[q] = "idle"
    BY <1>3, <1>a
       DEF PushAdvance, Backlog, PendingSlot, IInv, BacklogBound, TypeInv,
           MutexHeld, Threads
  <2>2. BacklogBound'
    BY <1>a, <2>1 DEF BacklogBound
  <2>3. PutAfterPending'
    <3>1. put_pos_' = IF put_pos_ + 1 < Capacity THEN put_pos_ + 1 ELSE 0
      BY <1>3, <1>a, AdvanceWraps DEF PushAdvance
    <3>2. PendingSlot(Backlog + 1) = put_pos_'
      BY <1>a, <1>b, <2>1, <3>1 DEF IInv, PutAfterPending
    <3>3. PendingSlot(Backlog)' = PendingSlot(Backlog + 1)
      BY <1>3, <2>1 DEF PushAdvance, PendingSlot
    <3> QED
      BY <3>2, <3>3 DEF PutAfterPending
  <2>4. PendingStored'
    <3>1. data_[PendingSlot(Backlog)] = Len(popped) + Backlog + 1
      BY <1>3, <1>a DEF PushAdvance, IInv, PendingStored, PutAfterPending, Backlog
    <3>2. \A k \in 0 .. Backlog : data_[PendingSlot(k)] = Len(popped) + k + 1
      BY <1>a, <3>1 DEF IInv, PendingStored
    <3> QED
      BY <1>3, <1>a, <2>1, <3>2 DEF PushAdvance, PendingStored
  <2>5. ConsumerSeesHead' /\ InOrderExactlyOnce'
    BY <1>3, <1>a, <2>1
       DEF PushAdvance, IInv, ConsumerSeesHead, InOrderExactlyOnce, Threads
  <2> QED
    BY <1>0, <2>2, <2>3, <2>4, <2>5 DEF IInv
<1>4. ASSUME NEW c \in Consumers, PopCheck(c)
      PROVE  IInv'
  <2>1. Backlog > 0
    BY <1>4, <1>a, <1>b DEF PopCheck, emptyInternal, IInv, PutAfterPending
  <2> QED
    BY <1>4, <1>0, <1>a, <2>1
       DEF PopCheck, IInv, BacklogBound, PutAfterPending, PendingStored,
           ConsumerSeesHead, InOrderExactlyOnce, Backlog, PendingSlot, Threads
<1>5. ASSUME NEW c \in Consumers, PopRead(c)
      PROVE  IInv'
  <2>1. data_[get_pos_] = Len(popped) + 1
    BY <1>5, <1>a, <1>b DEF PopRead, IInv, PendingStored, ConsumerSeesHead
  <2> QED
    BY <1>5, <1>0, <1>a, <2>1
       DEF PopRead, IInv, BacklogBound, PutAfterPending, PendingStored,
           ConsumerSeesHead, InOrderExactlyOnce, Backlog, PendingSlot, Threads
<1>6. ASSUME NEW c \in Consumers, PopAdvance(c)
      PROVE  IInv'
  <2>1. /\ Backlog > 0 /\ x[c] = Len(popped) + 1
        /\ popped' = Append(popped, Len(popped) + 1)
        /\ Len(popped)' = Len(popped) + 1 /\ Backlog' = Backlog - 1
    BY <1>6, <1>a DEF PopAdvance, IInv, ConsumerSeesHead, Backlog
  <2>2. \A k \in 0 .. Backlog - 1 : PendingSlot(k)' = PendingSlot(k + 1)
    <3>1. get_pos_' = IF get_pos_ + 1 < Capacity THEN get_pos_ + 1 ELSE 0
      BY <1>6, <1>a, AdvanceWraps DEF PopAdvance
    <3> QED
      BY <1>a, <3>1 DEF PendingSlot, Slots
  <2>3. BacklogBound'
    BY <1>6, <1>a, <2>1 DEF PopAdvance, IInv, BacklogBound, Threads
  <2>4. PutAfterPending'
    <3>1. get_pos_' = IF get_pos_ + 1 < Capacity THEN get_pos_ + 1 ELSE 0
      BY <1>6, <1>a, AdvanceWraps DEF PopAdvance
    <3>2. PendingSlot(Backlog)' = PendingSlot(Backlog)
      BY <1>a, <2>1, <3>1 DEF PendingSlot, Slots
    <3> QED
      BY <1>6, <3>2 DEF PopAdvance, IInv, PutAfterPending
  <2>5. PendingStored'
    <3>1. \A k \in 0 .. Backlog' - 1 :
            data_'[PendingSlot(k)'] = Len(popped)' + k + 1
      BY <1>6, <1>a, <2>1, <2>2 DEF PopAdvance, IInv, PendingStored
    <3> QED
      BY <1>6, <1>a, <3>1 DEF PopAdvance, IInv, PendingStored, Threads
  <2>6. ConsumerSeesHead'
    BY <1>6, <1>a DEF PopAdvance, ConsumerSeesHead, SingleConsumer, Threads
  <2>7. InOrderExactlyOnce'
    BY <1>a, <2>1 DEF IInv, InOrderExactlyOnce
  <2> QED
    BY <1>0, <2>3, <2>4, <2>5, <2>6, <2>7 DEF IInv
<1>7. CASE UNCHANGED vars
  BY <1>7, <1>0
     DEF vars, IInv, BacklogBound, PutAfterPending, PendingStored,
         ConsumerSeesHead, InOrderExactlyOnce, Backlog, PendingSlot
<1> QED
  BY <1>1, <1>2, <1>3, <1>4, <1>5, <1>6, <1>7 DEF Next, Push, Pop

\* With one consumer and a backlog below the capacity, pop delivers every
\* event in order and once although it takes no lock.
THEOREM FifoDelivery ==
  ASSUME SingleConsumer, BacklogFits
  PROVE  Spec => []InOrderExactlyOnce
<1>1. Init => IInv
  BY FifoInit
<1>2. IInv /\ [Next]_vars => IInv'
  BY FifoStep
<1>3. IInv => InOrderExactlyOnce
  BY DEF IInv
<1> QED
  BY <1>1, <1>2, <1>3, PTL DEF Spec

-----------------------------------------------------------------------------
(* Remainders *)

\* Division with remainder.
LEMMA Parts ==
  ASSUME NEW C \in Nat \ {0}, NEW n \in Nat
  PROVE  \E k \in Nat, r \in 0 .. C - 1 : n = C * k + r /\ n % C = r
<1>1. PICK k : k = n \div C
  OBVIOUS
<1>2. PICK r : r = n % C
  OBVIOUS
<1>3. n % C \in 0 .. C - 1 /\ n \div C \in Nat
  OBVIOUS
<1>4. n = C * k + r
  BY <1>1, <1>2
<1> QED
  BY <1>1, <1>2, <1>3, <1>4, Zenon

\* The remainder is the only one.
LEMMA Unique ==
  ASSUME NEW C \in Nat \ {0}, NEW n \in Nat, NEW k \in Nat, NEW r \in 0 .. C - 1,
         n = C * k + r
  PROVE  n % C = r
  OBVIOUS

\* The remainder of a number within the first two laps.
LEMMA Small ==
  ASSUME NEW C \in Nat \ {0}, NEW r \in 0 .. C - 1
  PROVE  r % C = r /\ (C + r) % C = r
  OBVIOUS

\* The next number has the next remainder.
LEMMA Succ ==
  ASSUME NEW C \in Nat \ {0}, NEW n \in Nat
  PROVE  (n + 1) % C = IF (n % C) + 1 < C THEN (n % C) + 1 ELSE 0
<1>1. PICK k \in Nat, r \in 0 .. C - 1 : n = C * k + r /\ n % C = r
  BY Parts
<1> DEFINE m == n + 1
           j == k + 1
           s == r + 1
<1>2. m \in Nat /\ j \in Nat /\ s \in Nat
  OBVIOUS
<1>3. m = C * k + s /\ (s = C => m = C * j + 0)
  BY <1>1
<1>4. s < C \/ s = C
  OBVIOUS
<1> HIDE DEF m, j, s
<1>5. CASE s < C
  <2>1. m % C = s
    BY <1>2, <1>3, <1>5, Unique
  <2> QED
    BY <1>1, <1>5, <2>1 DEF m, s
<1>6. CASE s = C
  <2> DEFINE o == 0
  <2>1. o \in 0 .. C - 1 /\ m = C * j + o
    BY <1>3, <1>6
  <2> HIDE DEF o
  <2>2. m % C = o
    BY <1>2, <2>1, Unique
  <2> QED
    BY <1>1, <1>6, <2>2 DEF m, s, o
<1> QED
  BY <1>4, <1>5, <1>6

\* The remainder of a sum and that of one summand give that of the other.
LEMMA Diff ==
  ASSUME NEW C \in Nat \ {0}, NEW n \in Nat, NEW m \in Nat
  PROVE  m % C = (C + ((n + m) % C) - (n % C)) % C
<1>1. PICK k \in Nat, r \in 0 .. C - 1 : n = C * k + r /\ n % C = r
  BY Parts
<1>2. PICK j \in Nat, s \in 0 .. C - 1 : m = C * j + s /\ m % C = s
  BY Parts
<1> DEFINE q == k + j
           w == k + j + 1
           d == r + s
           e == r + s - C
           l == n + m
           f == C + s
<1>3. q \in Nat /\ w \in Nat /\ l \in Nat /\ f \in Nat
      /\ (d < C => d \in 0 .. C - 1) /\ (~(d < C) => e \in 0 .. C - 1)
  OBVIOUS
<1>4. l = C * q + d
  BY <1>1, <1>2
<1>5. l = C * w + e
  BY <1>1, <1>2
<1>6. d - r = s /\ C + e - r = s /\ C + d - r = f
  OBVIOUS
<1> HIDE DEF q, w, d, e, l, f
<1>7. l % C = IF d < C THEN d ELSE e
  BY <1>3, <1>4, <1>5, Unique
<1>8. f % C = s /\ s % C = s
  BY Small DEF f
<1>9. (C + (l % C) - r) % C = s
  BY <1>6, <1>7, <1>8
<1> QED
  BY <1>1, <1>2, <1>9 DEF l

-----------------------------------------------------------------------------
(* What holds however far the pushes overrun the consumer. *)

\* The value v was pushed into the slot of the m-th push, counted from 0, by
\* that push or a later lap.
FromSlotOf(v, m) == v \in Nat /\ m < v /\ (v - 1) % Capacity = m % Capacity

LapInv ==
  /\ TypeInv
  /\ put_pos_ = pushed % Capacity /\ get_pos_ = Len(popped) % Capacity
  /\ Len(popped) <= pushed
  /\ \A m \in 0 .. pushed - 1 : FromSlotOf(data_[m % Capacity], m)
  /\ \A p \in Producers : pc[p] = "advance" => data_[put_pos_] = pushed + 1
  /\ \A c \in Consumers : /\ pc[c] # "idle" => Len(popped) < pushed
                          /\ pc[c] = "take" => FromSlotOf(x[c], Len(popped))
  /\ \A i \in 1 .. Len(popped) : FromSlotOf(popped[i], i - 1)

\* The empty buffer satisfies it.
LEMMA LapInit == Init => LapInv
<1> SUFFICES ASSUME Init
             PROVE  LapInv
  OBVIOUS
<1>1. TypeInv
  BY TypeInvInit
<1>2. Len(popped) = 0 /\ pushed = 0
  BY DEF Init
<1>3. 0 % Capacity = 0
  BY CapacityAssumption
<1> QED
  BY <1>1, <1>2, <1>3, ThreadAssumption DEF Init, LapInv, Threads

\* Every step preserves it if one thread pops, whatever the backlog.
LEMMA LapStep ==
  ASSUME SingleConsumer, LapInv, [Next]_vars
  PROVE  LapInv'
<1>0. TypeInv'
  BY TypeInvStep DEF LapInv
<1>a. /\ put_pos_ \in Slots /\ get_pos_ \in Slots /\ Capacity \in Nat \ {0}
      /\ data_ \in [Slots -> Value] /\ pushed \in Nat /\ popped \in Seq(Value)
      /\ pc \in [Threads -> {"idle", "store", "advance", "read", "take"}]
      /\ x \in [Consumers -> Value] /\ Len(popped) \in Nat
  BY CapacityAssumption, WorkloadAssumption DEF LapInv, TypeInv, TypeOK
<1>b. \A n \in Nat : /\ n % Capacity \in Slots
                     /\ (n + 1) % Capacity = Advance(n % Capacity)
  <2> SUFFICES ASSUME NEW n \in Nat
               PROVE  n % Capacity \in Slots /\ (n + 1) % Capacity = Advance(n % Capacity)
    OBVIOUS
  <2>1. n % Capacity \in Slots
    BY <1>a DEF Slots
  <2> QED
    BY <1>a, <2>1, Succ, AdvanceWraps
<1>1. ASSUME NEW p \in Producers, PushLock(p)
      PROVE  LapInv'
  BY <1>0, <1>1, <1>a, ThreadAssumption DEF PushLock, LapInv, FromSlotOf, Threads
<1>2. ASSUME NEW p \in Producers, PushStore(p)
      PROVE  LapInv'
  <2>1. /\ UNCHANGED <<put_pos_, get_pos_, x, pushed, popped>>
        /\ data_' = [data_ EXCEPT ![put_pos_] = pushed + 1]
        /\ pc' = [pc EXCEPT ![p] = "advance"]
    BY <1>2 DEF PushStore
  <2>2. \A m \in 0 .. pushed - 1 : FromSlotOf(data_'[m % Capacity], m)
    <3> SUFFICES ASSUME NEW m \in 0 .. pushed - 1
                 PROVE  FromSlotOf(data_'[m % Capacity], m)
      OBVIOUS
    <3>0. m \in Nat
      BY <1>a
    <3>1. FromSlotOf(data_[m % Capacity], m) /\ m % Capacity \in Slots
      <4>1. m % Capacity \in Slots
        BY <1>b, <3>0
      <4> QED
        BY <4>1 DEF LapInv
    <3>2. CASE m % Capacity = put_pos_
      <4>1. (pushed + 1) - 1 = pushed /\ m < pushed + 1 /\ pushed + 1 \in Nat
        BY <1>a
      <4>2. data_'[m % Capacity] = pushed + 1
        BY <1>a, <2>1, <3>2
      <4>3. m % Capacity = pushed % Capacity
        BY <3>2 DEF LapInv
      <4> QED
        BY <4>1, <4>2, <4>3 DEF FromSlotOf
    <3>3. CASE m % Capacity # put_pos_
      BY <1>a, <2>1, <3>1, <3>3
    <3> QED
      BY <3>2, <3>3
  <2>3. data_'[put_pos_] = pushed + 1
    BY <1>a, <2>1
  <2>4. \A c \in Consumers : pc'[c] = pc[c]
    BY <1>a, <2>1, ThreadAssumption DEF Threads
  <2> QED
    BY <1>0, <2>1, <2>2, <2>3, <2>4 DEF LapInv, FromSlotOf
<1>3. ASSUME NEW p \in Producers, PushAdvance(p)
      PROVE  LapInv'
  <2>1. /\ UNCHANGED <<get_pos_, data_, x, popped>>
        /\ put_pos_' = Advance(put_pos_) /\ pushed' = pushed + 1
        /\ pc[p] = "advance" /\ pc' = [pc EXCEPT ![p] = "idle"]
    BY <1>3 DEF PushAdvance
  <2>2. \A q \in Producers : pc'[q] = "idle"
    BY <1>a, <2>1 DEF LapInv, TypeInv, MutexHeld, Threads
  <2>3. put_pos_' = (pushed + 1) % Capacity
    BY <1>a, <1>b, <2>1 DEF LapInv
  <2>4. \A m \in 0 .. pushed : FromSlotOf(data_[m % Capacity], m)
    <3>1. FromSlotOf(pushed + 1, pushed)
      BY <1>a DEF FromSlotOf
    <3>2. data_[pushed % Capacity] = pushed + 1
      BY <2>1 DEF LapInv
    <3> QED
      BY <1>a, <3>1, <3>2 DEF LapInv
  <2>5. \A c \in Consumers : pc'[c] = pc[c]
    BY <1>a, <2>1, ThreadAssumption DEF Threads
  <2>6. (\A c \in Consumers : pc'[c] # "idle" => Len(popped) < pushed')
        /\ Len(popped) <= pushed'
    BY <1>a, <2>1, <2>5 DEF LapInv
  <2>7. (pushed + 1) - 1 = pushed
    BY <1>a
  <2> QED
    BY <1>0, <2>1, <2>2, <2>3, <2>4, <2>5, <2>6, <2>7 DEF LapInv, FromSlotOf
<1>4. ASSUME NEW c \in Consumers, PopCheck(c)
      PROVE  LapInv'
  <2>1. /\ UNCHANGED <<put_pos_, get_pos_, data_, x, pushed, popped>>
        /\ put_pos_ # get_pos_
        /\ pc' = [pc EXCEPT ![c] = "read"]
    BY <1>4 DEF PopCheck, emptyInternal
  <2>2. Len(popped) < pushed
    BY <1>a, <2>1 DEF LapInv
  <2>3. /\ \A p \in Producers : pc'[p] = pc[p]
        /\ \A d \in Consumers : pc'[d] = "take" => pc[d] = "take"
    BY <1>a, <2>1, ThreadAssumption DEF Threads
  <2> QED
    BY <1>0, <2>1, <2>2, <2>3 DEF LapInv, FromSlotOf
<1>5. ASSUME NEW c \in Consumers, PopRead(c)
      PROVE  LapInv'
  <2>1. /\ UNCHANGED <<put_pos_, get_pos_, data_, pushed, popped>>
        /\ pc[c] = "read" /\ pc' = [pc EXCEPT ![c] = "take"]
        /\ x' = [x EXCEPT ![c] = data_[get_pos_]]
    BY <1>5 DEF PopRead
  <2>2. Len(popped) < pushed
    BY <2>1 DEF LapInv
  <2>3. FromSlotOf(data_[get_pos_], Len(popped))
    BY <1>a, <2>2 DEF LapInv
  <2>4. /\ \A p \in Producers : pc'[p] = pc[p]
        /\ \A d \in Consumers : d = c
        /\ x'[c] = data_[get_pos_]
    BY <1>a, <2>1, ThreadAssumption DEF Threads, SingleConsumer
  <2> QED
    BY <1>0, <2>1, <2>2, <2>3, <2>4 DEF LapInv, FromSlotOf
<1>6. ASSUME NEW c \in Consumers, PopAdvance(c)
      PROVE  LapInv'
  <2>1. /\ UNCHANGED <<put_pos_, data_, x, pushed>>
        /\ pc[c] = "take" /\ pc' = [pc EXCEPT ![c] = "idle"]
        /\ get_pos_' = Advance(get_pos_)
        /\ popped' = Append(popped, x[c])
    BY <1>6 DEF PopAdvance
  <2>2. Len(popped) < pushed /\ FromSlotOf(x[c], Len(popped))
    BY <2>1 DEF LapInv
  <2>3. /\ Len(popped') = Len(popped) + 1
        /\ \A i \in 1 .. Len(popped) : popped'[i] = popped[i]
        /\ popped'[Len(popped) + 1] = x[c]
    BY <1>a, <2>1
  <2>4. get_pos_' = Len(popped') % Capacity
    BY <1>a, <1>b, <2>1, <2>3 DEF LapInv
  <2>5. Len(popped') <= pushed
    BY <1>a, <2>2, <2>3
  <2>6. /\ \A p \in Producers : pc'[p] = pc[p]
        /\ \A d \in Consumers : pc'[d] = "idle"
    BY <1>a, <2>1, ThreadAssumption DEF Threads, SingleConsumer
  <2>7. \A i \in 1 .. Len(popped') : FromSlotOf(popped'[i], i - 1)
    <3> SUFFICES ASSUME NEW i \in 1 .. Len(popped) + 1
                 PROVE  FromSlotOf(popped'[i], i - 1)
      BY <2>3
    <3>1. CASE i \in 1 .. Len(popped)
      BY <2>3, <3>1 DEF LapInv
    <3>2. CASE i = Len(popped) + 1
      <4>1. i - 1 = Len(popped)
        BY <1>a, <3>2
      <4> QED
        BY <2>2, <2>3, <3>2, <4>1
    <3> QED
      BY <1>a, <3>1, <3>2
  <2> QED
    BY <1>0, <2>1, <2>4, <2>5, <2>6, <2>7 DEF LapInv, FromSlotOf
<1>7. CASE UNCHANGED vars
  BY <1>0, <1>7 DEF vars, LapInv, FromSlotOf
<1> QED
  BY <1>1, <1>2, <1>3, <1>4, <1>5, <1>6, <1>7 DEF Next, Push, Pop

\* The shape of the losses, and what size() shows of the backlog, follow.
LEMMA LapShape == LapInv => LossOnlyInWholeLaps /\ SizeHidesFullLaps
<1> SUFFICES ASSUME LapInv
             PROVE  LossOnlyInWholeLaps /\ SizeHidesFullLaps
  OBVIOUS
<1>1. Capacity \in Nat \ {0} /\ pushed \in Nat /\ Len(popped) \in Nat /\ Len(popped) <= pushed
  BY CapacityAssumption, WorkloadAssumption DEF LapInv, TypeInv, TypeOK
<1>2. LossOnlyInWholeLaps
  <2> SUFFICES ASSUME NEW i \in 1 .. Len(popped)
               PROVE  popped[i] >= i /\ popped[i] % Capacity = i % Capacity
    BY DEF LossOnlyInWholeLaps
  <2> DEFINE v == popped[i]
             u == v - 1
             j == i - 1
  <2>1. v \in Nat /\ j < v /\ u % Capacity = j % Capacity
    BY DEF LapInv, FromSlotOf
  <2> HIDE DEF v
  <2>2. u \in Nat /\ j \in Nat /\ u + 1 = v /\ j + 1 = i /\ i <= v
    BY <1>1, <2>1
  <2> HIDE DEF u, j
  <2>3. (u + 1) % Capacity = (j + 1) % Capacity
    BY <1>1, <2>1, <2>2, Succ
  <2> QED
    BY <2>2, <2>3 DEF v
<1>3. SizeHidesFullLaps
  <2> DEFINE b == pushed - Len(popped)
  <2>1. b \in Nat /\ Len(popped) + b = pushed
    BY <1>1
  <2> HIDE DEF b
  <2>2. b % Capacity = sizeInternal
    BY <1>1, <2>1, Diff DEF LapInv, sizeInternal
  <2>3. b % Capacity < Capacity
    BY <1>1, <2>1
  <2> QED
    BY <1>1, <2>2, <2>3 DEF SizeHidesFullLaps, fullInternal, Backlog, b
<1> QED
  BY <1>2, <1>3

\* With one consumer, whatever the capacity, the producers and the backlog:
\* what is lost or replaced is a whole number of laps, and size() never shows
\* a full buffer (RingBuffer.h:24, 57, 59).
THEOREM WholeLaps ==
  ASSUME SingleConsumer
  PROVE  Spec => [](LossOnlyInWholeLaps /\ SizeHidesFullLaps)
<1>1. LapInv /\ [Next]_vars => LapInv'
  BY LapStep
<1> QED
  BY <1>1, LapInit, LapShape, PTL DEF Spec

-----------------------------------------------------------------------------
PendingIs == /\ PendingEvents = [i \in 1 .. Backlog |-> Len(popped) + i]
             /\ Backlog \in Nat /\ Len(popped) \in Nat
             /\ pushed = Len(popped) + Backlog
             /\ pushed \in 0 .. MaxPush /\ popped \in Seq(Value)

\* The invariant fixes the pending events: the pushes not yet delivered.
LEMMA PendingEventsAre == IInv => PendingIs
<1> SUFFICES ASSUME IInv
             PROVE  PendingIs
  OBVIOUS
<1>1. /\ Backlog \in Nat /\ Len(popped) \in Nat /\ pushed = Len(popped) + Backlog
      /\ pushed \in 0 .. MaxPush /\ popped \in Seq(Value)
  BY WorkloadAssumption DEF IInv, TypeInv, TypeOK, BacklogBound, Backlog
<1>2. \A i \in 1 .. Backlog : data_[PendingSlot(i - 1)] = Len(popped) + i
  <2> SUFFICES ASSUME NEW i \in 1 .. Backlog
               PROVE  data_[PendingSlot(i - 1)] = Len(popped) + i
    OBVIOUS
  <2>1. i - 1 \in 0 .. Backlog - 1 /\ Len(popped) + (i - 1) + 1 = Len(popped) + i
    BY <1>1
  <2> QED
    BY <2>1 DEF IInv, PendingStored
<1> QED
  BY <1>1, <1>2 DEF PendingEvents, PendingIs

\* An event that enters at the end.
LEMMA AppendNext ==
  ASSUME NEW n \in Nat, NEW m \in Nat
  PROVE  [i \in 1 .. n + 1 |-> m + i] = Append([i \in 1 .. n |-> m + i], m + n + 1)
<1> DEFINE s == [i \in 1 .. n |-> m + i]
<1>1. s \in Seq(Nat) /\ Len(s) = n
  OBVIOUS
<1> QED
  BY <1>1

\* An event that leaves at the front.
LEMMA TailNext ==
  ASSUME NEW n \in Nat \ {0}, NEW m \in Nat
  PROVE  /\ [i \in 1 .. n |-> m + i] # <<>>
         /\ Head([i \in 1 .. n |-> m + i]) = m + 1
         /\ Tail([i \in 1 .. n |-> m + i]) = [i \in 1 .. n - 1 |-> (m + 1) + i]
<1> DEFINE s == [i \in 1 .. n |-> m + i]
<1>1. s \in Seq(Nat) /\ Len(s) = n /\ s # <<>> /\ Head(s) = m + 1
  OBVIOUS
<1>2. Tail(s) = [i \in 1 .. n - 1 |-> s[i + 1]]
  BY <1>1
<1>3. \A i \in 1 .. n - 1 : s[i + 1] = (m + 1) + i
  OBVIOUS
<1> QED
  BY <1>1, <1>2, <1>3

\* Every step of the code is a step of the queue or leaves it alone.
LEMMA QueueStep ==
  ASSUME SingleConsumer, BacklogFits, IInv, [Next]_vars
  PROVE  [Queue!Next]_(Queue!vars)
<1> USE CapacityAssumption, WorkloadAssumption, ThreadAssumption
<1>1. IInv'
  BY FifoStep
<1>2. /\ PendingEvents = [i \in 1 .. Backlog |-> Len(popped) + i]
      /\ Backlog \in Nat /\ Len(popped) \in Nat
      /\ pushed = Len(popped) + Backlog
      /\ pushed \in 0 .. MaxPush /\ popped \in Seq(Value)
  BY PendingEventsAre DEF PendingIs
<1>p. PendingIs'
  BY <1>1, PendingEventsAre, PTL
<1>3. PendingEvents' = [i \in 1 .. Backlog' |-> Len(popped)' + i]
  BY <1>p DEF PendingIs
<1>4. ASSUME UNCHANGED <<pushed, popped>>
      PROVE  UNCHANGED Queue!vars
  BY <1>2, <1>3, <1>4 DEF Queue!vars, Backlog
<1>5. ASSUME NEW p \in Producers, PushAdvance(p)
      PROVE  Queue!Next
  <2>1. /\ pushed' = pushed + 1 /\ popped' = popped /\ Backlog' = Backlog + 1
        /\ pushed + 1 \in Value
    BY <1>2, <1>5
       DEF PushAdvance, Backlog, IInv, TypeInv, MutexHeld, Value
  <2>2. PendingEvents' = Append(PendingEvents, pushed + 1)
    <3>1. PendingEvents' = [i \in 1 .. Backlog + 1 |-> Len(popped) + i]
      BY <1>3, <2>1
    <3>2. pushed + 1 = Len(popped) + Backlog + 1
      BY <1>2
    <3> QED
      BY <1>2, <3>1, <3>2, AppendNext
  <2>3. Queue!Push(pushed + 1)
    BY <2>1, <2>2 DEF Queue!Push
  <2> QED
    BY <2>1, <2>3 DEF Queue!Next
<1>6. ASSUME NEW c \in Consumers, PopAdvance(c)
      PROVE  Queue!Next
  <2>1. /\ Backlog > 0 /\ x[c] = Len(popped) + 1
        /\ popped' = Append(popped, Len(popped) + 1)
        /\ Len(popped)' = Len(popped) + 1 /\ Backlog' = Backlog - 1
    BY <1>2, <1>6
       DEF PopAdvance, IInv, ConsumerSeesHead, Backlog, TypeInv, TypeOK
  <2>2. /\ PendingEvents # <<>>
        /\ Head(PendingEvents) = Len(popped) + 1
        /\ Tail(PendingEvents)
             = [i \in 1 .. Backlog - 1 |-> (Len(popped) + 1) + i]
    <3> DEFINE n == Backlog
               m == Len(popped)
    <3>1. n \in Nat \ {0} /\ m \in Nat /\ PendingEvents = [i \in 1 .. n |-> m + i]
      BY <1>2, <2>1
    <3> HIDE DEF n, m
    <3>2. /\ PendingEvents # <<>>
          /\ Head(PendingEvents) = m + 1
          /\ Tail(PendingEvents) = [i \in 1 .. n - 1 |-> (m + 1) + i]
      BY <3>1, TailNext
    <3> QED
      BY <3>2 DEF n, m
  <2>3. PendingEvents' = Tail(PendingEvents)
    BY <1>3, <2>1, <2>2
  <2> QED
    BY <2>1, <2>2, <2>3 DEF Queue!Next, Queue!Pop
<1>7. ASSUME NEW p \in Producers, PushLock(p) \/ PushStore(p)
      PROVE  UNCHANGED Queue!vars
  BY <1>4, <1>7 DEF PushLock, PushStore
<1>8. ASSUME NEW c \in Consumers, PopCheck(c) \/ PopRead(c)
      PROVE  UNCHANGED Queue!vars
  BY <1>4, <1>8 DEF PopCheck, PopRead
<1>9. CASE UNCHANGED vars
  BY <1>4, <1>9 DEF vars
<1> QED
  BY <1>5, <1>6, <1>7, <1>8, <1>9 DEF Next, Push, Pop

\* With one consumer and a backlog below the capacity, the ring buffer
\* implements the FIFO event queue (RingBuffer.h:20-50).
THEOREM ImplementsQueue ==
  ASSUME SingleConsumer, BacklogFits
  PROVE  Spec => QueueSpec
<1>1. Init => Queue!Init
  <2> SUFFICES ASSUME Init
               PROVE  Queue!Init
    OBVIOUS
  <2>1. IInv
    BY FifoInit
  <2>2. popped = <<>>
    BY DEF Init
  <2>3. Backlog = 0
    <3>1. pushed = 0
      BY DEF Init
    <3>2. Len(popped) = 0
      BY DEF Init
    <3>3. pushed - Len(popped) = 0
      BY <3>1, <3>2, SMT
    <3> QED
      BY <3>3 DEF Backlog
  <2>4. PendingEvents = <<>>
    BY <2>1, <2>3, PendingEventsAre DEF PendingIs
  <2> QED
    BY <2>2, <2>4 DEF Queue!Init
<1>2. Init => IInv
  BY FifoInit
<1>3. IInv /\ [Next]_vars => IInv'
  BY FifoStep
<1>4. IInv /\ [Next]_vars => [Queue!Next]_(Queue!vars)
  BY QueueStep
<1> QED
  BY <1>1, <1>2, <1>3, <1>4, PTL DEF Spec, QueueSpec, Queue!Spec
=============================================================================
