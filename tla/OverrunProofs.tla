--------------------------- MODULE OverrunProofs ---------------------------
(***************************************************************************)
(* The theorem of RingBufferProofs about a buffer whose pushes overrun the *)
(* consumer, carried over to the buffer that MCRingBuffer overruns.        *)
(***************************************************************************)
EXTENDS MCRingBuffer, TLAPS

Lap == INSTANCE RingBufferProofs WITH
         Capacity <- OverCapacity, MaxPush <- OverPush, MaxBacklog <- OverBacklog,
         put_pos_ <- o_put, get_pos_ <- o_get, data_ <- o_data, mutex_ <- o_mutex,
         pc <- o_pc, x <- o_x, pushed <- o_pushed, popped <- o_popped

\* RingBuffer and RingBufferProofs are instantiated with the same buffer.
LEMMA SameInit == Over!Init => Lap!Init
  BY DEF Over!Init, Lap!Init, Over!Slots, Lap!Slots, Over!Threads, Lap!Threads

LEMMA SameNext == Over!Next => Lap!Next
<1> USE DEF Over!Advance, Lap!Advance, Over!Backlog, Lap!Backlog,
            Over!sizeInternal, Lap!sizeInternal, Over!emptyInternal, Lap!emptyInternal
<1>1. ASSUME NEW p \in Producers, Over!Push(p)
      PROVE  Lap!Push(p)
  BY <1>1 DEF Over!Push, Over!PushLock, Over!PushStore, Over!PushAdvance,
              Lap!Push, Lap!PushLock, Lap!PushStore, Lap!PushAdvance
<1>2. ASSUME NEW c \in Consumers, Over!Pop(c)
      PROVE  Lap!Pop(c)
  BY <1>2 DEF Over!Pop, Over!PopCheck, Over!PopRead, Over!PopAdvance,
              Lap!Pop, Lap!PopCheck, Lap!PopRead, Lap!PopAdvance
<1> QED
  BY <1>1, <1>2 DEF Over!Next, Lap!Next

LEMMA SameShape == Lap!LossOnlyInWholeLaps /\ Lap!SizeHidesFullLaps => OverrunShape
  BY DEF OverrunShape, Over!LossOnlyInWholeLaps, Lap!LossOnlyInWholeLaps,
         Over!SizeHidesFullLaps, Lap!SizeHidesFullLaps, Over!sizeInternal, Lap!sizeInternal,
         Over!Backlog, Lap!Backlog, Over!fullInternal, Lap!fullInternal

\* A buffer that is overrun loses events only in whole laps, and its size never
\* shows that it is full, for every capacity and workload (RingBuffer.h:24, 57, 59).
THEOREM OverrunInWholeLaps ==
  ASSUME \A c, d \in Consumers : c = d
  PROVE  MCSpec => []OverrunShape
<1>0. Lap!SingleConsumer
  BY DEF Lap!SingleConsumer
<1>1. MCInit => Lap!LapInv
  BY SameInit, Lap!LapInit, OverAssumption, ThreadAssumption DEF MCInit
<1>2. Lap!LapInv /\ [MCNext]_<<part, vars, overVars>> => Lap!LapInv'
  <2> SUFFICES ASSUME Lap!LapInv, [MCNext]_<<part, vars, overVars>>
               PROVE  Lap!LapInv'
    OBVIOUS
  <2>1. CASE Over!Next
    BY <1>0, <2>1, SameNext, Lap!LapStep, OverAssumption, ThreadAssumption
  <2>2. CASE UNCHANGED overVars
    <3>1. UNCHANGED Lap!vars
      BY <2>2 DEF overVars, Lap!vars
    <3> QED
      BY <1>0, <3>1, Lap!LapStep, OverAssumption, ThreadAssumption
  <2> QED
    BY <2>1, <2>2 DEF MCNext
<1>3. Lap!LapInv => OverrunShape
  BY SameShape, Lap!LapShape, OverAssumption, ThreadAssumption
<1> QED
  BY <1>1, <1>2, <1>3, PTL DEF MCSpec
=============================================================================
