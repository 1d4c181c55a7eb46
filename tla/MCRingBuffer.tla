---------------------------- MODULE MCRingBuffer ----------------------------
(***************************************************************************)
(* TLC instance of RingBuffer: thread names are model values given in the  *)
(* cfg.  The cfg's buffer is followed while its pushes keep the backlog    *)
(* below the capacity; beside it, in behaviours of their own, a smaller    *)
(* buffer whose pushes overrun the consumer by several laps.               *)
(***************************************************************************)
EXTENDS RingBuffer

CONSTANTS OverCapacity, OverPush, OverBacklog   \* of the buffer that is overrun

ASSUME OverAssumption == OverCapacity \in Nat \ {0} /\ OverPush \in Nat /\ OverBacklog \in Nat

VARIABLES part, o_put, o_get, o_data, o_mutex, o_pc, o_x, o_pushed, o_popped

overVars == <<o_put, o_get, o_data, o_mutex, o_pc, o_x, o_pushed, o_popped>>

Over == INSTANCE RingBuffer WITH
          Capacity <- OverCapacity, MaxPush <- OverPush, MaxBacklog <- OverBacklog,
          put_pos_ <- o_put, get_pos_ <- o_get, data_ <- o_data, mutex_ <- o_mutex,
          pc <- o_pc, x <- o_x, pushed <- o_pushed, popped <- o_popped

MCInit == part \in {"fifo", "overrun"} /\ Init /\ Over!Init

MCNext == /\ UNCHANGED part
          /\ \/ part = "fifo" /\ Next /\ UNCHANGED overVars
             \/ part = "overrun" /\ Over!Next /\ UNCHANGED vars

MCSpec == MCInit /\ [][MCNext]_<<part, vars, overVars>>

\* A buffer that is overrun loses events only in whole laps, and its size never
\* shows that it is full (RingBuffer.h:24, 57, 59).
OverrunShape == Over!LossOnlyInWholeLaps /\ Over!SizeHidesFullLaps
=============================================================================
