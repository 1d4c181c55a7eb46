----------------------------- MODULE EventQueue -----------------------------
(***************************************************************************)
(* What the trigger queue of a TaskScheduler promises to its users: events *)
(* leave in the order they entered, each exactly once.  RingBuffer.tla is  *)
(* the code that is meant to keep this promise.                            *)
(***************************************************************************)
EXTENDS Sequences

CONSTANT Event           \* the trigger events that may be queued

VARIABLES pending,       \* accepted and not yet delivered, oldest first
          delivered      \* delivered, oldest first

vars == <<pending, delivered>>

TypeOK == /\ pending \in Seq(Event)
          /\ delivered \in Seq(Event)

Init == /\ pending = <<>>
        /\ delivered = <<>>

Push(e) == /\ pending' = Append(pending, e)
           /\ UNCHANGED delivered

Pop == /\ pending # <<>>
       /\ delivered' = Append(delivered, Head(pending))
       /\ pending' = Tail(pending)

Next == Pop \/ \E e \in Event : Push(e)

Spec == Init /\ [][Next]_vars
=============================================================================
