---------------------------- MODULE TimerTaskBase ----------------------------
(***************************************************************************)
(* What the two TimerTaskBases (src/src/util/Timer.h) have in common: the  *)
(* timers they keep and the clock that expiries are set by.                *)
(***************************************************************************)
EXTENDS Integers, Sequences

CONSTANTS Ids, Durations,
          MaxClock       \* bound

ASSUME TimerAssumption == Durations \subseteq Nat /\ Ids \subseteq Nat \ {0}

VARIABLE clock

Task == [id : Ids, duration : Durations, expired_time : Nat, cycled : BOOLEAN]
=============================================================================
