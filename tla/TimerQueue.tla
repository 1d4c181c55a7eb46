----------------------------- MODULE TimerQueue -----------------------------
(***************************************************************************)
(* What TimerTaskBase (src/src/util/Timer.h) promises Timer: a set of      *)
(* timers, from which pop takes one that is due first.                     *)
(***************************************************************************)
EXTENDS Integers

CONSTANTS Ids, Durations

VARIABLES clock,
          timers,        \* the timers of the queue
          handed         \* what the last pop handed out

queueVars == <<clock, timers, handed>>

NoTask == [id |-> 0]

\* TimerTask::setExpiredTime
setExpiredTime(task, d) == [task EXCEPT !.duration = d, !.expired_time = clock + d]

QInit == clock = 0 /\ timers = {} /\ handed = NoTask

\* A task that was constructed at some moment up to now; it is added once.
QAdd(task) == /\ \A t \in timers : t.id # task.id
              /\ timers' = timers \cup {task}
              /\ UNCHANGED <<clock, handed>>

QRemove(id) == /\ timers' = {t \in timers : t.id # id}
               /\ UNCHANGED <<clock, handed>>

QModify(id, d, cyc) ==
  /\ timers' = {IF t.id = id THEN [setExpiredTime(t, d) EXCEPT !.cycled = cyc] ELSE t :
                  t \in timers}
  /\ UNCHANGED <<clock, handed>>

Least(t) == t \in timers /\ \A u \in timers : t.expired_time <= u.expired_time

\* A cycled timer goes back with a new expiry, which its copy has too.
QPop == \E t \in timers :
          /\ Least(t)
          /\ handed' = IF t.cycled THEN setExpiredTime(t, t.duration) ELSE t
          /\ timers' = (timers \ {t}) \cup (IF t.cycled THEN {handed'} ELSE {})
          /\ UNCHANGED clock

QDiscard == \E t \in timers : /\ Least(t)
                              /\ timers' = timers \ {t}
                              /\ UNCHANGED <<clock, handed>>

QTick == clock' = clock + 1 /\ UNCHANGED <<timers, handed>>

QNext == \/ \E id \in Ids, d \in Durations, cyc \in BOOLEAN, made \in 0 .. clock :
              QAdd([id |-> id, duration |-> d, expired_time |-> made + d, cycled |-> cyc])
         \/ \E id \in Ids : QRemove(id) \/ \E d \in Durations, cyc \in BOOLEAN : QModify(id, d, cyc)
         \/ QPop \/ QDiscard \/ QTick

QSpec == QInit /\ [][QNext]_queueVars
=============================================================================
