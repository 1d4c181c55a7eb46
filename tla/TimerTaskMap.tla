---------------------------- MODULE TimerTaskMap ----------------------------
(***************************************************************************)
(* TimerTaskMap (src/src/util/Timer.{h,cpp}): a std::map keyed by id and   *)
(* expiry, whose comparison looks at the expiry only and calls equal ones  *)
(* less than each other.  Where the map then puts an entry is where the    *)
(* search for its key ends: operator[] goes past the equal ones, emplace   *)
(* stops before them.  Every call is made under Timer::mutex_.             *)
(***************************************************************************)
EXTENDS TimerTaskBase

VARIABLES mapped,        \* data_: the map's entries in order
          mapHanded      \* what the last pop handed out

mapVars == <<clock, mapped, mapHanded>>

MapTimers == {mapped[i] : i \in DOMAIN mapped}

MapQueue == INSTANCE TimerQueue WITH timers <- MapTimers, handed <- mapHanded

MapInit == clock = 0 /\ mapped = <<>> /\ mapHanded = MapQueue!NoTask

-----------------------------------------------------------------------------
Inserted(s, k, e) == [i \in 1 .. Len(s) + 1 |->
                        IF i < k THEN s[i] ELSE IF i = k THEN e ELSE s[i - 1]]
Erased(s, k) == [i \in 1 .. Len(s) - 1 |-> IF i < k THEN s[i] ELSE s[i + 1]]

\* Mutant: operator[] appends.
IndexAtEnd(s, task) == Append(s, task)

\* data_[key] = task
Index(s, task) ==
  LET k == CHOOSE k \in 1 .. Len(s) + 1 :
             /\ \A i \in 1 .. k - 1 : s[i].expired_time <= task.expired_time
             /\ k <= Len(s) => task.expired_time < s[k].expired_time
  IN  Inserted(s, k, task)

\* data_.emplace(key, task)
Emplace(s, task) ==
  LET k == CHOOSE k \in 1 .. Len(s) + 1 :
             /\ \A i \in 1 .. k - 1 : s[i].expired_time < task.expired_time
             /\ k <= Len(s) => task.expired_time <= s[k].expired_time
  IN  Inserted(s, k, task)

MapAdd(task) == /\ \A i \in DOMAIN mapped : mapped[i].id # task.id
                /\ mapped' = Index(mapped, task)
                /\ UNCHANGED <<clock, mapHanded>>

MapRemove(id) == /\ \E i \in DOMAIN mapped : mapped[i].id = id /\ mapped' = Erased(mapped, i)
                 /\ UNCHANGED <<clock, mapHanded>>

MapModify(id, d, cyc) ==
  /\ \E i \in DOMAIN mapped :
       /\ mapped[i].id = id
       /\ mapped' = Emplace(Erased(mapped, i),
                            [MapQueue!setExpiredTime(mapped[i], d) EXCEPT !.cycled = cyc])
  /\ UNCHANGED <<clock, mapHanded>>

\* pop(task); Timer::getTimer calls it too.
MapPop == /\ mapped # <<>>
          /\ LET t == mapped[1]
                 again == MapQueue!setExpiredTime(t, t.duration)
             IN  IF t.cycled
                   THEN mapHanded' = again /\ mapped' = Index(Erased(mapped, 1), again)
                   ELSE mapHanded' = t /\ mapped' = Erased(mapped, 1)
          /\ UNCHANGED clock

\* pop()
MapDiscard == /\ mapped # <<>>
              /\ mapped' = Erased(mapped, 1)
              /\ UNCHANGED <<clock, mapHanded>>

MapTick == /\ clock < MaxClock
           /\ clock' = clock + 1
           /\ UNCHANGED <<mapped, mapHanded>>

MapNext ==
  \/ \E id \in Ids, d \in Durations, cyc \in BOOLEAN, made \in 0 .. clock :
       MapAdd([id |-> id, duration |-> d, expired_time |-> made + d, cycled |-> cyc])
  \/ \E id \in Ids : MapRemove(id) \/ \E d \in Durations, cyc \in BOOLEAN : MapModify(id, d, cyc)
  \/ MapPop \/ MapDiscard \/ MapTick

MapSpec == MapInit /\ [][MapNext]_mapVars

-----------------------------------------------------------------------------
MapTypeOK == clock \in Nat /\ mapped \in Seq(Task) /\ mapHanded \in Task \cup {MapQueue!NoTask}

\* The inductive invariant: in the order of the expiries, each id once.
Ordered == \A i, j \in DOMAIN mapped : i < j => mapped[i].expired_time <= mapped[j].expired_time
Once == \A i, j \in DOMAIN mapped : mapped[i].id = mapped[j].id => i = j

\* The map is a queue of timers: although its comparison is no order for equal
\* expiries and two ways of inserting disagree about them, pop takes a timer
\* that is due first, and none is lost or doubled (Timer.cpp:158-231).
MapIsQueue == MapQueue!QSpec
=============================================================================
