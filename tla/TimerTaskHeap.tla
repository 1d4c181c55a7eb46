---------------------------- MODULE TimerTaskHeap ----------------------------
(***************************************************************************)
(* TimerTaskHeap (src/src/util/Timer.{h,cpp}), the other TimerTaskBase: an *)
(* array whose first size_ slots are a heap by expiry.  Slots are counted  *)
(* from 1 here, so that slot i has the children 2i and 2i+1.  The slots    *)
(* start as timers that are all zero, and size_, which is never            *)
(* initialised, with any value.  add does not compare it with capacity_.   *)
(* What is done once size_ is greater than capacity_ is not followed.      *)
(***************************************************************************)
EXTENDS TimerTaskBase

CONSTANT HeapCapacity    \* capacity_

VARIABLES heaped,        \* the first size_ slots of data_
          heapHanded,    \* what the last pop handed out
          inside         \* size_ <= capacity_

heapVars == <<clock, heaped, heapHanded, inside>>

Blank == [id |-> 0, duration |-> 0, expired_time |-> 0, cycled |-> FALSE]
SlotValue == Task \cup {Blank}

HeapTimers == {heaped[i] : i \in DOMAIN heaped}

HeapQueue == INSTANCE TimerQueue WITH timers <- HeapTimers, handed <- heapHanded

HeapInit == /\ clock = 0 /\ heapHanded = HeapQueue!NoTask
            /\ \/ inside = TRUE /\ \E n \in 0 .. HeapCapacity : heaped = [i \in 1 .. n |-> Blank]
               \/ inside = FALSE /\ heaped = <<>>

-----------------------------------------------------------------------------
Before(s, x, y) == s[x].expired_time < s[y].expired_time

swap(s, x, y) == [s EXCEPT ![x] = s[y], ![y] = s[x]]

\* A loop is at a slot of the array s, and turn is what it does once, which is
\* nothing when its condition is false.  No loop here turns more than Len(s) times.
LoopState == [s : Seq(SlotValue), slot : Nat]
Looped(turn, s, slot) ==
  LET after[k \in 0 .. Len(s)] == IF k = 0 THEN [s |-> s, slot |-> slot] ELSE turn[after[k - 1]]
  IN  after[Len(s)]

UpTurn == [l \in LoopState |->
             LET pa == l.slot \div 2
             IN  IF l.slot > 1 /\ Before(l.s, l.slot, pa)
                 THEN [s |-> swap(l.s, l.slot, pa), slot |-> pa] ELSE l]

moveUp(s, cur) == Looped(UpTurn, s, cur).s

\* The earlier of a slot and the next one.
EarlierChild(s, child) ==
  IF child + 1 <= Len(s) /\ Before(s, child + 1, child) THEN child + 1 ELSE child

\* moveDown's loop keeps cur and never gets to the children of child.
DownTurn(cur) == [l \in LoopState |->
                    LET c == EarlierChild(l.s, l.slot)
                    IN  IF l.slot <= Len(l.s) /\ Before(l.s, c, cur)
                        THEN [s |-> swap(l.s, c, cur), slot |-> c] ELSE l]

moveDown(s, cur) == Looped(DownTurn(cur), s, 2 * cur).s

\* remove's loop: what is removed sinks along the earlier children.
SinkTurn == [l \in LoopState |->
               LET c == EarlierChild(l.s, 2 * l.slot)
               IN  IF 2 * l.slot <= Len(l.s)
                   THEN [s |-> swap(l.s, c, l.slot), slot |-> c] ELSE l]

sunk(s, i) == Looped(SinkTurn, s, i)

\* indexOf(id), for an id the heap holds.
slotOf(id) == CHOOSE i \in DOMAIN heaped : /\ heaped[i].id = id
                                           /\ \A j \in 1 .. i - 1 : heaped[j].id # id

\* Mutant: a new timer stays where it is put.
AddedLast(s, t) == Append(s, t)

Added(s, t) == moveUp(Append(s, t), Len(s) + 1)
Removed(i) == SubSeq(sunk(heaped, i).s, 1, Len(heaped) - 1)
Changed(i, d, cyc) == [heaped EXCEPT ![i] = [HeapQueue!setExpiredTime(@, d) EXCEPT !.cycled = cyc]]

-----------------------------------------------------------------------------
\* On a full array add writes behind its end.
HeapAdd(t) == /\ inside
              /\ \A i \in DOMAIN heaped : heaped[i].id # t.id
              /\ IF Len(heaped) < HeapCapacity
                   THEN heaped' = Added(heaped, t) /\ UNCHANGED inside
                   ELSE inside' = FALSE /\ UNCHANGED heaped
              /\ UNCHANGED <<clock, heapHanded>>

HeapRemove(id) == /\ inside /\ \E i \in DOMAIN heaped : heaped[i].id = id
                  /\ heaped' = Removed(slotOf(id))
                  /\ UNCHANGED <<clock, heapHanded, inside>>

HeapModify(id, d, cyc) ==
  /\ inside /\ \E i \in DOMAIN heaped : heaped[i].id = id
  /\ LET i == slotOf(id)
         s == Changed(i, d, cyc)
     IN  heaped' = IF i = 1 \/ Before(s, i \div 2, i) THEN moveDown(s, i) ELSE moveUp(s, i)
  /\ UNCHANGED <<clock, heapHanded, inside>>

\* pop(task)
HeapPop == /\ inside /\ heaped # <<>>
           /\ LET t == heaped[1]
                  left == Removed(slotOf(t.id))
                  again == HeapQueue!setExpiredTime(t, t.duration)
              IN  /\ heapHanded' = IF t.cycled THEN again ELSE t
                  /\ heaped' = IF t.cycled THEN Added(left, again) ELSE left
           /\ UNCHANGED <<clock, inside>>

\* pop()
HeapDiscard == /\ inside /\ heaped # <<>>
               /\ heaped' = Removed(slotOf(heaped[1].id))
               /\ UNCHANGED <<clock, heapHanded, inside>>

HeapTick == clock < MaxClock /\ clock' = clock + 1 /\ UNCHANGED <<heaped, heapHanded, inside>>

HeapNext ==
  \/ \E id \in Ids, d \in Durations, cyc \in BOOLEAN, made \in 0 .. clock :
       HeapAdd([id |-> id, duration |-> d, expired_time |-> made + d, cycled |-> cyc])
  \/ \E id \in Ids : HeapRemove(id) \/ \E d \in Durations, cyc \in BOOLEAN : HeapModify(id, d, cyc)
  \/ HeapPop \/ HeapDiscard \/ HeapTick

HeapSpec == HeapInit /\ [][HeapNext]_heapVars

-----------------------------------------------------------------------------
IsHeap(s) == /\ \A j \in 2 .. Len(s) : ~ Before(s, j, j \div 2)
             /\ \A i, j \in DOMAIN s : s[i].id = s[j].id => i = j

\* The timer in slot i has its place at its earlier child at most, and
\* moveDown leaves it there or where it is.
DownOnce(s, i) ==
  LET c == EarlierChild(s, 2 * i)
  IN  2 * i <= Len(s) /\ Before(s, c, i)
        => /\ moveDown(s, i) = swap(s, c, i)
           /\ \A g \in {2 * c, 2 * c + 1} : g <= Len(s) => ~ Before(s, g, i)

\* What pop hands out is due first.
HandsLeast ==
  heapHanded' # heapHanded =>
    \E t \in HeapTimers : /\ HeapQueue!Least(t)
                          /\ heapHanded' = IF t.cycled THEN HeapQueue!setExpiredTime(t, t.duration) ELSE t

\* remove takes the last slot's timer, because the hole ended elsewhere; pop
\* then puts a cycled one in once more.
LastGoes ==
  \E i \in DOMAIN heaped :
    /\ HeapRemove(heaped[i].id) \/ (i = 1 /\ (HeapPop \/ HeapDiscard))
    /\ sunk(heaped, i).slot # Len(heaped)
    /\ \E more \in {{}, {heapHanded'}} : HeapTimers' = (HeapTimers \ {heaped[Len(heaped)]}) \cup more

\* modify leaves a timer above an earlier one.
TooHigh == \E id \in Ids, d \in Durations, cyc \in BOOLEAN :
             HeapQueue!QModify(id, d, cyc) /\ ~ DownOnce(Changed(slotOf(id), d, cyc), slotOf(id))

AtMostOne(S) == \A t, u \in S : t = u

\* remove drops the last slot wherever the hole went (Timer.cpp:41-59), and
\* moveDown goes on with the slot it started from (Timer.cpp:107-118).  In
\* any array they lose no more than one timer and bring in no more than one.
\* An array in order hands out a timer due first, and is in order after a step
\* of the queue, unless the last slot's timer went instead of another or a
\* timer had its place further down than its child.
HeapKeepsTimers ==
  [][inside' =>
       /\ AtMostOne(HeapTimers \ HeapTimers') /\ AtMostOne(HeapTimers' \ HeapTimers)
       /\ IsHeap(heaped) =>
            /\ HandsLeast
            /\ (HeapQueue!QNext /\ IsHeap(heaped')) \/ LastGoes \/ TooHigh]_heapVars
=============================================================================
