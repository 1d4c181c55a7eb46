----------------------------- MODULE LRUReplacer -----------------------------
(***************************************************************************)
(* LRUReplacer (src/src/util/buffer/Replacer.cpp) behind BufferPool.  Each *)
(* operation holds the mutex from its first to its last line, so it is one *)
(* step, whichever thread takes it.  A capacity of zero is left out: the   *)
(* first access would pop from an empty list.                              *)
(***************************************************************************)
EXTENDS Integers, Sequences, SequencesExt

CONSTANTS Keys, Values, capacity

ASSUME ReplacerAssumption == capacity \in Nat \ {0} /\ Values # {}

VARIABLES
  caches_,     \* front first, entries [key, value]
  newer,       \* history: pairs of keys, the first of them used later than the second
  stored       \* history: the value each key was last inserted with

lruVars == <<caches_, newer, stored>>

Entry(k, v) == [key |-> k, value |-> v]
cached == {caches_[i].key : i \in DOMAIN caches_}

\* The first entry of k, and the list without it.
Found(k) == CHOOSE i \in DOMAIN caches_ :
              caches_[i].key = k /\ \A j \in 1 .. i - 1 : caches_[j].key # k
Without(k) == RemoveAt(caches_, Found(k))

LRUInit == caches_ = <<>> /\ newer = {} /\ stored \in [Keys -> {CHOOSE v \in Values : TRUE}]

\* k is the key used last; one that was never used is older than all that were.
Touch(k) == newer' = {p \in newer : k \notin {p[1], p[2]}} \cup {<<k, j>> : j \in Keys \ {k}}

-----------------------------------------------------------------------------
\* What is found moves to the front.
Hit(k) == /\ k \in cached
          /\ caches_' = <<caches_[Found(k)]>> \o Without(k)
          /\ Touch(k)
          /\ UNCHANGED stored

\* Mutant: the front is dropped.
MakeRoomAtFront == IF Len(caches_) >= capacity THEN Tail(caches_) ELSE caches_

\* pop_back when the list is full
MakeRoom == IF Len(caches_) >= capacity THEN Front(caches_) ELSE caches_

Miss(k, v) == /\ k \notin cached
              /\ caches_' = <<Entry(k, v)>> \o MakeRoom
              /\ stored' = [stored EXCEPT ![k] = v]
              /\ Touch(k)

\* A hit hands out the stored value and ignores the one it is given.
access(k, v) == Hit(k) \/ Miss(k, v)

\* evite and remove: evite also hands out the value.
remove(k) == /\ k \in cached
             /\ caches_' = Without(k)
             /\ UNCHANGED <<newer, stored>>

LRUNext == \E k \in Keys : remove(k) \/ \E v \in Values : access(k, v)

LRUSpec == LRUInit /\ [][LRUNext]_lruVars

-----------------------------------------------------------------------------
LRUTypeOK == /\ caches_ \in Seq([key : Keys, value : Values])
             /\ Len(caches_) <= capacity
             /\ newer \subseteq Keys \X Keys
             /\ stored \in [Keys -> Values]

\* The list holds each key once, in the order of last use, with the value it
\* was inserted with (Replacer.cpp:5-20: push_front of a copy, then erase).
RecencyOrder ==
  /\ \A i, j \in DOMAIN caches_ : i < j => <<caches_[i].key, caches_[j].key>> \in newer
  /\ \A i \in DOMAIN caches_ : caches_[i].value = stored[caches_[i].key]

\* The access that lets a key in never drops one that was used after a key it
\* keeps (Replacer.cpp:15-16), and drops none while there is room.
DropsOldest ==
  [][(cached' \ cached # {}) =>
       \A k \in cached \ cached' :
         /\ Len(caches_) = capacity
         /\ \A j \in cached \ {k} : <<j, k>> \in newer]_lruVars

\* The two together: a hit keeps the order (Replacer.cpp:9-13), a miss drops
\* the last of it.
CacheIsLRU == []RecencyOrder /\ DropsOldest
=============================================================================
