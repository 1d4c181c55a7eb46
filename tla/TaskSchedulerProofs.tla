------------------------ MODULE TaskSchedulerProofs ------------------------
(***************************************************************************)
(* The scheduler's rounds and its timers, for any number of clients,       *)
(* timers and trigger events, any durations and any lateness.              *)
(*                                                                         *)
(* The worker lives within a round because Timer::running_ is raised and   *)
(* cleared by the loop thread only, at fixed places.  A popped one-shot    *)
(* timer is due because the worker computed its sleep from it under the    *)
(* same hold of the Timer's mutex.                                         *)
(***************************************************************************)
EXTENDS TaskScheduler, SequenceTheorems, FiniteSetTheorems, TLAPS

Queued(t) == \E i \in DOMAIN tasks_ : tasks_[i] = t
Handing(c, t) == client[c].op = "add" /\ client[c].id = t
Handed(t) == \E c \in Clients : Handing(c, t)

\* Timer::running_ is set from the spawn of the worker to its join.
Rounds == /\ timer_running_ <=> loop \in {"poll", "join", "clear"}
          /\ WorkerOnlyWithinRound

\* What was used of an id was constructed before.
Constructed ==
  /\ \A t \in Timers : Queued(t) \/ Handed(t) => t < curr_timer_id
  /\ task < curr_timer_id
  /\ \A t \in called \cup dropped \cup removed : t < curr_timer_id
  /\ \A c \in Clients : client[c].op = "add" => client[c].id \in Timers

\* The worker sleeps with the mutex at least until the first timer is due, and
\* what it then popped is due or cycled.
Due == /\ worker_ = "sleep" <=> timer_mutex_ = Worker
       /\ worker_ = "sleep" /\ tasks_ # <<>> => left[Head(tasks_)] <= nap
       /\ worker_ # "call" => task = 0
       /\ task # 0 /\ ~ cycled[task] => left[task] <= 0
       /\ NoTimerLost

\* A timer is handed over by one client, before it is queued, and queued once.
Apart == /\ \A t \in Timers : Handed(t) => ~ Queued(t)
         /\ \A c, d \in Clients, t \in Timers : Handing(c, t) /\ Handing(d, t) => c = d
         /\ \A i, j \in DOMAIN tasks_ : tasks_[i] = tasks_[j] => i = j

\* A one-shot timer is in exactly one of five places.
Somewhere(t) == Handed(t) \/ Queued(t) \/ task = t \/ t \in called \/ t \in removed
Exclusive(t) == /\ Handed(t) => ~ Queued(t) /\ task # t /\ t \notin called \cup removed
                /\ Queued(t) => task # t /\ t \notin called \cup removed
                /\ task = t => t \notin called \cup removed
                /\ t \in called => t \notin removed
Placed == \A t \in Timers :
            t < curr_timer_id /\ ~ cycled[t] => Somewhere(t) /\ Exclusive(t)

IInv == TypeOK /\ Rounds /\ Constructed /\ Due /\ Apart /\ Placed

-----------------------------------------------------------------------------
(* The queue of timers *)

Ids(s) == {s[i] : i \in DOMAIN s}
Injective(s) == \A i, j \in DOMAIN s : s[i] = s[j] => i = j

\* The places of an insertion.
LEMMA InsertAtFacts ==
  ASSUME NEW s \in Seq(Timers), NEW t \in Timers, NEW k \in 1 .. Len(s) + 1
  PROVE  /\ InsertAt(s, k, t) \in Seq(Timers)
         /\ Len(InsertAt(s, k, t)) = Len(s) + 1
         /\ \A i \in 1 .. Len(s) + 1 :
              InsertAt(s, k, t)[i] = IF i < k THEN s[i] ELSE IF i = k THEN t ELSE s[i - 1]
<1> DEFINE a == SubSeq(s, 1, k - 1)
           b == <<t>>
           c == SubSeq(s, k, Len(s))
<1>1. Len(s) \in Nat /\ k - 1 \in Nat
  OBVIOUS
<1>2. a \in Seq(Timers) /\ Len(a) = k - 1 /\ \A i \in 1 .. k - 1 : a[i] = s[i]
  BY <1>1, SubSeqProperties
<1>3. /\ c \in Seq(Timers) /\ Len(c) = Len(s) + 1 - k
      /\ \A i \in 1 .. Len(s) + 1 - k : c[i] = s[k + i - 1]
  BY <1>1, SubSeqProperties
<1>4. b \in Seq(Timers) /\ Len(b) = 1 /\ b[1] = t
  OBVIOUS
<1>5. InsertAt(s, k, t) = (a \o b) \o c
  BY DEF InsertAt
<1> HIDE DEF a, b, c
<1> DEFINE ab == a \o b
<1>6. /\ ab \in Seq(Timers) /\ Len(ab) = k
      /\ \A i \in 1 .. k : ab[i] = IF i < k THEN s[i] ELSE t
  <2>1. /\ ab \in Seq(Timers) /\ Len(ab) = (k - 1) + 1
        /\ \A i \in 1 .. (k - 1) + 1 : ab[i] = IF i <= k - 1 THEN a[i] ELSE b[i - (k - 1)]
    <3>1. a \in Seq(Timers) /\ b \in Seq(Timers)
      BY <1>2, <1>4
    <3>2. /\ ab \in Seq(Timers) /\ Len(ab) = Len(a) + Len(b)
          /\ \A i \in 1 .. Len(a) + Len(b) : ab[i] = IF i <= Len(a) THEN a[i] ELSE b[i - Len(a)]
      BY <3>1
    <3> HIDE DEF ab
    <3> QED
      BY <1>2, <1>4, <3>2
  <2>2. (k - 1) + 1 = k
    BY <1>1
  <2>3. ASSUME NEW i \in 1 .. k
        PROVE  ab[i] = IF i < k THEN s[i] ELSE t
    <3>1. CASE i < k
      BY <1>1, <1>2, <2>1, <2>2, <3>1
    <3>2. CASE i = k
      <4>1. i - (k - 1) = 1 /\ ~ (i <= k - 1) /\ i \in 1 .. (k - 1) + 1
        BY <1>1, <3>2
      <4> QED
        BY <1>4, <2>1, <3>2, <4>1
    <3> HIDE DEF ab
    <3> QED
      BY <1>1, <3>1, <3>2
  <2> QED
    BY <2>1, <2>2, <2>3
<1> HIDE DEF ab
<1>7. InsertAt(s, k, t) = ab \o c
  BY <1>5 DEF ab
<1>8. /\ ab \o c \in Seq(Timers) /\ Len(ab \o c) = Len(s) + 1
      /\ \A i \in 1 .. Len(s) + 1 : (ab \o c)[i] = IF i <= k THEN ab[i] ELSE c[i - k]
  <2> DEFINE m == Len(s) + 1 - k
  <2>1. m \in Nat /\ k \in Nat /\ k + m = Len(s) + 1 /\ Len(c) = m
    BY <1>1, <1>3
  <2> HIDE DEF m
  <2>2. /\ ab \o c \in Seq(Timers) /\ Len(ab \o c) = k + m
        /\ \A i \in 1 .. k + m : (ab \o c)[i] = IF i <= k THEN ab[i] ELSE c[i - k]
    <3>1. ab \in Seq(Timers) /\ c \in Seq(Timers) /\ Len(ab) = k
      BY <1>3, <1>6
    <3>2. /\ ab \o c \in Seq(Timers) /\ Len(ab \o c) = Len(ab) + Len(c)
          /\ \A i \in 1 .. Len(ab) + Len(c) :
               (ab \o c)[i] = IF i <= Len(ab) THEN ab[i] ELSE c[i - Len(ab)]
      BY <3>1, ConcatProperties
    <3> QED
      BY <2>1, <3>1, <3>2
  <2> QED
    BY <2>1, <2>2
<1>9. \A i \in 1 .. Len(s) + 1 : i > k => i - k \in 1 .. Len(s) + 1 - k /\ c[i - k] = s[i - 1]
  BY <1>1, <1>3
<1>10. \A i \in 1 .. Len(s) + 1 :
         InsertAt(s, k, t)[i] = IF i < k THEN s[i] ELSE IF i = k THEN t ELSE s[i - 1]
  <2> TAKE i \in 1 .. Len(s) + 1
  <2>1. InsertAt(s, k, t)[i] = IF i <= k THEN ab[i] ELSE c[i - k]
    BY <1>7, <1>8
  <2>2. i <= k => ab[i] = IF i < k THEN s[i] ELSE t
    BY <1>6
  <2>3. i > k => c[i - k] = s[i - 1]
    BY <1>9
  <2> HIDE DEF ab
  <2> QED
    BY <1>1, <2>1, <2>2, <2>3
<1> QED
  BY <1>7, <1>8, <1>10

\* The places of a removal.
LEMMA RemoveAtFacts ==
  ASSUME NEW s \in Seq(Timers), NEW k \in DOMAIN s
  PROVE  /\ RemoveAt(s, k) \in Seq(Timers)
         /\ Len(RemoveAt(s, k)) = Len(s) - 1
         /\ \A i \in 1 .. Len(s) - 1 : RemoveAt(s, k)[i] = IF i < k THEN s[i] ELSE s[i + 1]
<1> DEFINE a == SubSeq(s, 1, k - 1)
           c == SubSeq(s, k + 1, Len(s))
<1>1. Len(s) \in Nat /\ k - 1 \in Nat /\ k \in 1 .. Len(s)
  OBVIOUS
<1>2. a \in Seq(Timers) /\ Len(a) = k - 1 /\ \A i \in 1 .. k - 1 : a[i] = s[i]
  BY <1>1, SubSeqProperties
<1>3. /\ c \in Seq(Timers) /\ Len(c) = Len(s) - k
      /\ \A i \in 1 .. Len(s) - k : c[i] = s[k + i]
  BY <1>1, SubSeqProperties
<1>4. RemoveAt(s, k) = a \o c
  BY DEF RemoveAt
<1> HIDE DEF a, c
<1>5. /\ a \o c \in Seq(Timers) /\ Len(a \o c) = Len(s) - 1
      /\ \A i \in 1 .. Len(s) - 1 : (a \o c)[i] = IF i <= k - 1 THEN a[i] ELSE c[i - (k - 1)]
  <2> DEFINE n == k - 1
             m == Len(s) - k
  <2>1. n \in Nat /\ m \in Nat /\ n + m = Len(s) - 1 /\ Len(a) = n /\ Len(c) = m
    BY <1>1, <1>2, <1>3
  <2>2. \A i : (IF i <= k - 1 THEN a[i] ELSE c[i - (k - 1)]) = IF i <= n THEN a[i] ELSE c[i - n]
    OBVIOUS
  <2> HIDE DEF n, m
  <2>3. /\ a \o c \in Seq(Timers) /\ Len(a \o c) = n + m
        /\ \A i \in 1 .. n + m : (a \o c)[i] = IF i <= n THEN a[i] ELSE c[i - n]
    <3>1. a \in Seq(Timers) /\ c \in Seq(Timers)
      BY <1>2, <1>3
    <3>2. /\ a \o c \in Seq(Timers) /\ Len(a \o c) = Len(a) + Len(c)
          /\ \A i \in 1 .. Len(a) + Len(c) :
               (a \o c)[i] = IF i <= Len(a) THEN a[i] ELSE c[i - Len(a)]
      BY <3>1
    <3> QED
      BY <2>1, <3>2
  <2> QED
    BY <2>1, <2>2, <2>3
<1>6. \A i \in 1 .. Len(s) - 1 :
         i >= k => i - (k - 1) \in 1 .. Len(s) - k /\ c[i - (k - 1)] = s[i + 1]
  <2> TAKE i \in 1 .. Len(s) - 1
  <2> HAVE i >= k
  <2>1. i - (k - 1) \in 1 .. Len(s) - k /\ k + (i - (k - 1)) = i + 1
    BY <1>1
  <2> QED
    BY <1>3, <2>1
<1>7. \A i \in 1 .. Len(s) - 1 : RemoveAt(s, k)[i] = IF i < k THEN s[i] ELSE s[i + 1]
  <2> TAKE i \in 1 .. Len(s) - 1
  <2>1. RemoveAt(s, k)[i] = IF i <= k - 1 THEN a[i] ELSE c[i - (k - 1)]
    BY <1>4, <1>5
  <2>2. i <= k - 1 => a[i] = s[i]
    BY <1>1, <1>2
  <2>3. i >= k => c[i - (k - 1)] = s[i + 1]
    BY <1>6
  <2> QED
    BY <1>1, <2>1, <2>2, <2>3
<1> QED
  BY <1>4, <1>5, <1>7

\* Adding queues the timer.
LEMMA AddFacts ==
  ASSUME NEW s \in Seq(Timers), NEW t \in Timers, NEW due
  PROVE  /\ Add(s, t, due) \in Seq(Timers)
         /\ Ids(Add(s, t, due)) = Ids(s) \cup {t}
         /\ Injective(s) /\ t \notin Ids(s) => Injective(Add(s, t, due))
<1> DEFINE B == {i \in DOMAIN s : due[s[i]] <= due[t]}
           k == Cardinality(B) + 1
           r == Add(s, t, due)
<1>1. DOMAIN s = 1 .. Len(s) /\ Len(s) \in Nat
  OBVIOUS
<1>2. IsFiniteSet(1 .. Len(s)) /\ Cardinality(1 .. Len(s)) = Len(s)
  BY <1>1, FS_Interval
<1>3. Cardinality(B) \in Nat /\ Cardinality(B) <= Len(s)
  BY <1>1, <1>2, FS_Subset, FS_CardinalityType
<1>4. k \in 1 .. Len(s) + 1 /\ r = InsertAt(s, k, t)
  BY <1>1, <1>3 DEF Add
<1> HIDE DEF k, r
<1>5. /\ r \in Seq(Timers) /\ Len(r) = Len(s) + 1
      /\ \A i \in 1 .. Len(s) + 1 : r[i] = IF i < k THEN s[i] ELSE IF i = k THEN t ELSE s[i - 1]
  <2>1. k \in 1 .. Len(s) + 1
    BY <1>4
  <2>2. /\ InsertAt(s, k, t) \in Seq(Timers)
        /\ Len(InsertAt(s, k, t)) = Len(s) + 1
        /\ \A i \in 1 .. Len(s) + 1 :
             InsertAt(s, k, t)[i] = IF i < k THEN s[i] ELSE IF i = k THEN t ELSE s[i - 1]
    BY <2>1, InsertAtFacts
  <2> QED
    BY <1>4, <2>2
<1>6. DOMAIN r = 1 .. Len(s) + 1
  BY <1>5
<1> DEFINE at(i) == IF i < k THEN i ELSE i - 1
<1>7. \A i \in DOMAIN r : i # k => at(i) \in DOMAIN s /\ r[i] = s[at(i)]
  BY <1>1, <1>4, <1>5, <1>6
<1>8. k \in DOMAIN r /\ r[k] = t
  BY <1>1, <1>4, <1>5, <1>6
<1>9. \A i, j \in DOMAIN r : i # k /\ j # k /\ at(i) = at(j) => i = j
  BY <1>1, <1>4, <1>6
<1>10. \A j \in DOMAIN s : \E i \in DOMAIN r : i # k /\ at(i) = j
  <2> TAKE j \in DOMAIN s
  <2>1. CASE j < k
    BY <1>1, <1>4, <1>6, <2>1
  <2>2. CASE ~ (j < k)
    <3>1. j + 1 \in DOMAIN r /\ j + 1 # k /\ at(j + 1) = j
      BY <1>1, <1>4, <1>6, <2>2
    <3> QED
      BY <3>1
  <2> QED
    BY <2>1, <2>2
<1> HIDE DEF at
<1>11. Ids(r) = Ids(s) \cup {t}
  <2>1. \A j \in DOMAIN s : \E i \in DOMAIN r : r[i] = s[j]
    BY <1>7, <1>10
  <2> QED
    BY <1>7, <1>8, <2>1 DEF Ids
<1>12. ASSUME Injective(s), t \notin Ids(s)
       PROVE  Injective(r)
  <2>1. \A j \in DOMAIN s : s[j] # t
    BY <1>12 DEF Ids
  <2> QED
    BY <1>7, <1>8, <1>9, <1>12, <2>1 DEF Injective
<1> QED
  BY <1>5, <1>11, <1>12 DEF r

\* Erasing takes the timer out, and nothing else.
LEMMA EraseFacts ==
  ASSUME NEW s \in Seq(Timers), NEW t, Injective(s)
  PROVE  /\ Erase(s, t) \in Seq(Timers)
         /\ Ids(Erase(s, t)) = Ids(s) \ {t}
         /\ Injective(Erase(s, t))
<1> DEFINE here == {i \in DOMAIN s : s[i] = t}
<1>1. CASE here = {}
  BY <1>1 DEF Erase, Ids
<1>2. CASE here # {}
  <2> DEFINE k == CHOOSE i \in here : TRUE
             r == Erase(s, t)
  <2>1. k \in DOMAIN s /\ s[k] = t /\ r = RemoveAt(s, k)
    BY <1>2 DEF Erase
  <2> HIDE DEF k, r
  <2>2. /\ r \in Seq(Timers) /\ Len(r) = Len(s) - 1
        /\ \A i \in 1 .. Len(s) - 1 : r[i] = IF i < k THEN s[i] ELSE s[i + 1]
    BY <2>1, RemoveAtFacts
  <2>3. DOMAIN r = 1 .. Len(s) - 1 /\ DOMAIN s = 1 .. Len(s) /\ Len(s) \in Nat
    BY <2>2
  <2> DEFINE at(i) == IF i < k THEN i ELSE i + 1
  <2>4. \A i \in DOMAIN r : at(i) \in DOMAIN s /\ at(i) # k /\ r[i] = s[at(i)]
    BY <2>1, <2>2, <2>3
  <2>5. \A i, j \in DOMAIN r : at(i) = at(j) => i = j
    BY <2>1, <2>3
  <2>6. \A j \in DOMAIN s : j # k => \E i \in DOMAIN r : at(i) = j
    <3> TAKE j \in DOMAIN s
    <3>1. CASE j < k
      BY <2>1, <2>3, <3>1
    <3>2. CASE j > k
      <4>1. j - 1 \in DOMAIN r /\ at(j - 1) = j
        BY <2>1, <2>3, <3>2
      <4> QED
        BY <4>1
    <3> QED
      BY <2>1, <2>3, <3>1, <3>2
  <2> HIDE DEF at
  <2>7. Injective(r)
    BY <2>4, <2>5 DEF Injective
  <2>8. Ids(r) = Ids(s) \ {t}
    <3>1. \A i \in DOMAIN r : r[i] \in Ids(s) \ {t}
      BY <2>1, <2>4 DEF Ids, Injective
    <3>2. \A j \in DOMAIN s : s[j] # t => \E i \in DOMAIN r : r[i] = s[j]
      BY <2>1, <2>4, <2>6
    <3> QED
      BY <3>1, <3>2 DEF Ids
  <2> QED
    BY <2>2, <2>7, <2>8 DEF r
<1> QED
  BY <1>1, <1>2

\* Popping takes the head out.
LEMMA TailFacts ==
  ASSUME NEW s \in Seq(Timers), s # <<>>, Injective(s)
  PROVE  /\ Tail(s) \in Seq(Timers) /\ Head(s) \in Timers
         /\ Ids(Tail(s)) = Ids(s) \ {Head(s)} /\ Head(s) \in Ids(s)
         /\ Injective(Tail(s))
<1> DEFINE r == Tail(s)
<1>1. /\ r \in Seq(Timers) /\ Len(s) \in Nat /\ Len(s) >= 1
      /\ Head(s) = s[1] /\ 1 \in DOMAIN s /\ DOMAIN s = 1 .. Len(s)
  OBVIOUS
<1>2. DOMAIN r = 1 .. Len(s) - 1 /\ \A i \in 1 .. Len(s) - 1 : r[i] = s[i + 1]
  OBVIOUS
<1> HIDE DEF r
<1>3. \A i \in DOMAIN r : i + 1 \in DOMAIN s /\ i + 1 # 1
  BY <1>1, <1>2
<1>4. \A j \in DOMAIN s : j # 1 => j - 1 \in DOMAIN r /\ r[j - 1] = s[j]
  BY <1>1, <1>2
<1>5. Injective(r)
  <2>1. \A i, j \in DOMAIN r : i + 1 = j + 1 => i = j
    BY <1>1, <1>2
  <2>2. \A i, j \in DOMAIN r : r[i] = r[j] => i = j
    <3> TAKE i, j \in DOMAIN r
    <3>1. r[i] = s[i + 1] /\ r[j] = s[j + 1] /\ i + 1 \in DOMAIN s /\ j + 1 \in DOMAIN s
      BY <1>2, <1>3
    <3> QED
      BY <2>1, <3>1 DEF Injective
  <2> QED
    BY <2>2 DEF Injective
<1>6. Ids(r) = Ids(s) \ {Head(s)}
  <2>1. \A i \in DOMAIN r : r[i] \in Ids(s) \ {Head(s)}
    <3> TAKE i \in DOMAIN r
    <3>1. r[i] = s[i + 1] /\ i + 1 \in DOMAIN s /\ i + 1 # 1
      BY <1>2, <1>3
    <3> QED
      BY <1>1, <3>1 DEF Ids, Injective
  <2>2. \A j \in DOMAIN s : s[j] # Head(s) => \E i \in DOMAIN r : r[i] = s[j]
    BY <1>1, <1>4
  <2> QED
    BY <2>1, <2>2 DEF Ids
<1> QED
  BY <1>1, <1>5, <1>6 DEF Ids, r

-----------------------------------------------------------------------------
(* Initially *)

LEMMA InitInv == Init => IInv
<1> SUFFICES ASSUME Init PROVE IInv
  OBVIOUS
<1>1. TypeOK
  <2>1. 1 \in 1 .. MaxTimers + 1
    BY TimerAssumption
  <2>2. Idle \in [op : {"idle", "add", "remove", "post"}, id : Timers \cup {0}]
    BY DEF Idle
  <2>3. /\ client \in [Clients -> [op : {"idle", "add", "remove", "post"}, id : Timers \cup {0}]]
        /\ left \in [Timers -> Int] /\ duration \in [Timers -> Durations \cup {0}]
        /\ cycled \in [Timers -> BOOLEAN]
    BY <2>2 DEF Init
  <2>4. trigger_events_ \in Seq(Nat) /\ tasks_ \in Seq(Timers)
    BY DEF Init
  <2>5. task \in Timers \cup {0} /\ nap \in Nat /\ posted \in Nat /\ executed \in Nat
    BY DEF Init
  <2>6. called \subseteq Timers /\ dropped \subseteq Timers /\ removed \subseteq Timers
    BY DEF Init
  <2>7. running_ \in BOOLEAN /\ loop \in LoopPcs /\ timer_running_ \in BOOLEAN /\ worker_ \in WorkerPcs
    BY DEF Init, LoopPcs, WorkerPcs
  <2>8. mutex_ \in Clients \cup {Nobody} /\ timer_mutex_ \in {Nobody, Worker}
    BY DEF Init
  <2>9. curr_timer_id \in 1 .. MaxTimers + 1
    BY <2>1 DEF Init
  <2> QED
    BY <2>3, <2>4, <2>5, <2>6, <2>7, <2>8, <2>9 DEF TypeOK
<1>2. Rounds /\ Due
  BY HolderAssumption DEF Init, Rounds, WorkerOnlyWithinRound, Due, NoTimerLost
<1>3. \A t : ~ Queued(t) /\ ~ Handed(t)
  BY DEF Init, Queued, Handed, Handing, Idle
<1>4. Constructed
  BY <1>3 DEF Init, Constructed, Idle
<1>5. Apart
  BY <1>3 DEF Init, Apart, Handing, Idle
<1>6. Placed
  BY DEF Init, Placed, Timers
<1> QED
  BY <1>1, <1>2, <1>4, <1>5, <1>6 DEF IInv

-----------------------------------------------------------------------------
(* Rounds *)

\* The loop thread alone writes Timer::running_ and spawns and joins the worker.
LEMMA RoundsStep ==
  ASSUME TypeOK, Rounds, [Next]_vars
  PROVE  Rounds'
<1> USE DEF Rounds, WorkerOnlyWithinRound, TypeOK, LoopPcs, WorkerPcs, schedVars, timerVars
<1>1. CASE Start
  BY <1>1 DEF Start, LoopGoes
<1>2. CASE Loop
  <2>1. CASE LoopTest \/ TriggerPop \/ TriggerMore
    BY <2>1 DEF LoopTest, TriggerPop, TriggerMore, LoopGoes
  <2>2. CASE TimerStart \/ TimerStarted
    BY <2>2 DEF TimerStart, TimerStarted, LoopGoes
  <2>3. CASE PollReturns
    BY <2>3 DEF PollReturns, LoopGoes
  <2>4. CASE TimerStop \/ TimerStopped
    BY <2>4 DEF TimerStop, TimerStopped, LoopGoes
  <2> QED
    BY <1>2, <2>1, <2>2, <2>3, <2>4 DEF Loop
<1>3. CASE WorkerStep
  BY <1>3 DEF WorkerStep, WorkerCheck, WorkerSleep, WorkerPop, WorkerCall
<1>4. CASE Tick \/ Stop
  BY <1>4 DEF Tick, Stop
<1>5. ASSUME NEW c \in Clients, Request(c) \/ Acquire(c)
      PROVE  Rounds'
  BY <1>5 DEF Request, Acquire, NewTimer, RemoveTimer, PostTrigger, LockScheduler,
              PushTrigger, FinishTimerOp
<1>6. CASE UNCHANGED vars
  BY <1>6 DEF vars
<1> QED
  BY <1>1, <1>2, <1>3, <1>4, <1>5, <1>6 DEF Next

-----------------------------------------------------------------------------
(* Timers *)

\* What the invariant says of timers.
TimerInv == Constructed /\ Due /\ Apart /\ Placed

Names == <<tasks_, task, curr_timer_id, cycled, called, removed>>

LEMMA QueuedIs == ASSUME NEW t PROVE Queued(t) <=> t \in Ids(tasks_)
BY DEF Queued, Ids

\* Steps that concern no timer, and move the worker outside its sleep and call.
LEMMA QuietStep ==
  ASSUME TimerInv, UNCHANGED <<Names, left, nap, timer_mutex_, dropped, client>>,
         worker_' = worker_ \/ {worker_, worker_'} \cap {"sleep", "call"} = {}
  PROVE  TimerInv'
<1>1. \A t \in Timers : (Queued(t)' <=> Queued(t)) /\ (Handed(t)' <=> Handed(t))
  BY DEF Queued, Handed, Handing, Names
<1>2. Constructed'
  BY <1>1 DEF TimerInv, Constructed, Names
<1>3. Due'
  BY DEF TimerInv, Due, NoTimerLost, Names
<1>4. Apart'
  BY <1>1 DEF TimerInv, Apart, Names, Handing
<1>5. Placed'
  BY <1>1 DEF TimerInv, Placed, Somewhere, Exclusive, Names
<1> QED
  BY <1>2, <1>3, <1>4, <1>5 DEF TimerInv

\* The worker's sleep is as long as the first timer needs.
LEMMA SleepStep ==
  ASSUME IInv, WorkerSleep
  PROVE  TimerInv'
<1>1. UNCHANGED <<Names, left, dropped, client>>
  BY DEF WorkerSleep, Names, taskVars, histVars
<1>2. \A t \in Timers : (Queued(t)' <=> Queued(t)) /\ (Handed(t)' <=> Handed(t))
  BY <1>1 DEF Queued, Handed, Handing, Names
<1>3. Constructed'
  BY <1>1, <1>2 DEF IInv, Constructed, Names
<1>4. Due'
  <2>1. worker_' = "sleep" /\ timer_mutex_' = Worker
    BY DEF WorkerSleep
  <2>2. tasks_ # <<>> => left[Head(tasks_)] <= nap'
    <3> SUFFICES ASSUME tasks_ # <<>> PROVE left[Head(tasks_)] <= nap'
      OBVIOUS
    <3>1. Head(tasks_) \in Timers
      BY DEF IInv, TypeOK
    <3>2. left[Head(tasks_)] \in Int
      BY <3>1 DEF IInv, TypeOK
    <3> QED
      BY <3>2 DEF WorkerSleep, nextTimestamp
  <2>3. task' = 0
    BY <1>1 DEF IInv, Due, WorkerSleep, Names
  <2> QED
    BY <1>1, <2>1, <2>2, <2>3 DEF IInv, Due, NoTimerLost, Names
<1>5. Apart'
  BY <1>1, <1>2 DEF IInv, Apart, Names, Handing
<1>6. Placed'
  BY <1>1, <1>2 DEF IInv, Placed, Somewhere, Exclusive, Names
<1> QED
  BY <1>3, <1>4, <1>5, <1>6 DEF TimerInv

\* The worker pops a timer that is due, or cycled, or none.
LEMMA PopStep ==
  ASSUME IInv, WorkerPop
  PROVE  TimerInv' /\ tasks_' \in Seq(Timers) /\ task' \in Timers \cup {0}
         /\ left' \in [Timers -> Int]
<1>1. UNCHANGED <<curr_timer_id, duration, cycled, called, removed, dropped, client, nap>>
  BY DEF WorkerPop, taskVars, histVars
<1>2. worker_ = "sleep" /\ worker_' = "call" /\ timer_mutex_' = Nobody /\ nap = 0 /\ task = 0
  BY DEF WorkerPop, IInv, Due
<1>3. \A t \in Timers : Handed(t)' <=> Handed(t)
  BY <1>1 DEF Handed, Handing
<1>4. CASE tasks_ = <<>>
  <2>1. UNCHANGED <<tasks_, left>> /\ task' = 0
    BY <1>4 DEF WorkerPop
  <2>2. \A t \in Timers : Queued(t)' <=> Queued(t)
    BY <2>1 DEF Queued
  <2>3. Constructed'
    BY <1>1, <1>2, <1>3, <2>1, <2>2 DEF IInv, Constructed
  <2>4. Due'
    BY <1>1, <1>2, <2>1, HolderAssumption DEF IInv, Due, NoTimerLost
  <2>5. Apart'
    BY <1>1, <1>3, <2>1, <2>2 DEF IInv, Apart, Handing
  <2>6. Placed'
    BY <1>1, <1>2, <1>3, <2>1, <2>2 DEF IInv, Placed, Somewhere, Exclusive
  <2> QED
    BY <2>1, <2>3, <2>4, <2>5, <2>6 DEF TimerInv, IInv, TypeOK
<1>5. CASE tasks_ # <<>>
  <2> DEFINE h == Head(tasks_)
  <2>1. task' = h /\ left' = Rearmed(h, left) /\ tasks_' = Pop(tasks_, left')
    BY <1>5 DEF WorkerPop
  <2>2. Injective(tasks_) /\ tasks_ \in Seq(Timers)
    BY DEF IInv, TypeOK, Apart, Injective
  <2>3. /\ Tail(tasks_) \in Seq(Timers) /\ h \in Timers /\ h \in Ids(tasks_)
        /\ Ids(Tail(tasks_)) = Ids(tasks_) \ {h} /\ Injective(Tail(tasks_))
    BY <1>5, <2>2, TailFacts
  <2>4. left[h] <= 0 /\ h < curr_timer_id /\ (~ cycled[h] => left' = left)
    BY <1>2, <1>5, <2>1, <2>3, QueuedIs DEF IInv, Due, Constructed, Rearmed
  <2>5. left' \in [Timers -> Int]
    <3>1. left' = left \/ left' = [left EXCEPT ![h] = duration[h]]
      BY <2>1 DEF Rearmed
    <3>2. h \in Timers
      BY <2>3
    <3> HIDE DEF h
    <3>3. duration[h] \in Durations \cup {0}
      BY <3>2 DEF IInv, TypeOK
    <3>4. duration[h] \in Int
      <4>1. \A d \in Durations \cup {0} : d \in Int
        BY TimerAssumption
      <4> QED
        BY <3>3, <4>1, Zenon
    <3> QED
      BY <3>1, <3>4 DEF IInv, TypeOK
  <2> HIDE DEF h
  <2>6. /\ tasks_' \in Seq(Timers) /\ Injective(tasks_')
        /\ Ids(tasks_') = IF cycled[h] THEN Ids(tasks_) ELSE Ids(tasks_) \ {h}
    <3>1. CASE cycled[h]
      <4>1. tasks_' = Add(Tail(tasks_), h, left')
        BY <2>1, <3>1 DEF Pop, h
      <4>2. /\ tasks_' \in Seq(Timers) /\ Ids(tasks_') = Ids(Tail(tasks_)) \cup {h}
            /\ Injective(tasks_')
        BY <2>3, <4>1, AddFacts
      <4> QED
        BY <2>3, <3>1, <4>2
    <3>2. CASE ~ cycled[h]
      <4>1. tasks_' = Tail(tasks_)
        BY <2>1, <3>2 DEF Pop, h
      <4> QED
        BY <2>3, <3>2, <4>1
    <3> QED
      BY <3>1, <3>2
  <2>7. \A t \in Timers : Queued(t)' <=> Queued(t) /\ (t # h \/ cycled[h])
    <3>1. \A t : (Queued(t) <=> t \in Ids(tasks_)) /\ (Queued(t)' <=> t \in Ids(tasks_'))
      BY DEF Queued, Ids
    <3> QED
      BY <2>3, <2>6, <3>1
  <2>8. Constructed'
    BY <1>1, <1>3, <2>1, <2>4, <2>7 DEF IInv, Constructed, h
  <2>9. Due'
    BY <1>1, <1>2, <2>1, <2>4, HolderAssumption DEF IInv, Due, NoTimerLost, h
  <2>10. Apart'
    BY <1>1, <1>3, <2>6, <2>7 DEF IInv, Apart, Handing, Injective
  <2>11. Placed'
    <3>1. Queued(h) /\ task' = h
      BY <2>1, <2>3, QueuedIs DEF h
    <3> QED
      BY <1>1, <1>2, <1>3, <2>7, <3>1 DEF IInv, Placed, Somewhere, Exclusive, Timers
  <2> QED
    BY <2>1, <2>3, <2>5, <2>6, <2>8, <2>9, <2>10, <2>11 DEF TimerInv, h
<1> QED
  BY <1>4, <1>5

\* The worker calls what has expired, and drops what has not.
LEMMA CallStep ==
  ASSUME IInv, WorkerCall
  PROVE  TimerInv' /\ called' \subseteq Timers /\ dropped' \subseteq Timers
<1>1. UNCHANGED <<tasks_, left, curr_timer_id, cycled, removed, client, timer_mutex_>>
  BY DEF WorkerCall, taskVars
<1>2. worker_ = "call" /\ worker_' = "done" /\ task' = 0 /\ task \in Timers \cup {0}
  BY DEF WorkerCall, IInv, TypeOK
<1>3. \A t \in Timers : (Queued(t)' <=> Queued(t)) /\ (Handed(t)' <=> Handed(t))
  BY <1>1 DEF Queued, Handed, Handing
<1>4. \/ task # 0 /\ left[task] <= 0 /\ called' = called \cup {task} /\ dropped' = dropped
      \/ /\ task = 0 \/ cycled[task]
         /\ called' = called /\ dropped' = dropped \cup ({task} \ {0})
  <2>1. task # 0 /\ ~ cycled[task] => isExpired(task)
    BY <1>2 DEF IInv, Due, isExpired
  <2> QED
    BY <2>1 DEF WorkerCall, isExpired
<1>5. Constructed'
  BY <1>1, <1>2, <1>3, <1>4, TimerAssumption DEF IInv, Constructed, TypeOK
<1>6. Due'
  BY <1>1, <1>2, <1>4 DEF IInv, Due, NoTimerLost
<1>7. Apart'
  BY <1>1, <1>3 DEF IInv, Apart, Handing
<1>8. Placed'
  BY <1>1, <1>2, <1>3, <1>4 DEF IInv, Placed, Somewhere, Exclusive, Timers
<1> QED
  BY <1>2, <1>4, <1>5, <1>6, <1>7, <1>8 DEF TimerInv, IInv, TypeOK

\* Time passes for the worker's sleep and for the timers alike.
LEMMA TickStep ==
  ASSUME IInv, Tick
  PROVE  TimerInv' /\ left' \in [Timers -> Int] /\ nap' \in Nat
<1>1. UNCHANGED <<Names, dropped, client, timer_mutex_, worker_>>
  BY DEF Tick, Names, taskVars, histVars
<1>2. \A t \in Timers : (Queued(t)' <=> Queued(t)) /\ (Handed(t)' <=> Handed(t))
  BY <1>1 DEF Queued, Handed, Handing, Names
<1>3. left' \in [Timers -> Int] /\ nap' \in Nat
  BY TimerAssumption DEF Tick, IInv, TypeOK
<1>4. \A t \in Timers :
        /\ left[t] <= 0 => left'[t] <= 0
        /\ t < curr_timer_id /\ left[t] <= nap => left'[t] <= nap'
  <2> TAKE t \in Timers
  <2>1. left[t] \in Int /\ nap \in Nat /\ MaxLate \in Nat
    BY TimerAssumption DEF IInv, TypeOK
  <2>2. left'[t] = IF t < curr_timer_id /\ left[t] > -MaxLate THEN left[t] - 1 ELSE left[t]
    BY DEF Tick
  <2>3. nap' = IF nap > 0 THEN nap - 1 ELSE 0
    BY DEF Tick
  <2>4. left[t] <= 0 => left'[t] <= 0
    BY <2>1, <2>2
  <2>5. ASSUME t < curr_timer_id, left[t] <= nap
        PROVE  left'[t] <= nap'
    <3>1. CASE left[t] > -MaxLate
      BY <2>1, <2>2, <2>3, <2>5, <3>1
    <3>2. CASE ~ (left[t] > -MaxLate)
      BY <2>1, <2>2, <2>3, <2>5, <3>2
    <3> QED
      BY <3>1, <3>2
  <2> QED
    BY <2>4, <2>5
<1>5. Constructed'
  BY <1>1, <1>2 DEF IInv, Constructed, Names
<1>6. Due'
  <2>1. tasks_ # <<>> => Head(tasks_) \in Timers /\ Head(tasks_) < curr_timer_id
    <3> SUFFICES ASSUME tasks_ # <<>>
                 PROVE  Head(tasks_) \in Timers /\ Head(tasks_) < curr_timer_id
      OBVIOUS
    <3>1. Head(tasks_) \in Timers /\ Head(tasks_) \in Ids(tasks_)
      BY TailFacts DEF IInv, TypeOK, Apart, Injective
    <3> QED
      BY <3>1, QueuedIs DEF IInv, Constructed
  <2>2. task # 0 => task \in Timers
    BY DEF IInv, TypeOK
  <2> QED
    BY <1>1, <1>4, <2>1, <2>2 DEF IInv, Due, NoTimerLost, Names
<1>7. Apart'
  BY <1>1, <1>2 DEF IInv, Apart, Names, Handing
<1>8. Placed'
  BY <1>1, <1>2 DEF IInv, Placed, Somewhere, Exclusive, Names
<1> QED
  BY <1>3, <1>5, <1>6, <1>7, <1>8 DEF TimerInv

\* A new timer is nowhere but with the client that constructs it.
LEMMA NewTimerStep ==
  ASSUME IInv, NEW c \in Clients, NEW d \in Durations, NEW cyc \in Cycled, NewTimer(c, d, cyc)
  PROVE  IInv'
<1> DEFINE n == curr_timer_id
<1>1. UNCHANGED <<schedVars, timer_running_, timer_mutex_, worker_, tasks_, task, nap,
                  histVars>>
  BY DEF NewTimer
<1>2. /\ n \in Timers /\ n' = n + 1 /\ n \in Nat
      /\ duration' = [duration EXCEPT ![n] = d] /\ cycled' = [cycled EXCEPT ![n] = cyc]
      /\ left' = [left EXCEPT ![n] = d]
      /\ client[c] = Idle /\ client' = [client EXCEPT ![c] = [op |-> "add", id |-> n]]
  BY TimerAssumption DEF NewTimer, Begin, IInv, TypeOK, Timers
<1> HIDE DEF n
<1>3. TypeOK'
  <2>1. d \in Int /\ cyc \in BOOLEAN
    BY TimerAssumption
  <2>2. curr_timer_id' \in 1 .. MaxTimers + 1
    BY <1>2, TimerAssumption DEF Timers, n
  <2> QED
    BY <1>1, <1>2, <2>1, <2>2 DEF IInv, TypeOK, schedVars, histVars
<1>4. Rounds'
  BY RoundsStep DEF IInv, Next, Request
<1>5. \A t \in Timers, b \in Clients : Handing(b, t)' <=> Handing(b, t) \/ (b = c /\ t = n)
  BY <1>2 DEF Handing, IInv, TypeOK, Idle
<1>6. \A t \in Timers : (Queued(t)' <=> Queued(t)) /\ (Handed(t)' <=> Handed(t) \/ t = n)
  BY <1>1, <1>5 DEF Queued, Handed
<1>7. ~ Queued(n) /\ ~ Handed(n) /\ task # n /\ n \notin called \cup dropped \cup removed
  BY <1>2 DEF IInv, Constructed, n
<1>8. UNCHANGED <<called, dropped, removed>>
  BY <1>1 DEF histVars
<1>9. Constructed'
  <2>1. \A b \in Clients : client'[b].op = "add" => client'[b].id \in Timers
    BY <1>2 DEF IInv, Constructed, TypeOK
  <2>2. \A t \in Timers : t < n => t < n'
    BY <1>2 DEF Timers
  <2>3. n < n'
    BY <1>2
  <2>4. task' < n'
    BY <1>1, <1>2, TimerAssumption DEF IInv, Constructed, TypeOK, Timers, n
  <2>5. called \cup dropped \cup removed \subseteq Timers
    BY DEF IInv, TypeOK
  <2> QED
    BY <1>6, <1>8, <2>1, <2>2, <2>3, <2>4, <2>5 DEF IInv, Constructed, n
<1>10. Due'
  <2>1. \A t \in Timers : t # n => left'[t] = left[t] /\ cycled'[t] = cycled[t]
    BY <1>2 DEF IInv, TypeOK
  <2>2. tasks_ # <<>> => Head(tasks_) \in Timers /\ Head(tasks_) # n
    <3> SUFFICES ASSUME tasks_ # <<>> PROVE Head(tasks_) \in Timers /\ Head(tasks_) # n
      OBVIOUS
    <3>1. Head(tasks_) \in Timers /\ Head(tasks_) \in Ids(tasks_)
      BY TailFacts DEF IInv, TypeOK, Apart, Injective
    <3> QED
      BY <1>7, <3>1, QueuedIs
  <2>3. task # 0 => task \in Timers
    BY DEF IInv, TypeOK
  <2>4. dropped \subseteq Timers
    BY DEF IInv, TypeOK
  <2> QED
    BY <1>1, <1>7, <1>8, <2>1, <2>2, <2>3, <2>4 DEF IInv, Due, NoTimerLost
<1>11. Apart'
  <2>1. \A b \in Clients : ~ Handing(b, n)
    BY <1>7 DEF Handed
  <2>2. \A a, b \in Clients, t \in Timers : Handing(a, t)' /\ Handing(b, t)' => a = b
    BY <1>5, <2>1 DEF IInv, Apart
  <2> QED
    BY <1>1, <1>6, <1>7, <2>2 DEF IInv, Apart
<1>12. Placed'
  <2> SUFFICES ASSUME NEW t \in Timers, t < n', ~ cycled'[t]
               PROVE  Somewhere(t)' /\ Exclusive(t)'
    BY DEF Placed, n
  <2>1. CASE t = n
    BY <1>1, <1>6, <1>7, <1>8, <2>1 DEF Somewhere, Exclusive
  <2>2. CASE t # n
    <3>1. t < n /\ ~ cycled[t]
      BY <1>2, <2>2 DEF IInv, TypeOK, Timers
    <3>2. Somewhere(t) /\ Exclusive(t)
      BY <3>1 DEF IInv, Placed, n
    <3> QED
      BY <1>1, <1>6, <1>8, <2>2, <3>2 DEF Somewhere, Exclusive
  <2> QED
    BY <2>1, <2>2
<1> QED
  BY <1>3, <1>4, <1>9, <1>10, <1>11, <1>12 DEF IInv

\* A client that goes from one thing to another, neither of them an addTimer.
LEMMA OtherClientStep ==
  ASSUME IInv, NEW c \in Clients, client[c].op # "add", NEW r, r.op # "add",
         client' = [client EXCEPT ![c] = r],
         UNCHANGED <<Names, left, nap, timer_mutex_, dropped, worker_>>
  PROVE  TimerInv'
<1>1. \A b \in Clients : /\ client'[b].op = "add" <=> client[b].op = "add"
                         /\ client[b].op = "add" => client'[b] = client[b]
  BY DEF IInv, TypeOK
<1>2. \A t \in Timers, b \in Clients : Handing(b, t)' <=> Handing(b, t)
  BY <1>1 DEF Handing
<1>3. \A t \in Timers : (Queued(t)' <=> Queued(t)) /\ (Handed(t)' <=> Handed(t))
  BY <1>2 DEF Queued, Handed, Names
<1>4. Constructed'
  BY <1>1, <1>3 DEF IInv, Constructed, Names
<1>5. Due'
  BY DEF IInv, Due, NoTimerLost, Names
<1>6. Apart'
  BY <1>2, <1>3 DEF IInv, Apart, Names
<1>7. Placed'
  BY <1>3 DEF IInv, Placed, Somewhere, Exclusive, Names
<1> QED
  BY <1>4, <1>5, <1>6, <1>7 DEF TimerInv

\* addTimer and removeTimer, under both mutexes.
LEMMA FinishStep ==
  ASSUME IInv, NEW c \in Clients, FinishTimerOp(c)
  PROVE  TimerInv' /\ tasks_' \in Seq(Timers) /\ removed' \subseteq Timers
<1> DEFINE t == client[c].id
<1>1. /\ UNCHANGED <<task, curr_timer_id, cycled, called, left, nap, timer_mutex_, dropped,
                     worker_>>
      /\ timer_mutex_ = Nobody /\ worker_ # "sleep"
      /\ client' = [client EXCEPT ![c] = Idle]
  BY HolderAssumption DEF FinishTimerOp, taskVars, Return, IInv, Due
<1>2. Injective(tasks_) /\ tasks_ \in Seq(Timers)
  BY DEF IInv, TypeOK, Apart, Injective
<1>3. Due'
  BY <1>1 DEF IInv, Due, NoTimerLost
<1>4. \A b \in Clients, u \in Timers : Handing(b, u)' <=> Handing(b, u) /\ b # c
  BY <1>1 DEF Handing, Idle, IInv, TypeOK
<1>5. \A b \in Clients : client'[b].op = "add" => client'[b].id \in Timers
  BY <1>1 DEF Idle, IInv, TypeOK, Constructed
<1>6. \A u : (Queued(u) <=> u \in Ids(tasks_)) /\ (Queued(u)' <=> u \in Ids(tasks_'))
  BY DEF Queued, Ids
<1>7. CASE client[c].op = "add"
  <2>1. tasks_' = Add(tasks_, t, left) /\ removed' = removed /\ t \in Timers
    BY <1>7 DEF FinishTimerOp, IInv, Constructed
  <2>2. Handing(c, t) /\ Handed(t) /\ ~ Queued(t) /\ t < curr_timer_id
    BY <1>7, <2>1 DEF Handing, Handed, IInv, Apart, Constructed
  <2> HIDE DEF t
  <2>3. /\ tasks_' \in Seq(Timers) /\ Ids(tasks_') = Ids(tasks_) \cup {t}
        /\ Injective(tasks_')
    BY <1>2, <1>6, <2>1, <2>2, AddFacts
  <2>4. \A u \in Timers : /\ Queued(u)' <=> Queued(u) \/ u = t
                          /\ Handed(u)' <=> Handed(u) /\ u # t
    <3>1. \A u \in Timers : Queued(u)' <=> Queued(u) \/ u = t
      BY <1>6, <2>3
    <3>2. \A b \in Clients : Handing(b, t) => b = c
      BY <2>1, <2>2 DEF IInv, Apart
    <3>3. \A u \in Timers : Handing(c, u) => u = t
      BY DEF Handing, t
    <3>4. \A u \in Timers : Handed(u)' <=> Handed(u) /\ u # t
      BY <1>4, <3>2, <3>3 DEF Handed
    <3> QED
      BY <3>1, <3>4
  <2>5. Constructed'
    BY <1>1, <1>5, <2>1, <2>2, <2>4 DEF IInv, Constructed
  <2>6. Apart'
    BY <1>4, <2>3, <2>4 DEF IInv, Apart, Injective
  <2>7. Placed'
    BY <1>1, <2>1, <2>2, <2>4 DEF IInv, Placed, Somewhere, Exclusive
  <2> QED
    BY <1>3, <2>1, <2>3, <2>5, <2>6, <2>7 DEF TimerInv, IInv, TypeOK
<1>8. CASE client[c].op # "add"
  <2>1. tasks_' = Erase(tasks_, t) /\ removed' = removed \cup (Range(tasks_) \cap {t})
    BY <1>8 DEF FinishTimerOp
  <2>2. Range(tasks_) = Ids(tasks_)
    BY DEF Range, Ids
  <2> HIDE DEF t
  <2>3. /\ tasks_' \in Seq(Timers) /\ Ids(tasks_') = Ids(tasks_) \ {t}
        /\ Injective(tasks_')
    BY <1>2, <2>1, EraseFacts
  <2>4. \A u \in Timers : /\ Queued(u)' <=> Queued(u) /\ u # t
                          /\ Handed(u)' <=> Handed(u)
                          /\ u \in removed' <=> u \in removed \/ (Queued(u) /\ u = t)
    <3>1. \A u \in Timers : ~ Handing(c, u)
      BY <1>8 DEF Handing
    <3> QED
      BY <1>4, <1>6, <2>1, <2>2, <2>3, <3>1 DEF Handed
  <2>5. removed' \subseteq Timers
    <3>1. Ids(tasks_) \subseteq Timers
      BY <1>2 DEF Ids
    <3> QED
      BY <2>1, <2>2, <3>1 DEF IInv, TypeOK
  <2>6. Constructed'
    BY <1>1, <1>5, <2>4, <2>5 DEF IInv, Constructed, TypeOK
  <2>7. Apart'
    BY <1>4, <2>3, <2>4 DEF IInv, Apart, Injective
  <2>8. Placed'
    BY <1>1, <2>4 DEF IInv, Placed, Somewhere, Exclusive
  <2> QED
    BY <1>3, <2>3, <2>5, <2>6, <2>7, <2>8 DEF TimerInv
<1> QED
  BY <1>7, <1>8

-----------------------------------------------------------------------------
(* The specification *)

\* Every step keeps the types.
LEMMA TypeStep ==
  ASSUME IInv, [Next]_vars
  PROVE  TypeOK'
<1> USE DEF schedVars, timerVars, taskVars, histVars, LoopPcs, WorkerPcs
<1>1. TypeOK
  BY DEF IInv
<1>2. CASE Start \/ Stop
  BY <1>1, <1>2 DEF Start, Stop, LoopGoes, TypeOK
<1>3. CASE Loop
  <2>1. CASE TriggerPop
    <3>1. trigger_events_ \in Seq(Nat) /\ executed \in Nat
      BY <1>1 DEF TypeOK
    <3>2. trigger_events_' \in Seq(Nat) /\ executed' \in Nat
      <4>1. CASE trigger_events_ = <<>>
        BY <2>1, <3>1, <4>1 DEF TriggerPop
      <4>2. CASE trigger_events_ # <<>>
        <5>1. Tail(trigger_events_) \in Seq(Nat)
          BY <3>1, <4>2
        <5> QED
          BY <2>1, <3>1, <4>2, <5>1 DEF TriggerPop
      <4> QED
        BY <4>1, <4>2
    <3> QED
      BY <1>1, <2>1, <3>2 DEF TriggerPop, LoopGoes, TypeOK
  <2>2. CASE LoopTest \/ TriggerMore \/ PollReturns
    BY <1>1, <2>2 DEF LoopTest, TriggerMore, PollReturns, LoopGoes, TypeOK
  <2>3. CASE TimerStart \/ TimerStarted \/ TimerStop \/ TimerStopped
    BY <1>1, <2>3 DEF TimerStart, TimerStarted, TimerStop, TimerStopped, LoopGoes, TypeOK
  <2> QED
    BY <1>3, <2>1, <2>2, <2>3 DEF Loop
<1>4. CASE WorkerStep
  <2>1. CASE WorkerCheck
    BY <1>1, <2>1 DEF WorkerCheck, TypeOK
  <2>2. CASE WorkerSleep
    <3>1. nap' \in Nat
      <4>1. tasks_ # <<>> => left[Head(tasks_)] \in Int
        BY <1>1 DEF TypeOK
      <4> QED
        BY <2>2, <4>1, TimerAssumption DEF WorkerSleep, nextTimestamp
    <3> QED
      BY <1>1, <2>2, <3>1 DEF WorkerSleep, TypeOK
  <2>3. CASE WorkerPop
    <3>1. tasks_' \in Seq(Timers) /\ task' \in Timers \cup {0} /\ left' \in [Timers -> Int]
      BY <2>3, PopStep
    <3> QED
      BY <1>1, <2>3, <3>1 DEF WorkerPop, TypeOK
  <2>4. CASE WorkerCall
    <3>1. called' \subseteq Timers /\ dropped' \subseteq Timers
      BY <2>4, CallStep
    <3> QED
      BY <1>1, <2>4, <3>1 DEF WorkerCall, TypeOK
  <2> QED
    BY <1>4, <2>1, <2>2, <2>3, <2>4 DEF WorkerStep
<1>5. CASE Tick
  <2>1. left' \in [Timers -> Int] /\ nap' \in Nat
    BY <1>5, TickStep
  <2> QED
    BY <1>1, <1>5, <2>1 DEF Tick, TypeOK
<1>6. ASSUME NEW c \in Clients, Request(c)
      PROVE  TypeOK'
  <2>1. ASSUME NEW d \in Durations, NEW cyc \in Cycled, NewTimer(c, d, cyc)
        PROVE  TypeOK'
    BY <2>1, NewTimerStep DEF IInv
  <2>2. CASE RemoveTimer(c)
    <3>1. 1 \in Timers
      BY <1>1, <2>2, TimerAssumption DEF RemoveTimer, TypeOK, Timers
    <3> QED
      BY <1>1, <2>2, <3>1 DEF RemoveTimer, Begin, TypeOK
  <2>3. CASE PostTrigger(c)
    BY <1>1, <2>3 DEF PostTrigger, Begin, TypeOK
  <2> QED
    BY <1>6, <2>1, <2>2, <2>3 DEF Request
<1>7. ASSUME NEW c \in Clients, Acquire(c)
      PROVE  TypeOK'
  <2>1. CASE LockScheduler(c)
    BY <1>1, <2>1 DEF LockScheduler, TypeOK
  <2>2. CASE PushTrigger(c)
    <3>1. posted' \in Nat
      BY <1>1, <2>2 DEF PushTrigger, TypeOK
    <3>2. trigger_events_' \in Seq(Nat)
      BY <1>1, <2>2, <3>1 DEF PushTrigger, TypeOK
    <3> QED
      BY <1>1, <2>2, <3>1, <3>2 DEF PushTrigger, Return, Idle, TypeOK
  <2>3. CASE FinishTimerOp(c)
    <3>1. tasks_' \in Seq(Timers) /\ removed' \subseteq Timers
      BY <2>3, FinishStep
    <3> QED
      BY <1>1, <2>3, <3>1 DEF FinishTimerOp, Return, Idle, TypeOK
  <2> QED
    BY <1>7, <2>1, <2>2, <2>3 DEF Acquire
<1>8. CASE UNCHANGED vars
  BY <1>1, <1>8 DEF vars, TypeOK
<1> QED
  BY <1>2, <1>3, <1>4, <1>5, <1>6, <1>7, <1>8 DEF Next

\* Every step keeps what the invariant says of timers.
LEMMA TimerStep ==
  ASSUME IInv, [Next]_vars
  PROVE  TimerInv'
<1> USE DEF schedVars, timerVars, taskVars, histVars, Names
<1>1. TimerInv
  BY DEF IInv, TimerInv
<1>2. CASE Start \/ Stop
  BY <1>1, <1>2, QuietStep DEF Start, Stop
<1>3. CASE Loop
  <2>1. CASE LoopTest \/ TriggerPop \/ TriggerMore \/ TimerStarted \/ PollReturns \/ TimerStopped
    BY <1>1, <2>1, QuietStep
       DEF LoopTest, TriggerPop, TriggerMore, TimerStarted, PollReturns, TimerStopped
  <2>2. CASE TimerStart
    <3>1. ~ timer_running_ /\ worker_ = "none"
      BY <2>2 DEF TimerStart, IInv, Rounds, WorkerOnlyWithinRound
    <3> QED
      BY <1>1, <2>2, <3>1, QuietStep DEF TimerStart
  <2>3. CASE TimerStop
    <3>1. worker_' = worker_ \/ (worker_ = "done" /\ worker_' = "none")
      BY <2>3 DEF TimerStop
    <3> QED
      BY <1>1, <2>3, <3>1, QuietStep DEF TimerStop
  <2> QED
    BY <1>3, <2>1, <2>2, <2>3 DEF Loop
<1>4. CASE WorkerStep
  <2>1. CASE WorkerCheck
    BY <1>1, <2>1, QuietStep DEF WorkerCheck
  <2> QED
    BY <1>4, <2>1, SleepStep, PopStep, CallStep DEF WorkerStep
<1>5. CASE Tick
  BY <1>5, TickStep
<1>6. ASSUME NEW c \in Clients, Request(c)
      PROVE  TimerInv'
  <2>1. ASSUME NEW d \in Durations, NEW cyc \in Cycled, NewTimer(c, d, cyc)
        PROVE  TimerInv'
    BY <2>1, NewTimerStep DEF IInv, TimerInv
  <2>2. CASE RemoveTimer(c)
    <3>1. /\ client[c].op # "add" /\ client' = [client EXCEPT ![c] = [op |-> "remove", id |-> 1]]
          /\ UNCHANGED <<Names, left, nap, timer_mutex_, dropped, worker_>>
      BY <2>2 DEF RemoveTimer, Begin, Idle
    <3>2. [op |-> "remove", id |-> 1].op # "add"
      OBVIOUS
    <3> QED
      BY <3>1, <3>2, OtherClientStep
  <2>3. CASE PostTrigger(c)
    <3>1. /\ client[c].op # "add" /\ client' = [client EXCEPT ![c] = [op |-> "post", id |-> 0]]
          /\ UNCHANGED <<Names, left, nap, timer_mutex_, dropped, worker_>>
      BY <2>3 DEF PostTrigger, Begin, Idle
    <3>2. [op |-> "post", id |-> 0].op # "add"
      OBVIOUS
    <3> QED
      BY <3>1, <3>2, OtherClientStep
  <2> QED
    BY <1>6, <2>1, <2>2, <2>3 DEF Request
<1>7. ASSUME NEW c \in Clients, Acquire(c)
      PROVE  TimerInv'
  <2>1. CASE LockScheduler(c)
    BY <1>1, <2>1, QuietStep DEF LockScheduler
  <2>2. CASE PushTrigger(c)
    BY <2>2, OtherClientStep DEF PushTrigger, Return, Idle
  <2>3. CASE FinishTimerOp(c)
    BY <2>3, FinishStep
  <2> QED
    BY <1>7, <2>1, <2>2, <2>3 DEF Acquire
<1>8. CASE UNCHANGED vars
  BY <1>1, <1>8, QuietStep DEF vars
<1> QED
  BY <1>2, <1>3, <1>4, <1>5, <1>6, <1>7, <1>8 DEF Next

LEMMA Inductive == IInv /\ [Next]_vars => IInv'
BY RoundsStep, TypeStep, TimerStep DEF IInv, TimerInv

\* A one-shot timer that is in one of the five places only is counted once.
LEMMA CountedOnce == IInv => OneShotOnce
<1> SUFFICES ASSUME IInv,
                    NEW t \in Timers, t < curr_timer_id, ~ cycled[t],
                    NEW places,
                    places = {p \in {"client", "queue", "worker", "called", "removed"} :
                      \/ p = "client" /\ \E c \in Clients : client[c] = [op |-> "add", id |-> t]
                      \/ p = "queue" /\ t \in Range(tasks_)
                      \/ p = "worker" /\ task = t
                      \/ p = "called" /\ t \in called
                      \/ p = "removed" /\ t \in removed}
             PROVE  Cardinality(places) = 1
  BY DEF OneShotOnce
<1>1. Somewhere(t) /\ Exclusive(t)
  BY DEF IInv, Placed
<1>2. (\E c \in Clients : client[c] = [op |-> "add", id |-> t]) <=> Handed(t)
  <2>1. ASSUME NEW c \in Clients
        PROVE  client[c] = [op |-> "add", id |-> t] <=> Handing(c, t)
    BY DEF IInv, TypeOK, Handing
  <2> QED
    BY <2>1 DEF Handed
<1>3. t \in Range(tasks_) <=> Queued(t)
  BY DEF Range, Queued
<1>4. places = {p \in {"client", "queue", "worker", "called", "removed"} :
                    \/ p = "client" /\ Handed(t)
                    \/ p = "queue" /\ Queued(t)
                    \/ p = "worker" /\ task = t
                    \/ p = "called" /\ t \in called
                    \/ p = "removed" /\ t \in removed}
  BY <1>2, <1>3
<1>5. \E k : places = {k}
  <2>1. CASE Handed(t)
    <3>1. places = {"client"}
      BY <1>1, <1>4, <2>1 DEF Exclusive
    <3> QED
      BY <3>1
  <2>2. CASE Queued(t)
    <3>1. places = {"queue"}
      BY <1>1, <1>4, <2>2 DEF Exclusive
    <3> QED
      BY <3>1
  <2>3. CASE task = t
    <3>1. places = {"worker"}
      BY <1>1, <1>4, <2>3 DEF Exclusive
    <3> QED
      BY <3>1
  <2>4. CASE t \in called
    <3>1. places = {"called"}
      BY <1>1, <1>4, <2>4 DEF Exclusive
    <3> QED
      BY <3>1
  <2>5. CASE t \in removed
    <3>1. places = {"removed"}
      BY <1>1, <1>4, <2>5 DEF Exclusive
    <3> QED
      BY <3>1
  <2> QED
    BY <1>1, <2>1, <2>2, <2>3, <2>4, <2>5 DEF Somewhere
<1> QED
  BY <1>5, FS_Singleton

\* The types, for every number of clients, timers and events.
THEOREM SchedulerTypes == Spec => []TypeOK
<1>1. IInv => TypeOK
  BY DEF IInv
<1> QED
  BY <1>1, InitInv, Inductive, PTL DEF Spec

\* The worker exists within a round of the loop only, so Timer::start never
\* assigns over a joinable thread (TaskScheduler.cpp:31-35, Timer.cpp:269-283).
THEOREM WorkerWithinRound == Spec => []WorkerOnlyWithinRound
<1>1. IInv => WorkerOnlyWithinRound
  BY DEF IInv, Rounds
<1> QED
  BY <1>1, InitInv, Inductive, PTL DEF Spec

\* The isExpired test of Timer.h:59 throws away no one-shot timer: the worker
\* has slept until it is due (Timer.h:249-263).
THEOREM NoneLost == Spec => []NoTimerLost
<1>1. IInv => NoTimerLost
  BY DEF IInv, Due
<1> QED
  BY <1>1, InitInv, Inductive, PTL DEF Spec

\* A one-shot timer is with its client, queued, popped, called or removed, and
\* never two of these (Timer.cpp:158-231, Timer.h:249-263).
THEOREM OnceEach == Spec => []OneShotOnce
BY InitInv, Inductive, CountedOnce, PTL DEF Spec
=============================================================================
