---------------------------- MODULE NetworkProofs ----------------------------
(***************************************************************************)
(* Four components that do not interact, in one module.                    *)
(*                                                                         *)
(* The cached descriptor sets of SelectManager, for any set of descriptors *)
(* and any number of threads that register and remove channels.  Two facts *)
(* make the unlocked reads of the flags harmless: the flags are only ever  *)
(* raised between the reads and the rebuild, and the exception flag stands *)
(* for all three whenever a channel came or went.  So either the exception *)
(* copy is exact and bounded by max_fd_, or the flag is up and the rebuild *)
(* under the mutex recomputes both.                                        *)
(*                                                                         *)
(* TcpClient and its Connector, for any number of user threads and calls.  *)
(* Nothing is locked, so the argument goes over where each thread stands:  *)
(* the socket is no longer fresh once somebody is past the attempt, the    *)
(* connection is there once somebody is past the callback, and while the   *)
(* socket is fresh nobody but the loop has written retry_times_, so that   *)
(* its load and store are as good as one step.                             *)
(*                                                                         *)
(* TimerTaskMap is a queue of timers, for any ids, durations and number of *)
(* timers.  The invariant is that the entries are in the order of their    *)
(* expiries and that no id is there twice; both ways of inserting keep it, *)
(* although among equal expiries they choose different places.             *)
(*                                                                         *)
(* TimerTaskHeap, for any number of slots and whatever its size_ starts    *)
(* with.  Each loop is followed by what holds after each turn.  Of any     *)
(* array: the timers only change places, and the last slot changes only if *)
(* remove's hole ends there.  Of an array in order: it is so but for one   *)
(* slot and its parent in moveUp, and but for a slot and its children in   *)
(* remove.  Together they say which timer every removal takes and when the *)
(* order is lost.                                                          *)
(***************************************************************************)
EXTENDS SelectManager, Client, TimerTaskMap, TimerTaskHeap, WellFoundedInduction, TLAPS

-----------------------------------------------------------------------------
(* SelectManager *)

\* A non-empty set of descriptors has a largest member.
LEMMA Largest ==
  ASSUME NEW n \in Nat, NEW S \in SUBSET (0 .. n), S # {}
  PROVE  /\ Max(S) \in S
         /\ \A y \in S : y <= Max(S)
<1> DEFINE T == {n - x : x \in S}
           R == OpToRel(<, Nat)
<1>1. IsWellFoundedOn(R, Nat)
  BY NatLessThanWellFounded
<1>2. \A x, y \in Nat : y < x => <<y, x>> \in R
  BY DEF OpToRel
<1> HIDE DEF R
<1>3. T \subseteq Nat /\ T # {}
  <2>1. \A x \in S : n - x \in Nat
    OBVIOUS
  <2> QED
    BY <2>1
<1>4. PICK t \in T : \A y \in T : ~ (<<y, t>> \in R)
  BY <1>1, <1>3, WFMin
<1>5. PICK x \in S : t = n - x
  BY <1>4
<1>6. \A y \in S : x >= y
  <2> TAKE y \in S
  <2>1. n - y \in T /\ n - y \in Nat /\ t \in Nat
    BY <1>3
  <2>2. ~ (n - y < t)
    BY <1>2, <1>4, <2>1
  <2>3. x \in 0 .. n /\ y \in 0 .. n
    OBVIOUS
  <2> QED
    BY <1>5, <2>2, <2>3
<1>7. Max(S) \in S /\ \A y \in S : Max(S) >= y
  BY <1>6 DEF Max
<1>8. \A y \in S : y \in Int
  OBVIOUS
<1> QED
  BY <1>7, <1>8

-----------------------------------------------------------------------------
(* Types *)

\* max_fd_ is zero or a descriptor, so the largest of it and the registered
\* descriptors is one too.
MaxType == max_fd_ \in 0 .. FdSetSize

LEMMA Raised ==
  ASSUME channels_ \subseteq Fds, MaxType
  PROVE  /\ Max(channels_ \cup {max_fd_}) \in 0 .. FdSetSize
         /\ \A f \in channels_ : f <= Max(channels_ \cup {max_fd_})
<1>1. channels_ \cup {max_fd_} \in SUBSET (0 .. FdSetSize)
  BY FdAssumption DEF MaxType
<1> QED
  BY <1>1, Largest, FdAssumption

\* The types, with the bound of max_fd_.
TypeInv == TypeOK /\ MaxType

\* A rebuild keeps the types.
LEMMA RebuildTypes ==
  ASSUME TypeInv, Rebuild
  PROVE  TypeInv'
<1>1. max_fd_' \in 0 .. FdSetSize
  BY Raised DEF Rebuild, TypeInv, TypeOK, MaxType
<1>2. backup_' \in [Kinds -> SUBSET Fds]
  BY DEF Rebuild, Wanted, TypeInv, TypeOK
<1> QED
  BY <1>1, <1>2, FdAssumption DEF Rebuild, chanVars, TypeInv, TypeOK, MaxType

\* What select() leaves, and what is collected from it, has its type.
LEMMA PollTypes ==
  ASSUME TypeInv, SelectReturns \/ Collect \/ Dispatch
  PROVE  TypeInv'
<1>1. CASE SelectReturns
  <2>1. result' \in [Kinds -> SUBSET Fds]
    BY <1>1 DEF SelectReturns, TypeInv, TypeOK
  <2> QED
    BY <1>1, <2>1 DEF SelectReturns, chanVars, TypeInv, TypeOK, MaxType
<1>2. CASE Collect
  <2>1. event_list' \subseteq Record
    <3>1. ASSUME NEW f \in channels_, Events(f) # {}
          PROVE  [fd |-> f, events |-> Events(f)] \in Record
      <4>1. Events(f) \in SUBSET {"IN", "OUT", "HUP"}
        BY DEF Events
      <4>2. f \in Fds
        BY DEF TypeInv, TypeOK
      <4> QED
        BY <3>1, <4>1, <4>2 DEF Record
    <3>2. ASSUME NEW r \in event_list'
          PROVE  r \in Record
      <4>1. PICK f \in channels_ : r = [fd |-> f, events |-> Events(f)] /\ r.events # {}
        BY <1>2 DEF Collect
      <4> QED
        BY <3>1, <4>1
    <3> QED
      BY <3>2
  <2>2. result' \in [Kinds -> SUBSET Fds]
    BY <1>2 DEF Collect, None
  <2> QED
    BY <1>2, <2>1, <2>2 DEF Collect, chanVars, TypeInv, TypeOK, MaxType
<1>3. CASE Dispatch
  BY <1>3 DEF Dispatch, Record, TypeInv, TypeOK, MaxType
<1> QED
  BY <1>1, <1>2, <1>3

\* Every step keeps the types.
LEMMA StepTypes == TypeInv /\ [Next]_vars => TypeInv'
<1> SUFFICES ASSUME TypeInv, [Next]_vars
             PROVE  TypeInv'
  OBVIOUS
<1>1. CASE UNCHANGED vars
  BY <1>1 DEF vars, chanVars, loopVars, TypeInv, TypeOK, MaxType
<1>2. CASE Turn \/ ZeroMax \/ SelectFails
  <2>1. max_fd_' \in 0 .. FdSetSize /\ max_fd_' \in Nat
    BY <1>2, FdAssumption DEF Turn, ZeroMax, SelectFails, TypeInv, TypeOK, MaxType
  <2>2. pc' \in {"turn", "zero", "rebuild", "select", "collect", "dispatch"}
    BY <1>2 DEF Turn, ZeroMax, SelectFails
  <2> QED
    BY <1>2, <2>1, <2>2
    DEF Turn, ZeroMax, SelectFails, chanVars, TypeInv, TypeOK, MaxType
<1>3. CASE Rebuild
  BY <1>3, RebuildTypes
<1>4. CASE SelectReturns \/ Collect \/ Dispatch
  BY <1>4, PollTypes
<1>5. ASSUME NEW f \in Fds, ChangeEvents(f)
      PROVE  TypeInv'
  BY <1>5 DEF ChangeEvents, loopVars, TypeInv, TypeOK, MaxType
<1>6. ASSUME NEW f \in Fds, updateChannel(f)
      PROVE  TypeInv'
  BY <1>6 DEF updateChannel, loopVars, Kinds, TypeInv, TypeOK, MaxType
<1>7. ASSUME NEW f \in Fds, removeChannel(f) \/ DataArrives(f)
      PROVE  TypeInv'
  BY <1>7 DEF removeChannel, DataArrives, loopVars, TypeInv, TypeOK, MaxType
<1> QED
  BY <1>1, <1>2, <1>3, <1>4, <1>5, <1>6, <1>7 DEF Next, handleEvent

\* The loop starts with the wake-up channel and nothing cached.
LEMMA InitTypes == Init => TypeInv
  BY FdAssumption DEF Init, None, Kinds, TypeInv, TypeOK, MaxType

\* Types, for every set of descriptors.
THEOREM TypeCorrect == Spec => []TypeOK
<1>1. TypeInv => TypeOK
  BY DEF TypeInv
<1> QED
  BY <1>1, InitTypes, StepTypes, PTL DEF Spec

-----------------------------------------------------------------------------
(* The cached sets *)

\* A channel that comes or goes raises the three flags together, the update of
\* a registered channel that of the write set only.
FlagsTogether == reset_ \in {{}, {"write"}, Kinds}

\* While the exception copy is exact it is also bounded.
Bounded == "exp" \notin reset_ => \A f \in channels_ : f <= max_fd_

Inv == TypeInv /\ FlagsTogether /\ CopiesAreCurrent /\ Bounded /\ MaxFdCovers

LEMMA KindsDistinct == Kinds = {"read", "write", "exp"} /\ "exp" \in Kinds
  BY DEF Kinds

\* The steps of other threads leave the copies and max_fd_ alone, and raise all
\* flags when a channel comes or goes.
LEMMA OthersKeepInv ==
  ASSUME Inv, NEW f \in Fds,
         ChangeEvents(f) \/ updateChannel(f) \/ removeChannel(f) \/ DataArrives(f)
  PROVE  (FlagsTogether /\ CopiesAreCurrent /\ Bounded /\ MaxFdCovers)'
<1>1. CASE reset_' = Kinds /\ UNCHANGED <<backup_, max_fd_, pc>>
  BY <1>1, KindsDistinct DEF Inv, FlagsTogether, CopiesAreCurrent, Bounded, MaxFdCovers
<1>2. CASE reset_' \in {reset_, reset_ \cup {"write"}}
           /\ UNCHANGED <<channels_, backup_, max_fd_, pc>>
  <2>1. FlagsTogether'
    BY <1>2, KindsDistinct DEF Inv, FlagsTogether
  <2>2. (CopiesAreCurrent /\ Bounded /\ MaxFdCovers)'
    BY <1>2, KindsDistinct DEF Inv, CopiesAreCurrent, Bounded, MaxFdCovers
  <2> QED
    BY <2>1, <2>2
<1> QED
  BY <1>1, <1>2 DEF ChangeEvents, updateChannel, removeChannel, DataArrives, loopVars

\* The rebuild recomputes what the flags ask for and keeps what is current.
LEMMA RebuildKeepsInv ==
  ASSUME Inv, Rebuild
  PROVE  (FlagsTogether /\ CopiesAreCurrent /\ Bounded /\ MaxFdCovers)'
<1>1. reset_' = {} /\ channels_' = channels_ /\ pc' = "select"
  BY DEF Rebuild, chanVars
<1>2. Wanted("exp") = channels_ /\ \A k \in Kinds : Wanted(k) \subseteq channels_
  BY DEF Wanted
<1>3. \A k \in Kinds : backup_'[k] = IF k \in reset_ THEN Wanted(k) ELSE backup_[k]
  BY DEF Rebuild
<1>4. \A k \in Kinds : k \notin reset_ => "exp" \notin reset_
  BY KindsDistinct DEF Inv, FlagsTogether
<1>5. backup_'["exp"] = channels_ /\ \A k \in Kinds : backup_'[k] \subseteq channels_
  <2>1. CASE "exp" \in reset_
    BY <1>2, <1>3, <1>4, <2>1, KindsDistinct
  <2>2. CASE "exp" \notin reset_
    BY <1>2, <1>3, <2>2, KindsDistinct DEF Inv, CopiesAreCurrent
  <2> QED
    BY <2>1, <2>2
<1>6. \A f \in channels_ : f <= max_fd_'
  <2>1. CASE "exp" \in reset_
    BY <2>1, Raised DEF Rebuild, Inv, TypeInv, TypeOK
  <2>2. CASE "exp" \notin reset_
    BY <2>2 DEF Rebuild, Inv, Bounded
  <2> QED
    BY <2>1, <2>2
<1> QED
  BY <1>1, <1>5, <1>6, KindsDistinct DEF FlagsTogether, CopiesAreCurrent, Bounded, MaxFdCovers

\* The other steps of the loop write no flag and no copy; only ZeroMax writes
\* max_fd_, and that while the flag of the exception set is up.
LEMMA LoopKeepsInv ==
  ASSUME Inv, Turn \/ ZeroMax \/ SelectReturns \/ SelectFails \/ Collect \/ Dispatch
  PROVE  (FlagsTogether /\ CopiesAreCurrent /\ Bounded /\ MaxFdCovers)'
<1>1. UNCHANGED <<channels_, reset_, backup_>>
  BY DEF Turn, ZeroMax, SelectReturns, SelectFails, Collect, Dispatch, chanVars
<1>2. Bounded'
  BY <1>1 DEF Turn, ZeroMax, SelectReturns, SelectFails, Collect, Dispatch, Inv, Bounded
<1>3. MaxFdCovers'
  <2>1. CASE pc' = "select"
    <3>1. pc = "turn" /\ reset_ = {} /\ max_fd_' = max_fd_
      BY <2>1 DEF Turn, ZeroMax, SelectReturns, SelectFails, Collect, Dispatch
    <3>2. \A k \in Kinds : backup_[k] \subseteq channels_
      BY <3>1, KindsDistinct DEF Inv, CopiesAreCurrent
    <3> QED
      BY <1>1, <3>1, <3>2 DEF Inv, Bounded, MaxFdCovers
  <2> QED
    BY <2>1 DEF MaxFdCovers
<1> QED
  BY <1>1, <1>2, <1>3 DEF Inv, FlagsTogether, CopiesAreCurrent

\* Every step keeps the invariant.
LEMMA StepKeepsInv == Inv /\ [Next]_vars => Inv'
<1> SUFFICES ASSUME Inv, [Next]_vars
             PROVE  Inv'
  OBVIOUS
<1>1. TypeInv'
  BY StepTypes DEF Inv
<1>2. CASE UNCHANGED vars
  BY <1>1, <1>2 DEF vars, chanVars, loopVars, Inv, FlagsTogether, CopiesAreCurrent, Bounded,
                    MaxFdCovers
<1>3. CASE Next
  BY <1>1, <1>3, OthersKeepInv, RebuildKeepsInv, LoopKeepsInv DEF Next, handleEvent, Inv
<1> QED
  BY <1>2, <1>3

\* All flags are up at the start.
LEMMA InitInv == Init => Inv
  BY InitTypes, KindsDistinct
  DEF Init, Inv, FlagsTogether, CopiesAreCurrent, Bounded, MaxFdCovers

\* The loop's copies are current or flagged (SelectManager.cpp:83-139).
THEOREM Copies == Spec => []CopiesAreCurrent
<1>1. Inv => CopiesAreCurrent
  BY DEF Inv
<1> QED
  BY <1>1, InitInv, StepKeepsInv, PTL DEF Spec

\* Together: what select() is handed.
THEOREM Arguments == Spec => []SelectArguments
<1>1. Inv => SelectArguments
  BY DEF Inv, SelectArguments
<1> QED
  BY <1>1, InitInv, StepKeepsInv, PTL DEF Spec

\* select() is never given a bound below a watched descriptor, although max_fd_
\* is zeroed before the mutex is taken (SelectManager.cpp:84-105, 146).
THEOREM MaxFd == Spec => []MaxFdCovers
<1>1. Inv => MaxFdCovers
  BY DEF Inv
<1> QED
  BY <1>1, InitInv, StepKeepsInv, PTL DEF Spec

-----------------------------------------------------------------------------
(* TcpClient and Connector *)

\* The loop thread runs retries and nothing else.
LoopPlaces == {"idle", "connect", "attempt", "callback", "settle", "load", "store"}

\* Past the attempt the socket was connected, past the callback there is a
\* connection.
Past == /\ \A t \in Threads : at[t] \in {"callback", "settle"} => sock # "fresh"
        /\ \A t \in Threads : at[t] = "settle" => conn_

\* What the retries still have to their credit, as long as none succeeded.
Credit == sock = "fresh" =>
            /\ at[Loop] \in {"idle", "connect"} => retried + retry_times_ <= 5
            /\ at[Loop] = "attempt" => retry_times_ > 0 /\ retried + retry_times_ <= 5
            /\ at[Loop] \in {"load", "store"} => retried + retry_times_ <= 6
            /\ at[Loop] = "store" => loaded = retry_times_

ClientInv == /\ ClientTypeOK /\ at[Loop] \in LoopPlaces
             /\ ConnectedHasConnection /\ Past /\ Credit /\ RetriesBounded

LEMMA ClientInitInv == ClientInit => ClientInv
<1> SUFFICES ASSUME ClientInit PROVE ClientInv
  OBVIOUS
<1>1. at = [t \in Threads |-> "idle"] /\ Loop \in Threads
  BY DEF ClientInit, Threads
<1>2. at \in [Threads -> Places] /\ at[Loop] = "idle"
  BY <1>1 DEF Places
<1>3. ClientTypeOK
  <2>1. {client_running_, conn_, crashed, connecting_} \subseteq BOOLEAN
    BY Zenon DEF ClientInit
  <2>2. /\ retry_times_ \in Int /\ retry_times_ <= 5 /\ loaded \in Int /\ loaded <= 5
        /\ retries \in Nat /\ retried \in 0 .. 6 /\ calls \in 0 .. MaxCalls
    BY ClientAssumption DEF ClientInit
  <2>3. /\ next_retry_interval_ \in {500, 1000, 2000, 4000, 8000, 16000, 30000}
        /\ sock \in {"fresh", "connected", "closed"}
    BY DEF ClientInit
  <2> QED
    BY <1>2, <2>1, <2>2, <2>3 DEF ClientTypeOK
<1>4. ConnectedHasConnection /\ Past /\ Credit /\ RetriesBounded
  BY <1>1, <1>2 DEF ClientInit, ConnectedHasConnection, Past, Credit, RetriesBounded
<1> QED
  BY <1>2, <1>3, <1>4 DEF ClientInv, LoopPlaces

-----------------------------------------------------------------------------
\* A thread in connect().
LEMMA ConnectStep ==
  ASSUME ClientInv, NEW t \in Threads, Connect(t)
  PROVE  ClientInv'
<1> USE DEF ClientInv
<1>0. at \in [Threads -> Places] /\ Loop \in Threads
  BY DEF ClientTypeOK, Threads
<1>1. CASE Enter(t)
  <2>1. /\ UNCHANGED <<tcpClientVars, connectorVars, loaded, calls, retried>>
        /\ at[t] = "connect"
        /\ at' = [at EXCEPT ![t] = IF mayTry THEN "attempt"
                                   ELSE IF t # Loop THEN "started" ELSE "load"]
    BY <1>1 DEF Enter, Return, Go
  <2>2. ClientTypeOK' /\ at'[Loop] \in LoopPlaces
    BY <1>0, <2>1 DEF ClientTypeOK, Places, LoopPlaces, tcpClientVars, connectorVars
  <2>3. ConnectedHasConnection' /\ Past' /\ RetriesBounded'
    BY <1>0, <2>1 DEF ConnectedHasConnection, Past, RetriesBounded, tcpClientVars, connectorVars
  <2>4. Credit'
    BY <1>0, <2>1 DEF Credit, mayTry, ClientTypeOK, tcpClientVars, connectorVars
  <2> QED
    BY <2>2, <2>3, <2>4
<1>2. CASE Attempt(t)
  <2>1. /\ UNCHANGED <<tcpClientVars, connecting_, retry_times_, next_retry_interval_, loaded, calls>>
        /\ at[t] = "attempt"
        /\ retried' = IF t = Loop /\ retried < 6 THEN retried + 1 ELSE retried
    BY <1>2 DEF Attempt
  <2>2. CASE retries' = retries + 1 /\ Return(t, FALSE) /\ UNCHANGED sock
    <3>1. at' = [at EXCEPT ![t] = IF t # Loop THEN "started" ELSE "load"]
      BY <2>2 DEF Return, Go
    <3>2. ClientTypeOK' /\ at'[Loop] \in LoopPlaces
      BY <1>0, <2>1, <2>2, <3>1 DEF ClientTypeOK, Places, LoopPlaces, tcpClientVars
    <3>3. ConnectedHasConnection' /\ Past'
      BY <1>0, <2>1, <2>2, <3>1 DEF ConnectedHasConnection, Past, tcpClientVars
    <3>4. Credit' /\ RetriesBounded'
      BY <1>0, <2>1, <2>2, <3>1 DEF Credit, RetriesBounded, ClientTypeOK
    <3> QED
      BY <3>2, <3>3, <3>4
  <2>3. CASE sock = "fresh" /\ sock' = "connected" /\ Go(t, "callback") /\ UNCHANGED retries
    <3>1. at' = [at EXCEPT ![t] = "callback"]
      BY <2>3 DEF Go
    <3>2. ClientTypeOK' /\ at'[Loop] \in LoopPlaces
      BY <1>0, <2>1, <2>3, <3>1 DEF ClientTypeOK, Places, LoopPlaces, tcpClientVars
    <3>3. ConnectedHasConnection' /\ Past' /\ Credit' /\ RetriesBounded'
      BY <1>0, <2>1, <2>3, <3>1
         DEF ConnectedHasConnection, Past, Credit, RetriesBounded, tcpClientVars
    <3> QED
      BY <3>2, <3>3
  <2> QED
    BY <1>2, <2>2, <2>3 DEF Attempt
<1>3. CASE Callback(t)
  <2>1. /\ UNCHANGED <<client_running_, crashed, connectorVars, loaded, calls, retried>>
        /\ at[t] = "callback" /\ conn_' = TRUE /\ at' = [at EXCEPT ![t] = "settle"]
    BY <1>3 DEF Callback, Go
  <2>2. ClientTypeOK' /\ at'[Loop] \in LoopPlaces
    BY <1>0, <2>1 DEF ClientTypeOK, Places, LoopPlaces, connectorVars
  <2>3. ConnectedHasConnection' /\ Past' /\ Credit' /\ RetriesBounded'
    BY <1>0, <2>1 DEF ConnectedHasConnection, Past, Credit, RetriesBounded, connectorVars
  <2> QED
    BY <2>2, <2>3
<1>4. CASE Settle(t)
  <2>1. /\ UNCHANGED <<tcpClientVars, sock, retries, loaded, calls, retried>>
        /\ at[t] = "settle" /\ next_retry_interval_' = 500 /\ retry_times_' = 5 /\ connecting_' = TRUE
        /\ at' = [at EXCEPT ![t] = IF t # Loop THEN "started" ELSE "idle"]
    BY <1>4 DEF Settle, Return, Go
  <2>2. sock # "fresh" /\ conn_
    BY <2>1 DEF Past
  <2>3. ClientTypeOK' /\ at'[Loop] \in LoopPlaces
    BY <1>0, <2>1 DEF ClientTypeOK, Places, LoopPlaces, tcpClientVars
  <2>4. ConnectedHasConnection' /\ Past' /\ Credit' /\ RetriesBounded'
    BY <1>0, <2>1, <2>2 DEF ConnectedHasConnection, Past, Credit, RetriesBounded, tcpClientVars
  <2> QED
    BY <2>3, <2>4
<1> QED
  BY <1>1, <1>2, <1>3, <1>4 DEF Connect

\* The loop thread before and after it is in connect().
LEMMA RetryStep ==
  ASSUME ClientInv, Double \/ Load \/ Store
  PROVE  ClientInv'
<1> USE DEF ClientInv
<1>0. at \in [Threads -> Places] /\ Loop \in Threads
  BY DEF ClientTypeOK, Threads
<1>1. CASE Double
  <2>1. /\ UNCHANGED <<tcpClientVars, connecting_, retry_times_, sock, loaded, calls, retried>>
        /\ at[Loop] = "idle" /\ retries > 0 /\ retries' = retries - 1
        /\ next_retry_interval_' = IF 2 * next_retry_interval_ > 30000
                                     THEN 30000 ELSE 2 * next_retry_interval_
        /\ at' = [at EXCEPT ![Loop] = "connect"]
    BY <1>1 DEF Double, Go
  <2>2. next_retry_interval_' \in {500, 1000, 2000, 4000, 8000, 16000, 30000}
    <3>1. next_retry_interval_ \in {500, 1000, 2000, 4000, 8000, 16000, 30000}
      BY DEF ClientTypeOK
    <3>2. CASE next_retry_interval_ \in {500, 1000, 2000, 4000, 8000}
      <4>1. next_retry_interval_' = 2 * next_retry_interval_
        BY <2>1, <3>2
      <4> QED
        BY <3>2, <4>1
    <3>3. CASE next_retry_interval_ \in {16000, 30000}
      <4>1. next_retry_interval_' = 30000
        BY <2>1, <3>3
      <4> QED
        BY <4>1
    <3> QED
      BY <3>1, <3>2, <3>3
  <2>3. ClientTypeOK' /\ at'[Loop] \in LoopPlaces
    BY <1>0, <2>1, <2>2 DEF ClientTypeOK, Places, LoopPlaces, tcpClientVars
  <2>4. ConnectedHasConnection' /\ Past' /\ Credit' /\ RetriesBounded'
    BY <1>0, <2>1 DEF ConnectedHasConnection, Past, Credit, RetriesBounded, tcpClientVars
  <2> QED
    BY <2>3, <2>4
<1>2. CASE Load
  <2>1. /\ UNCHANGED <<tcpClientVars, connectorVars, calls, retried>>
        /\ at[Loop] = "load" /\ loaded' = retry_times_ /\ at' = [at EXCEPT ![Loop] = "store"]
    BY <1>2 DEF Load, Go
  <2>2. ClientTypeOK' /\ at'[Loop] \in LoopPlaces
    BY <1>0, <2>1 DEF ClientTypeOK, Places, LoopPlaces, tcpClientVars, connectorVars
  <2>3. ConnectedHasConnection' /\ Past' /\ Credit' /\ RetriesBounded'
    BY <1>0, <2>1 DEF ConnectedHasConnection, Past, Credit, RetriesBounded, tcpClientVars,
                      connectorVars
  <2> QED
    BY <2>2, <2>3
<1>3. CASE Store
  <2>1. /\ UNCHANGED <<tcpClientVars, connecting_, next_retry_interval_, sock, retries, loaded,
                       calls, retried>>
        /\ at[Loop] = "store" /\ retry_times_' = loaded - 1 /\ at' = [at EXCEPT ![Loop] = "idle"]
    BY <1>3 DEF Store, Go
  <2>2. ClientTypeOK' /\ at'[Loop] \in LoopPlaces
    BY <1>0, <2>1 DEF ClientTypeOK, Places, LoopPlaces, tcpClientVars
  <2>3. ConnectedHasConnection' /\ Past' /\ RetriesBounded'
    BY <1>0, <2>1 DEF ConnectedHasConnection, Past, RetriesBounded, tcpClientVars
  <2>4. Credit'
    BY <1>0, <2>1 DEF Credit, ClientTypeOK
  <2> QED
    BY <2>2, <2>3, <2>4
<1> QED
  BY <1>1, <1>2, <1>3

\* A user thread in start() and stop(), outside connect().
LEMMA UserStep ==
  ASSUME ClientInv, NEW u \in Users,
         Call(u) \/ Started(u) \/ Stop(u) \/ Close(u) \/ Closing(u) \/ Stopped(u)
  PROVE  ClientInv'
<1> USE DEF ClientInv
<1>0. /\ at \in [Threads -> Places] /\ Loop \in Threads /\ u \in Threads /\ u # Loop
      /\ UNCHANGED <<retry_times_, next_retry_interval_, retries, loaded, retried, conn_>>
  BY ClientAssumption DEF ClientTypeOK, Threads, Call, Started, Stop, Close, Closing, Stopped,
                          tcpClientVars, connectorVars
<1>1. PICK p \in Places \ {"callback", "settle", "load", "store", "attempt"} :
        at' = [at EXCEPT ![u] = p]
  BY DEF Call, Started, Stop, Close, Closing, Stopped, Go, Places
<1>2. sock' # "fresh" <=> sock # "fresh"
  BY DEF Call, Started, Stop, Close, Closing, Stopped, tcpClientVars, connectorVars,
         ConnectedHasConnection
<1>3. connecting_' => connecting_
  BY DEF Call, Started, Stop, Close, Closing, Stopped, tcpClientVars, connectorVars
<1>4. /\ {client_running_', crashed', connecting_'} \subseteq BOOLEAN
      /\ sock' \in {"fresh", "connected", "closed"} /\ calls' \in 0 .. MaxCalls
  <2>1. /\ {client_running_, crashed, connecting_, conn_} \subseteq BOOLEAN
        /\ sock \in {"fresh", "connected", "closed"} /\ calls \in 0 .. MaxCalls
    BY DEF ClientTypeOK
  <2>2. CASE Call(u)
    <3>1. /\ UNCHANGED <<client_running_, crashed, connecting_, sock>>
          /\ calls < MaxCalls /\ calls' = calls + 1
      BY <2>2 DEF Call, tcpClientVars, connectorVars
    <3> QED
      BY <2>1, <3>1, ClientAssumption
  <2>3. CASE Started(u) \/ Stopped(u)
    <3>1. UNCHANGED <<crashed, connecting_, sock, calls>> /\ client_running_' \in BOOLEAN
      BY <2>3 DEF Started, Stopped, connectorVars
    <3> QED
      BY <2>1, <3>1
  <2>4. CASE Stop(u)
    <3>1. UNCHANGED <<client_running_, connecting_, sock, calls>> /\ crashed' = ~ conn_
      BY <2>4 DEF Stop, connectorVars
    <3> QED
      BY <2>1, <3>1
  <2>5. CASE Close(u) \/ Closing(u)
    <3>1. /\ UNCHANGED <<client_running_, crashed, calls>> /\ sock' \in {sock, "closed"}
          /\ connecting_' \in {connecting_, FALSE}
      BY <2>5 DEF Close, Closing, tcpClientVars
    <3> QED
      BY <2>1, <3>1
  <2> QED
    BY <2>2, <2>3, <2>4, <2>5
<1>5. at' \in [Threads -> Places] /\ at'[Loop] = at[Loop]
  BY <1>0, <1>1
<1>6. ClientTypeOK'
  BY <1>0, <1>4, <1>5 DEF ClientTypeOK
<1>7. ConnectedHasConnection' /\ Past' /\ Credit' /\ RetriesBounded'
  BY <1>0, <1>1, <1>2, <1>3, <1>5 DEF ConnectedHasConnection, Past, Credit, RetriesBounded
<1> QED
  BY <1>5, <1>6, <1>7

LEMMA ClientStep == ClientInv /\ [ClientNext]_clientVars => ClientInv'
<1> SUFFICES ASSUME ClientInv, [ClientNext]_clientVars
             PROVE  ClientInv'
  OBVIOUS
<1>1. CASE Retry
  BY <1>1, ConnectStep, RetryStep DEF Retry, Threads
<1>2. ASSUME NEW u \in Users, Call(u) \/ User(u)
      PROVE  ClientInv'
  BY <1>2, ConnectStep, UserStep DEF User, Threads
<1>3. CASE UNCHANGED clientVars
  BY <1>3 DEF clientVars, tcpClientVars, connectorVars, ClientInv, ClientTypeOK,
              ConnectedHasConnection, Past, Credit, RetriesBounded
<1> QED
  BY <1>1, <1>2, <1>3 DEF ClientNext

-----------------------------------------------------------------------------
\* The types, for every number of users and calls; the interval stays one of
\* seven values (Connector.cpp:29-32).
THEOREM ClientTypes == ClientSpec => []ClientTypeOK
<1>1. ClientInv => ClientTypeOK
  BY DEF ClientInv
<1> QED
  BY <1>1, ClientInitInv, ClientStep, PTL DEF ClientSpec

\* However many users call start, the retries make five attempts until one of
\* them, or a user, is through (Connector.cpp:28-36).
THEOREM FiveRetries == ClientSpec => []RetriesBounded
<1>1. ClientInv => RetriesBounded
  BY DEF ClientInv
<1> QED
  BY <1>1, ClientInitInv, ClientStep, PTL DEF ClientSpec

\* Whoever reads that the client is connecting finds its connection and a socket
\* that was connected (Connector.cpp:39-42, TcpClient.cpp:31-34).
THEOREM ConnectionFirst == ClientSpec => []ConnectedHasConnection
<1>1. ClientInv => ConnectedHasConnection
  BY DEF ClientInv
<1> QED
  BY <1>1, ClientInitInv, ClientStep, PTL DEF ClientSpec

-----------------------------------------------------------------------------
(* TimerTaskMap *)

InOrder(s) == \A i, j \in DOMAIN s : i < j => s[i].expired_time <= s[j].expired_time
OnceIn(s) == \A i, j \in DOMAIN s : s[i].id = s[j].id => i = j
Members(s) == {s[i] : i \in DOMAIN s}

MapInv == MapTypeOK /\ Ordered /\ Once

-----------------------------------------------------------------------------
(* TimerTaskMap: sequences *)

\* A non-empty set of places has a first one.
LEMMA First ==
  ASSUME NEW T \in SUBSET Nat, T # {}
  PROVE  \E k \in T : \A i \in T : k <= i
<1> DEFINE R == OpToRel(<, Nat)
<1>1. IsWellFoundedOn(R, Nat)
  BY NatLessThanWellFounded
<1>2. \A x, y \in Nat : y < x => <<y, x>> \in R
  BY DEF OpToRel
<1> HIDE DEF R
<1>3. PICK k \in T : \A i \in T : ~ (<<i, k>> \in R)
  BY <1>1, WFMin
<1>4. \A i \in T : k <= i
  <2> TAKE i \in T
  <2>1. i \in Nat /\ k \in Nat /\ ~ (i < k)
    BY <1>2, <1>3
  <2> QED
    BY <2>1
<1> QED
  BY <1>3, <1>4

\* Inserting adds its element.
LEMMA InsertedFacts ==
  ASSUME NEW s \in Seq(Task), NEW e \in Task, NEW k \in 1 .. Len(s) + 1
  PROVE  /\ Inserted(s, k, e) \in Seq(Task)
         /\ DOMAIN Inserted(s, k, e) = 1 .. Len(s) + 1
         /\ Members(Inserted(s, k, e)) = Members(s) \cup {e}
<1> DEFINE r == Inserted(s, k, e)
<1>1. /\ DOMAIN r = 1 .. Len(s) + 1
      /\ \A i \in 1 .. Len(s) + 1 :
           r[i] = IF i < k THEN s[i] ELSE IF i = k THEN e ELSE s[i - 1]
  BY DEF Inserted
<1>2. \A i \in 1 .. Len(s) + 1 : r[i] \in Members(s) \cup {e}
  BY <1>1 DEF Members
<1>3. \A i \in DOMAIN s : \E j \in DOMAIN r : r[j] = s[i]
  <2> TAKE i \in DOMAIN s
  <2>1. CASE i < k
    <3>1. i \in 1 .. Len(s) + 1
      OBVIOUS
    <3>2. r[i] = s[i] /\ i \in DOMAIN r
      BY <1>1, <2>1, <3>1
    <3> HIDE DEF r
    <3> QED
      BY <3>2
  <2>2. CASE ~ (i < k)
    <3>1. i + 1 \in 1 .. Len(s) + 1 /\ ~ (i + 1 < k) /\ i + 1 # k /\ (i + 1) - 1 = i
      BY <2>2
    <3> QED
      BY <1>1, <3>1
  <2> QED
    BY <2>1, <2>2
<1>4. k \in DOMAIN r /\ r[k] = e
  BY <1>1
<1>5. Members(r) = Members(s) \cup {e}
  BY <1>1, <1>2, <1>3, <1>4 DEF Members
<1>6. r \in Seq(Task)
  <2>1. \A i \in 1 .. Len(s) + 1 : r[i] \in Task
    BY <1>1
  <2>2. Len(s) + 1 \in Nat /\ r = [i \in 1 .. Len(s) + 1 |-> r[i]]
    BY DEF Inserted
  <2> HIDE DEF r
  <2> QED
    BY <2>1, <2>2
<1> QED
  BY <1>1, <1>5, <1>6

\* Inserting where the earlier are due no later and the later no earlier keeps
\* the order.
LEMMA InsertedInOrder ==
  ASSUME NEW s \in Seq(Task), NEW e \in Task, NEW k \in 1 .. Len(s) + 1, InOrder(s),
         \A i \in 1 .. k - 1 : s[i].expired_time <= e.expired_time,
         k <= Len(s) => e.expired_time <= s[k].expired_time
  PROVE  InOrder(Inserted(s, k, e))
<1> DEFINE r == Inserted(s, k, e)
<1>1. DOMAIN r = 1 .. Len(s) + 1 /\ DOMAIN s = 1 .. Len(s) /\ Len(s) \in Nat
  BY DEF Inserted
<1>2. \A i \in 1 .. Len(s) + 1 :
         r[i] = IF i < k THEN s[i] ELSE IF i = k THEN e ELSE s[i - 1]
  BY DEF Inserted
<1>3. \A i \in DOMAIN s : s[i].expired_time \in Nat
  <2>1. \A i \in DOMAIN s : s[i] \in Task
    OBVIOUS
  <2>2. \A t \in Task : t.expired_time \in Nat
    BY DEF Task
  <2> QED
    BY <2>1, <2>2
<1>4. e.expired_time \in Nat
  BY DEF Task
<1>5. \A i \in 1 .. Len(s) : k <= i => e.expired_time <= s[i].expired_time
  BY <1>1, <1>3, <1>4 DEF InOrder
<1> HIDE DEF r
<1>6. ASSUME NEW i \in DOMAIN r, NEW j \in DOMAIN r, i < j
      PROVE  r[i].expired_time <= r[j].expired_time
  <2>1. CASE j < k
    <3>1. r[i] = s[i] /\ r[j] = s[j] /\ i \in DOMAIN s /\ j \in DOMAIN s
      BY <1>1, <1>2, <1>6, <2>1
    <3> QED
      BY <1>6, <3>1 DEF InOrder
  <2>2. CASE j = k
    <3>1. r[i] = s[i] /\ r[j] = e /\ i \in 1 .. k - 1
      BY <1>1, <1>2, <1>6, <2>2
    <3> QED
      BY <3>1
  <2>3. CASE j > k /\ i < k
    <3>1. r[i] = s[i] /\ r[j] = s[j - 1] /\ i \in DOMAIN s /\ j - 1 \in DOMAIN s
      BY <1>1, <1>2, <1>6, <2>3
    <3>2. i < j - 1
      BY <1>1, <1>6, <2>3
    <3> QED
      BY <3>1, <3>2 DEF InOrder
  <2>4. CASE i = k
    <3>1. r[i] = e /\ r[j] = s[j - 1] /\ j - 1 \in 1 .. Len(s) /\ k <= j - 1
      BY <1>1, <1>2, <1>6, <2>4
    <3> QED
      BY <1>5, <3>1
  <2>5. CASE i > k
    <3>1. r[i] = s[i - 1] /\ r[j] = s[j - 1] /\ i - 1 \in DOMAIN s /\ j - 1 \in DOMAIN s
      BY <1>1, <1>2, <1>6, <2>5
    <3>2. i - 1 < j - 1
      BY <1>1, <1>6
    <3> QED
      BY <3>1, <3>2 DEF InOrder
  <2> QED
    BY <1>1, <1>6, <2>1, <2>2, <2>3, <2>4, <2>5
<1> QED
  BY <1>6 DEF InOrder, r

\* Inserting an id that is not there keeps every id once.
LEMMA InsertedOnce ==
  ASSUME NEW s \in Seq(Task), NEW e \in Task, NEW k \in 1 .. Len(s) + 1, OnceIn(s),
         \A i \in DOMAIN s : s[i].id # e.id
  PROVE  OnceIn(Inserted(s, k, e))
<1> DEFINE r == Inserted(s, k, e)
<1>1. DOMAIN r = 1 .. Len(s) + 1 /\ DOMAIN s = 1 .. Len(s) /\ Len(s) \in Nat
  BY DEF Inserted
<1>2. \A i \in 1 .. Len(s) + 1 :
         r[i] = IF i < k THEN s[i] ELSE IF i = k THEN e ELSE s[i - 1]
  BY DEF Inserted
<1> DEFINE old(i) == IF i < k THEN i ELSE i - 1
<1> HIDE DEF r
<1>3. \A i \in DOMAIN r : i # k => old(i) \in DOMAIN s /\ r[i] = s[old(i)]
  BY <1>1, <1>2
<1>4. r[k] = e
  BY <1>2
<1>5. \A i, j \in DOMAIN r : i # k /\ j # k /\ old(i) = old(j) => i = j
  BY <1>1
<1> HIDE DEF old
<1>6. \A i, j \in DOMAIN r : r[i].id = r[j].id => i = j
  BY <1>3, <1>4, <1>5 DEF OnceIn
<1> QED
  BY <1>6 DEF OnceIn, r

\* Erasing an entry keeps the order and the ids, and takes that entry only.
LEMMA ErasedFacts ==
  ASSUME NEW s \in Seq(Task), NEW k \in DOMAIN s, InOrder(s), OnceIn(s)
  PROVE  /\ Erased(s, k) \in Seq(Task)
         /\ InOrder(Erased(s, k))
         /\ OnceIn(Erased(s, k))
         /\ Members(Erased(s, k)) = Members(s) \ {s[k]}
         /\ \A i \in DOMAIN Erased(s, k) : Erased(s, k)[i].id # s[k].id
<1> DEFINE r == Erased(s, k)
           old(i) == IF i < k THEN i ELSE i + 1
<1>1. DOMAIN s = 1 .. Len(s) /\ Len(s) \in Nat /\ Len(s) - 1 \in Nat
  OBVIOUS
<1>2. DOMAIN r = 1 .. Len(s) - 1 /\ \A i \in 1 .. Len(s) - 1 : r[i] = s[old(i)]
  BY DEF Erased
<1>3. /\ \A i \in 1 .. Len(s) - 1 : old(i) \in DOMAIN s /\ old(i) # k
      /\ \A i, j \in 1 .. Len(s) - 1 : /\ i < j => old(i) < old(j)
                                       /\ old(i) = old(j) => i = j
      /\ \A j \in DOMAIN s : j # k => \E i \in 1 .. Len(s) - 1 : old(i) = j
  <2>1. \A j \in DOMAIN s : j # k => \E i \in 1 .. Len(s) - 1 : old(i) = j
    <3> TAKE j \in DOMAIN s
    <3>1. CASE j < k
      BY <1>1, <3>1
    <3>2. CASE j > k
      <4>1. j - 1 \in 1 .. Len(s) - 1 /\ old(j - 1) = j
        BY <1>1, <3>2
      <4> QED
        BY <4>1
    <3> QED
      BY <1>1, <3>1, <3>2
  <2> QED
    BY <1>1, <2>1
<1> HIDE DEF old
<1>4. r \in Seq(Task)
  <2>1. \A i \in 1 .. Len(s) - 1 : r[i] \in Task
    BY <1>2, <1>3
  <2>2. r = [i \in 1 .. Len(s) - 1 |-> r[i]]
    BY DEF Erased
  <2> HIDE DEF r
  <2> QED
    BY <1>1, <2>1, <2>2
<1> HIDE DEF r
<1>5. InOrder(r) /\ OnceIn(r)
  <2>1. ASSUME NEW i \in DOMAIN r, NEW j \in DOMAIN r
        PROVE  /\ i < j => r[i].expired_time <= r[j].expired_time
               /\ r[i].id = r[j].id => i = j
    <3>1. old(i) \in DOMAIN s /\ old(j) \in DOMAIN s /\ r[i] = s[old(i)] /\ r[j] = s[old(j)]
      BY <1>2, <1>3
    <3>2. /\ i < j => old(i) < old(j)
          /\ old(i) = old(j) => i = j
      BY <1>2, <1>3
    <3> QED
      BY <3>1, <3>2 DEF InOrder, OnceIn
  <2> QED
    BY <2>1 DEF InOrder, OnceIn
<1>6. \A i \in DOMAIN r : r[i].id # s[k].id
  BY <1>2, <1>3 DEF OnceIn
<1>7. Members(r) = Members(s) \ {s[k]}
  <2>1. \A i \in DOMAIN r : r[i] \in Members(s) \ {s[k]}
    BY <1>2, <1>3, <1>6 DEF Members
  <2>2. \A j \in DOMAIN s : j # k => \E i \in DOMAIN r : r[i] = s[j]
    BY <1>2, <1>3
  <2> QED
    BY <2>1, <2>2 DEF Members
<1> QED
  BY <1>4, <1>5, <1>6, <1>7 DEF r

\* What an insertion into the map may do with it.
Joins(r, s, e) == r \in Seq(Task) /\ InOrder(r) /\ OnceIn(r) /\ Members(r) = Members(s) \cup {e}

\* operator[] finds a place, and inserts there.
LEMMA IndexFacts ==
  ASSUME NEW s \in Seq(Task), NEW e \in Task, InOrder(s), OnceIn(s),
         \A i \in DOMAIN s : s[i].id # e.id
  PROVE  Joins(Index(s, e), s, e)
<1> DEFINE Place(k) == /\ \A i \in 1 .. k - 1 : s[i].expired_time <= e.expired_time
                       /\ k <= Len(s) => e.expired_time < s[k].expired_time
           T == {k \in 1 .. Len(s) + 1 : k <= Len(s) => e.expired_time < s[k].expired_time}
<1>1. Len(s) \in Nat /\ \A i \in 1 .. Len(s) : s[i] \in Task
  OBVIOUS
<1>2. \A t \in Task : t.expired_time \in Nat
  BY DEF Task
<1>3. T \in SUBSET Nat /\ Len(s) + 1 \in T
  BY <1>1
<1>4. PICK k \in T : \A i \in T : k <= i
  BY <1>3, First
<1>5. k \in 1 .. Len(s) + 1 /\ Place(k)
  <2>1. \A i \in 1 .. k - 1 : i \in 1 .. Len(s) /\ i \notin T
    BY <1>1, <1>4
  <2>2. \A i \in 1 .. k - 1 : s[i].expired_time <= e.expired_time
    BY <1>1, <1>2, <2>1
  <2> QED
    BY <1>4, <2>2
<1> DEFINE c == CHOOSE j \in 1 .. Len(s) + 1 : Place(j)
<1>6. c \in 1 .. Len(s) + 1 /\ Place(c)
  BY <1>5
<1>7. Index(s, e) = Inserted(s, c, e)
  BY DEF Index
<1> HIDE DEF c
<1>8. c <= Len(s) => e.expired_time <= s[c].expired_time
  BY <1>1, <1>2, <1>6
<1> QED
  BY <1>6, <1>7, <1>8, InsertedFacts, InsertedInOrder, InsertedOnce DEF Joins

\* So does emplace, at another place.
LEMMA EmplaceFacts ==
  ASSUME NEW s \in Seq(Task), NEW e \in Task, InOrder(s), OnceIn(s),
         \A i \in DOMAIN s : s[i].id # e.id
  PROVE  Joins(Emplace(s, e), s, e)
<1> DEFINE Place(k) == /\ \A i \in 1 .. k - 1 : s[i].expired_time < e.expired_time
                       /\ k <= Len(s) => e.expired_time <= s[k].expired_time
           T == {k \in 1 .. Len(s) + 1 : k <= Len(s) => e.expired_time <= s[k].expired_time}
<1>1. Len(s) \in Nat /\ \A i \in 1 .. Len(s) : s[i] \in Task
  OBVIOUS
<1>2. \A t \in Task : t.expired_time \in Nat
  BY DEF Task
<1>3. T \in SUBSET Nat /\ Len(s) + 1 \in T
  BY <1>1
<1>4. PICK k \in T : \A i \in T : k <= i
  BY <1>3, First
<1>5. k \in 1 .. Len(s) + 1 /\ Place(k)
  <2>1. \A i \in 1 .. k - 1 : i \in 1 .. Len(s) /\ i \notin T
    BY <1>1, <1>4
  <2>2. \A i \in 1 .. k - 1 : s[i].expired_time < e.expired_time
    BY <1>1, <1>2, <2>1
  <2> QED
    BY <1>4, <2>2
<1> DEFINE c == CHOOSE j \in 1 .. Len(s) + 1 : Place(j)
<1>6. c \in 1 .. Len(s) + 1 /\ Place(c)
  BY <1>5
<1>7. Emplace(s, e) = Inserted(s, c, e)
  BY DEF Emplace
<1> HIDE DEF c
<1>8. \A i \in 1 .. c - 1 : s[i].expired_time <= e.expired_time
  <2>1. \A i \in 1 .. c - 1 : i \in 1 .. Len(s)
    BY <1>1, <1>6
  <2> QED
    BY <1>1, <1>2, <1>6, <2>1
<1> QED
  BY <1>6, <1>7, <1>8, InsertedFacts, InsertedInOrder, InsertedOnce DEF Joins

-----------------------------------------------------------------------------
(* TimerTaskMap: steps *)

\* A new expiry leaves a timer a timer, with its id.
LEMMA Restarted ==
  ASSUME NEW t \in Task, NEW d \in Durations, NEW cyc \in BOOLEAN, MapTypeOK
  PROVE  LET r == MapQueue!setExpiredTime(t, d)
         IN  /\ r \in Task /\ r.id = t.id
             /\ [r EXCEPT !.cycled = cyc] \in Task
             /\ [r EXCEPT !.cycled = cyc].id = t.id
<1> DEFINE r == MapQueue!setExpiredTime(t, d)
<1>1. clock + d \in Nat
  BY TimerAssumption DEF MapTypeOK
<1>2. r = [t EXCEPT !.duration = d, !.expired_time = clock + d]
  BY DEF MapQueue!setExpiredTime
<1>3. /\ t = [id |-> t.id, duration |-> t.duration, expired_time |-> t.expired_time,
             cycled |-> t.cycled]
      /\ t.id \in Ids /\ t.cycled \in BOOLEAN
  BY DEF Task
<1>4. r = [id |-> t.id, duration |-> d, expired_time |-> clock + d, cycled |-> t.cycled]
  BY <1>2, <1>3
<1> HIDE DEF r
<1>5. [r EXCEPT !.cycled = cyc] =
        [id |-> t.id, duration |-> d, expired_time |-> clock + d, cycled |-> cyc]
  BY <1>4
<1> QED
  BY <1>1, <1>3, <1>4, <1>5 DEF Task, r

\* The invariant is about the map's entries and the types of the rest.
LEMMA InvIs == MapInv <=> MapTypeOK /\ InOrder(mapped) /\ OnceIn(mapped)
BY DEF MapInv, Ordered, Once, InOrder, OnceIn

LEMMA EntriesIs == MapTimers = Members(mapped)
BY DEF MapTimers, Members

\* add keeps the invariant, and is the queue's.
LEMMA MapAddStep ==
  ASSUME MapInv, NEW t \in Task, MapAdd(t)
  PROVE  MapInv' /\ MapQueue!QAdd(t)
<1>1. Joins(mapped', mapped, t)
  BY InvIs, IndexFacts DEF MapAdd, MapTypeOK
<1>2. MapTypeOK' /\ InOrder(mapped') /\ OnceIn(mapped') /\ MapTimers' = MapTimers \cup {t}
  BY <1>1 DEF Joins, MapInv, MapTypeOK, MapAdd, MapTimers, Members
<1>3. \A u \in MapTimers : u.id # t.id
  BY DEF MapAdd, MapTimers
<1> QED
  BY <1>2, <1>3 DEF MapInv, Ordered, Once, InOrder, OnceIn, MapQueue!QAdd, MapAdd

\* So does remove.
LEMMA MapRemoveStep ==
  ASSUME MapInv, NEW id \in Ids, MapRemove(id)
  PROVE  MapInv' /\ MapQueue!QRemove(id)
<1>1. PICK i \in DOMAIN mapped : mapped[i].id = id /\ mapped' = Erased(mapped, i)
  BY DEF MapRemove
<1>2. /\ mapped' \in Seq(Task) /\ InOrder(mapped') /\ OnceIn(mapped')
      /\ Members(mapped') = Members(mapped) \ {mapped[i]}
  BY <1>1, InvIs, ErasedFacts DEF MapTypeOK
<1>3. \A t \in Members(mapped) : t = mapped[i] <=> t.id = id
  BY <1>1, InvIs DEF Members, OnceIn
<1>4. MapTimers' = {t \in MapTimers : t.id # id}
  BY <1>2, <1>3 DEF MapTimers, Members
<1> QED
  BY <1>2, <1>4 DEF MapInv, MapTypeOK, Ordered, Once, InOrder, OnceIn, MapQueue!QRemove, MapRemove

\* Taking an entry out and putting it back changed, by either way of inserting.
LEMMA Replaced ==
  ASSUME MapInv, NEW i \in DOMAIN mapped, NEW e \in Task, e.id = mapped[i].id, NEW r,
         r = Index(Erased(mapped, i), e) \/ r = Emplace(Erased(mapped, i), e)
  PROVE  /\ r \in Seq(Task) /\ InOrder(r) /\ OnceIn(r)
         /\ Members(r) = (Members(mapped) \ {mapped[i]}) \cup {e}
<1> DEFINE s == Erased(mapped, i)
<1>1. /\ s \in Seq(Task) /\ InOrder(s) /\ OnceIn(s)
      /\ Members(s) = Members(mapped) \ {mapped[i]}
      /\ \A j \in DOMAIN s : s[j].id # e.id
  BY InvIs, ErasedFacts DEF MapTypeOK
<1> HIDE DEF s
<1>2. Joins(Index(s, e), s, e) /\ Joins(Emplace(s, e), s, e)
  BY <1>1, IndexFacts, EmplaceFacts
<1> QED
  BY <1>1, <1>2 DEF Joins, s

\* So does modify.
LEMMA MapModifyStep ==
  ASSUME MapInv, NEW id \in Ids, NEW d \in Durations, NEW cyc \in BOOLEAN,
         MapModify(id, d, cyc)
  PROVE  MapInv' /\ MapQueue!QModify(id, d, cyc)
<1>1. PICK i \in DOMAIN mapped :
         /\ mapped[i].id = id
         /\ mapped' = Emplace(Erased(mapped, i),
                             [MapQueue!setExpiredTime(mapped[i], d) EXCEPT !.cycled = cyc])
  BY DEF MapModify
<1> DEFINE e == [MapQueue!setExpiredTime(mapped[i], d) EXCEPT !.cycled = cyc]
<1>2. e \in Task /\ e.id = mapped[i].id
  <2>1. mapped[i] \in Task
    BY InvIs DEF MapTypeOK
  <2> QED
    BY <2>1, InvIs, Restarted
<1> HIDE DEF e
<1>3. /\ mapped' \in Seq(Task) /\ InOrder(mapped') /\ OnceIn(mapped')
      /\ Members(mapped') = (Members(mapped) \ {mapped[i]}) \cup {e}
  BY <1>1, <1>2, Replaced DEF e
<1>4. \A t \in Members(mapped) : t = mapped[i] <=> t.id = id
  BY <1>1, InvIs DEF Members, OnceIn
<1>5. MapTimers' = {IF t.id = id THEN [MapQueue!setExpiredTime(t, d) EXCEPT !.cycled = cyc] ELSE t :
                    t \in MapTimers}
  <2>1. mapped[i] \in Members(mapped)
    BY DEF Members
  <2>2. Members(mapped') = {IF t.id = id THEN [MapQueue!setExpiredTime(t, d) EXCEPT !.cycled = cyc]
                                        ELSE t : t \in Members(mapped)}
    BY <1>3, <1>4, <2>1 DEF e
  <2> QED
    BY <2>2 DEF MapTimers, Members
<1> QED
  BY <1>3, <1>5 DEF MapInv, MapTypeOK, Ordered, Once, InOrder, OnceIn, MapQueue!QModify, MapModify

\* The first entry is due first.
LEMMA MapFirstIsLeast ==
  ASSUME MapInv, mapped # <<>>
  PROVE  1 \in DOMAIN mapped /\ mapped[1] \in Task /\ MapQueue!Least(mapped[1])
<1>1. 1 \in DOMAIN mapped /\ mapped \in Seq(Task)
  BY DEF MapInv, MapTypeOK
<1>2. \A t \in Task : t.expired_time \in Nat
  BY DEF Task
<1>3. \A j \in DOMAIN mapped : mapped[1].expired_time <= mapped[j].expired_time
  <2> TAKE j \in DOMAIN mapped
  <2>1. mapped[j] \in Task /\ j \in 1 .. Len(mapped)
    BY <1>1
  <2>2. CASE j = 1
    BY <1>2, <2>1, <2>2
  <2>3. CASE 1 < j
    BY <1>1, <2>3 DEF MapInv, Ordered
  <2> QED
    BY <2>1, <2>2, <2>3
<1> QED
  BY <1>1, <1>3 DEF MapQueue!Least, MapTimers

\* pop keeps the invariant and hands out a timer that is due first.
LEMMA MapPopStep ==
  ASSUME MapInv, MapPop
  PROVE  MapInv' /\ MapQueue!QPop
<1> DEFINE t == mapped[1]
           again == MapQueue!setExpiredTime(t, t.duration)
<1>1. mapped # <<>> /\ clock' = clock
  BY DEF MapPop
<1>2. 1 \in DOMAIN mapped /\ t \in Task /\ MapQueue!Least(t)
  BY <1>1, MapFirstIsLeast
<1>3. again \in Task /\ again.id = t.id
  <2>1. t.duration \in Durations
    BY <1>2 DEF Task
  <2> QED
    BY <1>2, <2>1, InvIs, Restarted
<1>4. CASE t.cycled
  <2>1. mapHanded' = again /\ mapped' = Index(Erased(mapped, 1), again)
    BY <1>4 DEF MapPop
  <2>2. /\ mapped' \in Seq(Task) /\ InOrder(mapped') /\ OnceIn(mapped')
        /\ Members(mapped') = (Members(mapped) \ {t}) \cup {again}
    BY <1>2, <1>3, <2>1, Replaced
  <2>3. MapInv'
    BY <1>1, <1>3, <2>1, <2>2 DEF MapInv, MapTypeOK, Ordered, Once, InOrder, OnceIn
  <2>4. MapTimers' = (MapTimers \ {t}) \cup {mapHanded'}
    BY <2>1, <2>2 DEF MapTimers, Members
  <2> HIDE DEF t
  <2> QED
    BY <1>1, <1>2, <1>4, <2>1, <2>3, <2>4 DEF MapQueue!QPop, MapQueue!Least
<1>5. CASE ~ t.cycled
  <2>1. mapHanded' = t /\ mapped' = Erased(mapped, 1)
    BY <1>5 DEF MapPop
  <2>2. /\ mapped' \in Seq(Task) /\ InOrder(mapped') /\ OnceIn(mapped')
        /\ Members(mapped') = Members(mapped) \ {t}
    BY <1>2, <2>1, InvIs, ErasedFacts DEF MapTypeOK
  <2>3. MapInv'
    BY <1>1, <1>2, <2>1, <2>2 DEF MapInv, MapTypeOK, Ordered, Once, InOrder, OnceIn
  <2>4. MapTimers' = MapTimers \ {t}
    BY <2>2 DEF MapTimers, Members
  <2> HIDE DEF t
  <2> QED
    BY <1>1, <1>2, <1>5, <2>1, <2>3, <2>4 DEF MapQueue!QPop, MapQueue!Least
<1> QED
  BY <1>4, <1>5

\* The other pop drops one.
LEMMA MapDiscardStep ==
  ASSUME MapInv, MapDiscard
  PROVE  MapInv' /\ MapQueue!QDiscard
<1>1. 1 \in DOMAIN mapped /\ MapQueue!Least(mapped[1])
  BY MapFirstIsLeast DEF MapDiscard
<1>2. /\ mapped' \in Seq(Task) /\ InOrder(mapped') /\ OnceIn(mapped')
      /\ Members(mapped') = Members(mapped) \ {mapped[1]}
  BY <1>1, InvIs, ErasedFacts DEF MapTypeOK, MapDiscard
<1>3. MapTimers' = MapTimers \ {mapped[1]}
  BY <1>2 DEF MapTimers, Members
<1> QED
  BY <1>1, <1>2, <1>3 DEF MapInv, MapTypeOK, Ordered, Once, InOrder, OnceIn, MapDiscard,
                          MapQueue!QDiscard, MapQueue!Least

-----------------------------------------------------------------------------
LEMMA MapInitInv == MapInit => MapInv /\ MapQueue!QInit
BY DEF MapInit, MapInv, MapTypeOK, Ordered, Once, MapQueue!QInit, MapTimers

\* Every step keeps the invariant and is a step of the queue, or none.
LEMMA MapStep ==
  ASSUME MapInv, [MapNext]_mapVars
  PROVE  MapInv' /\ [MapQueue!QNext]_(MapQueue!queueVars)
<1>1. ASSUME NEW id \in Ids, NEW d \in Durations, NEW cyc \in BOOLEAN, NEW made \in 0 .. clock,
             MapAdd([id |-> id, duration |-> d, expired_time |-> made + d, cycled |-> cyc])
      PROVE  MapInv' /\ MapQueue!QNext
  <2>1. [id |-> id, duration |-> d, expired_time |-> made + d, cycled |-> cyc] \in Task
    BY TimerAssumption DEF Task, MapInv, MapTypeOK
  <2> QED
    BY <1>1, <2>1, MapAddStep DEF MapQueue!QNext
<1>2. ASSUME NEW id \in Ids, MapRemove(id)
      PROVE  MapInv' /\ MapQueue!QNext
  BY <1>2, MapRemoveStep DEF MapQueue!QNext
<1>3. ASSUME NEW id \in Ids, NEW d \in Durations, NEW cyc \in BOOLEAN, MapModify(id, d, cyc)
      PROVE  MapInv' /\ MapQueue!QNext
  BY <1>3, MapModifyStep DEF MapQueue!QNext
<1>4. CASE MapPop
  BY <1>4, MapPopStep DEF MapQueue!QNext
<1>5. CASE MapDiscard
  BY <1>5, MapDiscardStep DEF MapQueue!QNext
<1>6. CASE MapTick
  BY <1>6 DEF MapTick, MapInv, MapTypeOK, Ordered, Once, MapQueue!QNext, MapQueue!QTick, MapTimers
<1>7. CASE UNCHANGED mapVars
  BY <1>7 DEF mapVars, MapInv, MapTypeOK, Ordered, Once, MapQueue!queueVars, MapTimers
<1> QED
  BY <1>1, <1>2, <1>3, <1>4, <1>5, <1>6, <1>7 DEF MapNext

\* The map keeps its entries in the order of their expiries and each id once,
\* whatever is added, removed, changed or popped (Timer.cpp:158-231).
THEOREM MapCorrect == MapSpec => [](MapTypeOK /\ Ordered /\ Once)
<1>1. MapInit => MapInv
  BY MapInitInv
<1>2. MapInv /\ [MapNext]_mapVars => MapInv'
  BY MapStep
<1>3. MapInv => MapTypeOK /\ Ordered /\ Once
  BY DEF MapInv
<1> QED
  BY <1>1, <1>2, <1>3, PTL DEF MapSpec

\* TimerTaskMap implements the queue of timers (Timer.cpp:158-231).
THEOREM Refines == MapSpec => MapIsQueue
<1>1. MapInit => MapInv /\ MapQueue!QInit
  BY MapInitInv
<1>2. MapInv /\ [MapNext]_mapVars => MapInv' /\ [MapQueue!QNext]_(MapQueue!queueVars)
  BY MapStep
<1> QED
  BY <1>1, <1>2, PTL DEF MapSpec, MapIsQueue, MapQueue!QSpec

-----------------------------------------------------------------------------
(* TimerTaskHeap: loops *)

\* What holds of 0 and goes on from each number to the next holds up to n.
LEMMA GoesOn ==
  ASSUME NEW n \in Nat, NEW G, 0 \in G, \A k \in 1 .. n : k - 1 \in G => k \in G
  PROVE  n \in G
<1> DEFINE Bad == {k \in 0 .. n : k \notin G}
<1>1. SUFFICES ASSUME Bad # {}
               PROVE  FALSE
  <2>1. n \in 0 .. n
    OBVIOUS
  <2> QED
    BY <2>1
<1>2. Bad \in SUBSET Nat
  OBVIOUS
<1>3. PICK m \in Bad : \A y \in Bad : m <= y
  BY <1>1, <1>2, First
<1>4. m \in 1 .. n /\ m - 1 \in 0 .. n /\ ~ (m <= m - 1)
  BY <1>3
<1>5. m - 1 \in G
  BY <1>3, <1>4
<1> QED
  BY <1>3, <1>4, <1>5

\* The loop after each of its first n turns.
IsRun(f, turn, start, n) == f = [k \in 0 .. n |-> IF k = 0 THEN start ELSE turn[f[k - 1]]]

LEMMA RunSteps ==
  ASSUME NEW f, NEW turn, NEW start, NEW n, IsRun(f, turn, start, n)
  PROVE  \A k \in 0 .. n : f[k] = IF k = 0 THEN start ELSE turn[f[k - 1]]
  BY DEF IsRun

LEMMA RunsExist ==
  ASSUME NEW turn, NEW start, NEW n \in Nat
  PROVE  \E f : IsRun(f, turn, start, n)
<1> DEFINE G == {k \in Nat : \E f : IsRun(f, turn, start, k)}
<1>1. 0 \in G
  <2> DEFINE f == [k \in 0 .. 0 |-> start]
  <2>1. IsRun(f, turn, start, 0)
    BY DEF IsRun
  <2> QED
    BY <2>1
<1>2. ASSUME NEW m \in 1 .. n, m - 1 \in G
      PROVE  m \in G
  <2>1. PICK f : IsRun(f, turn, start, m - 1)
    BY <1>2
  <2> DEFINE g == [k \in 0 .. m |-> IF k < m THEN f[k] ELSE turn[f[m - 1]]]
             h == [k \in 0 .. m |-> IF k = 0 THEN start ELSE turn[g[k - 1]]]
  <2>2. \A k \in 0 .. m - 1 : f[k] = IF k = 0 THEN start ELSE turn[f[k - 1]]
    BY <2>1, RunSteps
  <2>3. \A k \in 0 .. m : g[k] = IF k = 0 THEN start ELSE turn[g[k - 1]]
    <3> TAKE k \in 0 .. m
    <3>1. CASE k = 0
      BY <2>2, <3>1
    <3>2. CASE k # 0 /\ k < m
      <4>1. g[k] = f[k] /\ g[k - 1] = f[k - 1] /\ k \in 0 .. m - 1
        BY <3>2
      <4> QED
        BY <2>2, <3>2, <4>1
    <3>3. CASE k = m
      <4>1. g[k - 1] = f[m - 1] /\ g[k] = turn[f[m - 1]] /\ k # 0
        BY <3>3
      <4> QED
        BY <4>1
    <3> QED
      BY <3>1, <3>2, <3>3
  <2>4. g = [k \in 0 .. m |-> g[k]]
    OBVIOUS
  <2> HIDE DEF g
  <2>5. h = [k \in 0 .. m |-> g[k]]
    BY <2>3
  <2>6. IsRun(g, turn, start, m)
    BY <2>4, <2>5 DEF IsRun
  <2> QED
    BY <2>6
<1> HIDE DEF G
<1>3. n \in G
  BY <1>1, <1>2, GoesOn
<1> QED
  BY <1>3 DEF G

\* What holds before a loop and is kept by its turns holds after it.  I is the
\* set of the pairs of a number of turns and what may hold after that many.
LEMMA LoopKeeps ==
  ASSUME NEW turn, NEW s \in Seq(SlotValue), NEW slot, NEW I,
         <<0, [s |-> s, slot |-> slot]>> \in I,
         \A k \in 1 .. Len(s) : \A l : <<k - 1, l>> \in I => <<k, turn[l]>> \in I
  PROVE  <<Len(s), Looped(turn, s, slot)>> \in I
<1> DEFINE start == [s |-> s, slot |-> slot]
           n == Len(s)
           f == CHOOSE f : f = [k \in 0 .. n |-> IF k = 0 THEN start ELSE turn[f[k - 1]]]
           G == {k \in 0 .. n : <<k, f[k]>> \in I}
<1>1. n \in Nat
  OBVIOUS
<1>2. Looped(turn, s, slot) = f[n]
  BY DEF Looped
<1> HIDE DEF n
<1>3. IsRun(f, turn, start, n)
  <2>1. \E h : IsRun(h, turn, start, n)
    BY <1>1, RunsExist
  <2> HIDE DEF start
  <2> QED
    BY <2>1 DEF IsRun
<1> HIDE DEF f
<1>4. \A k \in 0 .. n : f[k] = IF k = 0 THEN start ELSE turn[f[k - 1]]
  BY <1>3, RunSteps
<1>5. 0 \in G
  BY <1>1, <1>4
<1>6. ASSUME NEW k \in 1 .. n, k - 1 \in G
      PROVE  k \in G
  <2>1. k \in 0 .. n /\ k # 0 /\ <<k - 1, f[k - 1]>> \in I
    BY <1>1, <1>6
  <2>2. <<k, turn[f[k - 1]]>> \in I
    BY <1>6, <2>1 DEF n
  <2> QED
    BY <1>4, <2>1, <2>2
<1> HIDE DEF G
<1>7. n \in G
  BY <1>1, <1>5, <1>6, GoesOn
<1> QED
  BY <1>2, <1>7 DEF G, n

-----------------------------------------------------------------------------
(* TimerTaskHeap: arrays *)

Due(s, i) == s[i].expired_time

\* In order but for the slot c and its parent, or for the slot c and its children.
HeapOrder(s) == \A j \in 2 .. Len(s) : Due(s, j \div 2) <= Due(s, j)
ButForParent(s, c) == /\ \A j \in 2 .. Len(s) : j # c => Due(s, j \div 2) <= Due(s, j)
                      /\ \A j \in 2 .. Len(s) :
                           j \div 2 = c /\ c > 1 => Due(s, c \div 2) <= Due(s, j)
ButForChildren(s, c) ==
  /\ \A j \in 2 .. Len(s) : j # c /\ j \div 2 # c => Due(s, j \div 2) <= Due(s, j)
  /\ \A j \in 2 .. Len(s) : j \div 2 = c /\ c > 1 => Due(s, c \div 2) <= Due(s, j)

\* The same timers, perhaps in other places.
Shuffled(r, s) == /\ r \in Seq(SlotValue) /\ Len(r) = Len(s) /\ Members(r) = Members(s)
                  /\ OnceIn(s) => OnceIn(r)

LEMMA ParentIs ==
  ASSUME NEW n \in Nat, NEW j \in 2 .. n
  PROVE  /\ j \div 2 \in 1 .. n /\ j \div 2 < j /\ (j = 2 * (j \div 2) \/ j = 2 * (j \div 2) + 1)
         /\ \A c \in 1 .. n : j \div 2 = c <=> j = 2 * c \/ j = 2 * c + 1
  OBVIOUS

LEMMA DueIs ==
  ASSUME NEW s \in Seq(SlotValue), NEW i \in 1 .. Len(s)
  PROVE  s[i] \in SlotValue /\ Due(s, i) \in Nat
<1>1. s[i] \in SlotValue
  OBVIOUS
<1> QED
  BY <1>1 DEF SlotValue, Blank, Task, Due

\* Two timers that change places.
LEMMA SwapIs ==
  ASSUME NEW s \in Seq(SlotValue), NEW x \in 1 .. Len(s), NEW y \in 1 .. Len(s)
  PROVE  /\ Shuffled(swap(s, x, y), s)
         /\ swap(s, x, y)[y] = s[x] /\ swap(s, x, y)[x] = s[y]
         /\ \A i \in 1 .. Len(s) : i # x /\ i # y => swap(s, x, y)[i] = s[i]
<1> DEFINE r == swap(s, x, y)
<1>1. /\ r \in Seq(SlotValue) /\ Len(r) = Len(s) /\ DOMAIN r = 1 .. Len(s) /\ DOMAIN s = 1 .. Len(s)
      /\ r[y] = s[x] /\ r[x] = s[y] /\ \A i \in 1 .. Len(s) : i # x /\ i # y => r[i] = s[i]
  BY DEF swap
<1> HIDE DEF r
<1>2. Members(r) = Members(s)
  <2>1. Members(r) \subseteq Members(s)
    BY <1>1 DEF Members
  <2>2. ASSUME NEW i \in 1 .. Len(s)
        PROVE  \E j \in 1 .. Len(s) : r[j] = s[i]
    BY <1>1
  <2> QED
    BY <1>1, <2>1, <2>2 DEF Members
<1>3. OnceIn(s) => OnceIn(r)
  BY <1>1 DEF OnceIn
<1> QED
  BY <1>1, <1>2, <1>3 DEF Shuffled, r

LEMMA ShuffledAgain ==
  ASSUME NEW q, NEW r, NEW s, Shuffled(q, r), Shuffled(r, s)
  PROVE  Shuffled(q, s)
  BY DEF Shuffled

\* In any array the loops only move timers to other slots.
LEMMA UpShuffles ==
  ASSUME NEW s \in Seq(SlotValue), NEW c \in 1 .. Len(s)
  PROVE  Shuffled(moveUp(s, c), s)
<1> DEFINE n == Len(s)
           Good(l) == l \in LoopState /\ Shuffled(l.s, s) /\ l.slot \in 1 .. n
           I == {p \in (0 .. n) \X LoopState : Good(p[2])}
           start == [s |-> s, slot |-> c]
<1> n \in Nat
  OBVIOUS
<1>1. <<0, start>> \in I
  <2>1. start \in LoopState /\ start.s = s /\ start.slot = c
    BY DEF LoopState
  <2> HIDE DEF start
  <2> QED
    BY <2>1 DEF Shuffled
<1>2. ASSUME NEW k \in 1 .. n, NEW l, <<k - 1, l>> \in I
      PROVE  <<k, UpTurn[l]>> \in I
  <2> DEFINE r == l.s
             j == l.slot
             pa == j \div 2
             m == [s |-> swap(r, j, pa), slot |-> pa]
  <2>1. l \in LoopState /\ r \in Seq(SlotValue) /\ Len(r) = n /\ Shuffled(r, s) /\ j \in 1 .. n
    BY <1>2 DEF LoopState, Shuffled
  <2>2. UpTurn[l] = IF j > 1 /\ Before(r, j, pa) THEN m ELSE l
    BY <2>1 DEF UpTurn
  <2> HIDE DEF r, j
  <2>3. CASE j > 1
    <3>1. pa \in 1 .. n
      BY <2>1, <2>3, ParentIs
    <3> HIDE DEF pa
    <3>2. Shuffled(swap(r, j, pa), s)
      BY <2>1, <3>1, SwapIs, ShuffledAgain
    <3>3. m \in LoopState /\ m.s = swap(r, j, pa) /\ m.slot = pa
      BY <3>1, <3>2 DEF LoopState, Shuffled
    <3>4. Good(m)
      BY <3>1, <3>2, <3>3
    <3>5. Good(l)
      BY <2>1 DEF r, j
    <3>6. UpTurn[l] = m \/ UpTurn[l] = l
      BY <2>2
    <3> HIDE DEF m, Good
    <3> QED
      BY <2>1, <3>3, <3>4, <3>5, <3>6
  <2>4. CASE ~ (j > 1)
    <3>1. Good(l) /\ UpTurn[l] = l
      BY <2>1, <2>2, <2>4 DEF r, j
    <3> HIDE DEF Good
    <3> QED
      BY <2>1, <3>1
  <2> QED
    BY <2>3, <2>4
<1> HIDE DEF I, n
<1>3. <<n, Looped(UpTurn, s, c)>> \in I
  BY <1>1, <1>2, LoopKeeps DEF n
<1> QED
  BY <1>3 DEF I, moveUp

LEMMA DownShuffles ==
  ASSUME NEW s \in Seq(SlotValue), NEW i \in 1 .. Len(s)
  PROVE  Shuffled(moveDown(s, i), s)
<1> DEFINE n == Len(s)
           Good(l) == l \in LoopState /\ Shuffled(l.s, s) /\ l.slot > 0
           I == {p \in (0 .. n) \X LoopState : Good(p[2])}
           start == [s |-> s, slot |-> 2 * i]
<1> n \in Nat
  OBVIOUS
<1>1. <<0, start>> \in I
  <2>1. start \in LoopState /\ start.s = s /\ start.slot > 0
    BY DEF LoopState
  <2> HIDE DEF start
  <2> QED
    BY <2>1 DEF Shuffled
<1>2. ASSUME NEW k \in 1 .. n, NEW l, <<k - 1, l>> \in I
      PROVE  <<k, DownTurn(i)[l]>> \in I
  <2> DEFINE r == l.s
             j == l.slot
             c == EarlierChild(r, j)
             m == [s |-> swap(r, c, i), slot |-> c]
  <2>1. /\ l \in LoopState /\ r \in Seq(SlotValue) /\ Len(r) = n /\ Shuffled(r, s)
        /\ j \in Nat /\ j > 0
    BY <1>2 DEF LoopState, Shuffled
  <2>2. DownTurn(i)[l] = IF j <= n /\ Before(r, c, i) THEN m ELSE l
    BY <2>1 DEF DownTurn
  <2> HIDE DEF r, j
  <2>3. CASE j <= n
    <3>1. c \in 1 .. n
      BY <2>1, <2>3 DEF EarlierChild
    <3> HIDE DEF c
    <3>2. Shuffled(swap(r, c, i), s)
      BY <2>1, <3>1, SwapIs, ShuffledAgain
    <3>3. m \in LoopState /\ m.s = swap(r, c, i) /\ m.slot = c
      BY <3>1, <3>2 DEF LoopState, Shuffled
    <3>4. Good(m)
      BY <3>1, <3>2, <3>3
    <3>5. Good(l)
      BY <2>1 DEF r, j
    <3>6. DownTurn(i)[l] = m \/ DownTurn(i)[l] = l
      BY <2>2
    <3> HIDE DEF m, Good
    <3> QED
      BY <2>1, <3>3, <3>4, <3>5, <3>6
  <2>4. CASE ~ (j <= n)
    <3>1. Good(l) /\ DownTurn(i)[l] = l
      BY <2>1, <2>2, <2>4 DEF r, j
    <3> HIDE DEF Good
    <3> QED
      BY <2>1, <3>1
  <2> QED
    BY <2>3, <2>4
<1> HIDE DEF I, n
<1>3. <<n, Looped(DownTurn(i), s, 2 * i)>> \in I
  BY <1>1, <1>2, LoopKeeps DEF n
<1> QED
  BY <1>3 DEF I, moveDown

\* What remove takes out sinks; the last slot changes only if it ends there.
LEMMA SinkShuffles ==
  ASSUME NEW s \in Seq(SlotValue), NEW i \in 1 .. Len(s),
         NEW r, r = sunk(s, i).s, NEW h, h = sunk(s, i).slot
  PROVE  Shuffled(r, s) /\ (h # Len(s) => r[Len(s)] = s[Len(s)])
<1> DEFINE n == Len(s)
           Good(l) == /\ l \in LoopState /\ Shuffled(l.s, s) /\ l.slot \in 1 .. n
                      /\ l.slot # n => l.s[n] = s[n]
           I == {p \in (0 .. n) \X LoopState : Good(p[2])}
           start == [s |-> s, slot |-> i]
<1> n \in Nat
  OBVIOUS
<1>1. <<0, start>> \in I
  <2>1. start \in LoopState /\ start.s = s /\ start.slot = i
    BY DEF LoopState
  <2> HIDE DEF start
  <2> QED
    BY <2>1 DEF Shuffled
<1>2. ASSUME NEW k \in 1 .. n, NEW l, <<k - 1, l>> \in I
      PROVE  <<k, SinkTurn[l]>> \in I
  <2> DEFINE q == l.s
             p == l.slot
             c == EarlierChild(q, 2 * p)
             m == [s |-> swap(q, c, p), slot |-> c]
  <2>1. /\ l \in LoopState /\ q \in Seq(SlotValue) /\ Len(q) = n /\ Shuffled(q, s)
        /\ p \in 1 .. n /\ (p # n => q[n] = s[n])
    BY <1>2 DEF LoopState, Shuffled
  <2>2. SinkTurn[l] = IF 2 * p <= n THEN m ELSE l
    BY <2>1 DEF SinkTurn
  <2> HIDE DEF q, p
  <2>3. CASE 2 * p <= n
    <3>1. c \in 1 .. n /\ c > p
      BY <2>1, <2>3 DEF EarlierChild
    <3> HIDE DEF c
    <3>2. /\ Shuffled(swap(q, c, p), q)
          /\ \A j \in 1 .. n : j # c /\ j # p => swap(q, c, p)[j] = q[j]
      BY <2>1, <3>1, SwapIs
    <3>3. Shuffled(swap(q, c, p), s)
      BY <2>1, <3>2, ShuffledAgain
    <3>4. m \in LoopState /\ m.s = swap(q, c, p) /\ m.slot = c
      BY <3>1, <3>2 DEF LoopState, Shuffled
    <3>5. c # n => swap(q, c, p)[n] = s[n]
      BY <2>1, <3>1, <3>2
    <3>6. Good(m)
      BY <3>1, <3>3, <3>4, <3>5
    <3>7. SinkTurn[l] = m
      BY <2>2, <2>3
    <3> HIDE DEF m, Good
    <3> QED
      BY <3>4, <3>6, <3>7
  <2>4. CASE ~ (2 * p <= n)
    <3>1. Good(l) /\ SinkTurn[l] = l
      BY <2>1, <2>2, <2>4 DEF q, p
    <3> HIDE DEF Good
    <3> QED
      BY <2>1, <3>1
  <2> QED
    BY <2>3, <2>4
<1> HIDE DEF I, n
<1>3. <<n, Looped(SinkTurn, s, i)>> \in I
  BY <1>1, <1>2, LoopKeeps DEF n
<1> QED
  BY <1>3 DEF I, sunk, n

\* moveUp puts an array in order that is in order but for a slot and its parent.
LEMMA MoveUpOrders ==
  ASSUME NEW s \in Seq(SlotValue), NEW c \in 1 .. Len(s), OnceIn(s), ButForParent(s, c)
  PROVE  HeapOrder(moveUp(s, c)) /\ Shuffled(moveUp(s, c), s)
<1> DEFINE n == Len(s)
           Good(k, l) == /\ l \in LoopState /\ Shuffled(l.s, s) /\ l.slot \in 1 .. n
                         /\ ButForParent(l.s, l.slot) /\ (HeapOrder(l.s) \/ l.slot <= n - k)
           I == {p \in (0 .. n) \X LoopState : Good(p[1], p[2])}
           start == [s |-> s, slot |-> c]
<1> n \in Nat
  OBVIOUS
<1>1. <<0, start>> \in I
  <2>1. start \in LoopState /\ start.s = s /\ start.slot = c
    BY DEF LoopState
  <2>2. Shuffled(s, s)
    BY DEF Shuffled
  <2>3. Good(0, start)
    BY <2>1, <2>2
  <2> HIDE DEF Good, start
  <2> QED
    BY <2>1, <2>3
<1>2. ASSUME NEW k \in 1 .. n, NEW l, <<k - 1, l>> \in I
      PROVE  <<k, UpTurn[l]>> \in I
  <2>1. Good(k - 1, l)
    BY <1>2
  <2> DEFINE r == l.s
             j == l.slot
             pa == j \div 2
  <2>2. /\ r \in Seq(SlotValue) /\ Len(r) = n /\ OnceIn(r) /\ j \in 1 .. n /\ l = [s |-> r, slot |-> j]
        /\ Shuffled(r, s) /\ ButForParent(r, j) /\ l \in LoopState
        /\ (HeapOrder(r) \/ j <= n - (k - 1))
    BY <2>1 DEF Shuffled, LoopState
  <2>3. UpTurn[l] = IF j > 1 /\ Before(r, j, pa) THEN [s |-> swap(r, j, pa), slot |-> pa] ELSE l
    BY <2>2 DEF UpTurn
  <2> HIDE DEF r, j
  <2>4. CASE j > 1 /\ Before(r, j, pa)
    <3> DEFINE q == swap(r, j, pa)
               m == [s |-> q, slot |-> pa]
    <3>1. j \in 2 .. n /\ pa \in 1 .. n /\ pa < j /\ (j = 2 * pa \/ j = 2 * pa + 1)
      BY <2>2, <2>4, ParentIs
    <3>2. /\ Shuffled(q, r) /\ q[pa] = r[j] /\ q[j] = r[pa]
          /\ \A i \in 1 .. n : i # j /\ i # pa => q[i] = r[i]
      BY <2>2, <3>1, SwapIs
    <3>0. pa = j \div 2
      OBVIOUS
    <3> HIDE DEF q, pa
    <3>3. Due(r, j) < Due(r, pa) /\ Due(q, pa) = Due(r, j) /\ Due(q, j) = Due(r, pa)
      BY <2>4, <3>2 DEF Before, Due
    <3>4. \A i \in 1 .. n : i # j /\ i # pa => Due(q, i) = Due(r, i)
      BY <3>2 DEF Due
    <3>5. \A i \in 1 .. n : Due(r, i) \in Nat /\ Due(q, i) \in Nat
      BY <2>2, <3>2, DueIs DEF Shuffled
    <3>6. Len(q) = n /\ q \in Seq(SlotValue)
      BY <2>2, <3>2 DEF Shuffled
    <3>7. ASSUME NEW i \in 2 .. n, i # pa
          PROVE  Due(q, i \div 2) <= Due(q, i)
      <4>1. /\ i \in 1 .. n /\ i \div 2 \in 1 .. n /\ i \div 2 < i
            /\ \A d \in 1 .. n : i \div 2 = d <=> i = 2 * d \/ i = 2 * d + 1
        BY ParentIs
      <4>2. CASE i = j
        BY <3>0, <3>1, <3>3, <3>5, <4>1, <4>2
      <4>3. CASE i # j /\ i \div 2 = pa
        <5>1. Due(r, pa) <= Due(r, i)
          BY <2>2, <4>3 DEF ButForParent
        <5>2. Due(q, i) = Due(r, i)
          BY <3>4, <3>7, <4>1, <4>3
        <5>3. Due(r, j) \in Nat /\ Due(r, pa) \in Nat /\ Due(r, i) \in Nat
          BY <3>1, <3>5, <4>1
        <5>4. Due(q, pa) <= Due(q, i)
          BY <3>3, <5>1, <5>2, <5>3
        <5> QED
          BY <4>3, <5>4
      <4>4. CASE i # j /\ i \div 2 = j
        <5>1. Due(r, pa) <= Due(r, i)
          BY <2>2, <3>1, <4>4 DEF ButForParent, pa
        <5> QED
          BY <3>3, <3>4, <3>7, <4>1, <4>4, <5>1
      <4>5. CASE i # j /\ i \div 2 # pa /\ i \div 2 # j
        <5>1. Due(r, i \div 2) <= Due(r, i)
          BY <2>2, <4>5 DEF ButForParent
        <5> QED
          BY <3>4, <3>7, <4>1, <4>5, <5>1
      <4> QED
        BY <4>2, <4>3, <4>4, <4>5
    <3>8. ASSUME NEW i \in 2 .. n, i \div 2 = pa, pa > 1
          PROVE  Due(q, pa \div 2) <= Due(q, i)
      <4>1. pa \in 2 .. n /\ pa \div 2 \in 1 .. n /\ pa \div 2 < pa /\ pa < j
        BY <3>1, <3>8, ParentIs
      <4>2. Due(q, pa \div 2) = Due(r, pa \div 2)
        BY <3>1, <3>4, <4>1
      <4>3. Due(r, pa \div 2) <= Due(r, pa)
        BY <2>2, <4>1 DEF ButForParent
      <4>4. i \in 1 .. n /\ i # pa
        BY <3>8, ParentIs
      <4>5. CASE i = j
        BY <3>3, <4>2, <4>3, <4>5
      <4>6. CASE i # j
        <5>1. Due(r, pa) <= Due(r, i)
          BY <2>2, <3>8, <4>6 DEF ButForParent
        <5>2. Due(q, i) = Due(r, i)
          BY <3>4, <4>4, <4>6
        <5> QED
          BY <3>1, <3>5, <4>1, <4>2, <4>3, <4>4, <5>1, <5>2
      <4> QED
        BY <4>5, <4>6
    <3>9. ButForParent(q, pa)
      BY <3>6, <3>7, <3>8 DEF ButForParent
    <3>10. pa <= n - k
      <4>1. ~ HeapOrder(r)
        BY <2>2, <3>1, <3>3, <3>5 DEF HeapOrder, pa
      <4> QED
        BY <2>2, <3>1, <4>1
    <3>11. m \in LoopState /\ m.s = q /\ m.slot = pa
      BY <3>1, <3>6 DEF LoopState
    <3>12. Shuffled(q, s)
      BY <2>2, <3>2, ShuffledAgain
    <3>13. Good(k, m)
      BY <3>1, <3>9, <3>10, <3>11, <3>12
    <3>14. UpTurn[l] = m
      BY <2>3, <2>4 DEF q, pa
    <3> HIDE DEF Good, m
    <3> QED
      BY <3>11, <3>13, <3>14
  <2>5. CASE ~ (j > 1 /\ Before(r, j, pa))
    <3>1. HeapOrder(r)
      <4> SUFFICES ASSUME NEW i \in 2 .. n
                   PROVE  Due(r, i \div 2) <= Due(r, i)
        BY <2>2 DEF HeapOrder
      <4>1. CASE i # j
        BY <2>2, <4>1 DEF ButForParent
      <4>2. CASE i = j
        <5>1. j \div 2 \in 1 .. n /\ j \in 1 .. n
          BY <4>2, ParentIs
        <5>2. Due(r, j) \in Nat /\ Due(r, pa) \in Nat
          BY <2>2, <5>1, DueIs
        <5>3. ~ (Due(r, j) < Due(r, pa))
          BY <2>5, <4>2 DEF Before, Due
        <5> QED
          BY <4>2, <5>2, <5>3
      <4> QED
        BY <4>1, <4>2
    <3>2. Good(k, l)
      BY <2>2, <3>1 DEF r, j
    <3>3. UpTurn[l] = l
      BY <2>3, <2>5
    <3> HIDE DEF Good
    <3> QED
      BY <2>2, <3>2, <3>3
  <2> QED
    BY <2>4, <2>5
<1> HIDE DEF I, n
<1>3. <<n, Looped(UpTurn, s, c)>> \in I
  BY <1>1, <1>2, LoopKeeps DEF n
<1>4. Good(n, Looped(UpTurn, s, c))
  BY <1>3 DEF I
<1> QED
  BY <1>4 DEF moveUp

\* The child that moveDown and remove look at: the earlier of the two there are.
LEMMA ChildIs ==
  ASSUME NEW s \in Seq(SlotValue), NEW p \in 1 .. Len(s), 2 * p <= Len(s),
         NEW c, c = EarlierChild(s, 2 * p)
  PROVE  /\ c \in 2 .. Len(s) /\ c > p /\ c \div 2 = p
         /\ \A j \in 2 .. Len(s) : j \div 2 = p => Due(s, c) <= Due(s, j)
<1> DEFINE n == Len(s)
<1>1. n \in Nat /\ p \in Nat /\ 2 * p \in 1 .. n
  OBVIOUS
<1>2. c = 2 * p \/ (c = 2 * p + 1 /\ 2 * p + 1 <= n)
  BY DEF EarlierChild
<1>3. c \in 2 .. n /\ c > p /\ c \div 2 = p
  BY <1>1, <1>2
<1>4. \A i \in 1 .. n : Due(s, i) \in Nat
  BY DueIs
<1>5. /\ 2 * p + 1 <= n /\ Due(s, 2 * p + 1) < Due(s, 2 * p) => c = 2 * p + 1
      /\ ~ (2 * p + 1 <= n /\ Due(s, 2 * p + 1) < Due(s, 2 * p)) => c = 2 * p
  BY DEF EarlierChild, Before, Due
<1> HIDE DEF n
<1>6. ASSUME NEW j \in 2 .. n, j \div 2 = p
      PROVE  Due(s, c) <= Due(s, j)
  <2>1. j = 2 * p \/ j = 2 * p + 1
    BY <1>1, <1>6
  <2>2. Due(s, 2 * p) \in Nat /\ Due(s, j) \in Nat
    BY <1>1, <1>4, <1>6
  <2>3. CASE 2 * p + 1 <= n /\ Due(s, 2 * p + 1) < Due(s, 2 * p)
    <3>1. c = 2 * p + 1
      BY <1>5, <2>3
    <3>2. CASE j = c
      BY <2>2, <3>2
    <3>3. CASE j = 2 * p
      BY <1>1, <1>4, <2>2, <2>3, <3>1, <3>3
    <3> QED
      BY <2>1, <3>1, <3>2, <3>3
  <2>4. CASE ~ (2 * p + 1 <= n /\ Due(s, 2 * p + 1) < Due(s, 2 * p))
    <3>1. c = 2 * p
      BY <1>5, <2>4
    <3>2. CASE j = 2 * p
      BY <2>2, <3>1, <3>2
    <3>3. CASE j = 2 * p + 1
      <4>1. 2 * p + 1 <= n
        BY <1>1, <1>6, <3>3
      <4> QED
        BY <2>2, <2>4, <3>1, <3>3, <4>1
    <3> QED
      BY <2>1, <3>2, <3>3
  <2> QED
    BY <2>3, <2>4
<1> QED
  BY <1>3, <1>6 DEF n

\* What remove takes out sinks to a slot without children that it still holds,
\* and what it has passed is in order.
LEMMA SinkKeeps ==
  ASSUME NEW s \in Seq(SlotValue), NEW i \in 1 .. Len(s), OnceIn(s), HeapOrder(s),
         NEW r, r = sunk(s, i).s, NEW h, h = sunk(s, i).slot
  PROVE  Shuffled(r, s) /\ h \in 1 .. Len(s) /\ r[h] = s[i] /\ ButForChildren(r, h)
<1> DEFINE n == Len(s)
           Good(l) == /\ l \in LoopState /\ Shuffled(l.s, s) /\ l.slot \in 1 .. n
                      /\ l.s[l.slot] = s[i] /\ ButForChildren(l.s, l.slot)
           I == {p \in (0 .. n) \X LoopState : Good(p[2])}
           start == [s |-> s, slot |-> i]
<1> n \in Nat
  OBVIOUS
<1>1. <<0, start>> \in I
  <2>1. start \in LoopState /\ start.s = s /\ start.slot = i
    BY DEF LoopState
  <2>2. Shuffled(s, s)
    BY DEF Shuffled
  <2>3. ButForChildren(s, i)
    <3>1. \A j \in 2 .. n : Due(s, j \div 2) <= Due(s, j)
      BY DEF HeapOrder
    <3>2. ASSUME NEW j \in 2 .. n, j \div 2 = i, i > 1
          PROVE  Due(s, i \div 2) <= Due(s, j)
      <4>1. i \in 2 .. n /\ i \div 2 \in 1 .. n /\ j \in 1 .. n
        BY <3>2, ParentIs
      <4>2. Due(s, i \div 2) <= Due(s, i) /\ Due(s, i) <= Due(s, j)
        BY <3>1, <3>2, <4>1
      <4>3. Due(s, i \div 2) \in Nat /\ Due(s, i) \in Nat /\ Due(s, j) \in Nat
        BY <4>1, DueIs
      <4> QED
        BY <4>2, <4>3
    <3> QED
      BY <3>1, <3>2 DEF ButForChildren
  <2>4. Good(start)
    BY <2>1, <2>2, <2>3
  <2> HIDE DEF Good, start
  <2> QED
    BY <2>1, <2>4
<1>2. ASSUME NEW k \in 1 .. n, NEW l, <<k - 1, l>> \in I
      PROVE  <<k, SinkTurn[l]>> \in I
  <2>1. Good(l)
    BY <1>2
  <2> DEFINE q == l.s
             p == l.slot
             c == EarlierChild(q, 2 * p)
  <2>2. /\ q \in Seq(SlotValue) /\ Len(q) = n /\ OnceIn(q) /\ p \in 1 .. n /\ l \in LoopState
        /\ Shuffled(q, s) /\ q[p] = s[i] /\ ButForChildren(q, p)
    BY <2>1 DEF Shuffled, LoopState
  <2>3. SinkTurn[l] = IF 2 * p <= Len(q) THEN [s |-> swap(q, c, p), slot |-> c] ELSE l
    BY <2>2 DEF SinkTurn
  <2> HIDE DEF q, p
  <2>4. CASE 2 * p <= Len(q)
    <3> DEFINE w == swap(q, c, p)
               m == [s |-> w, slot |-> c]
    <3>1. /\ c \in 2 .. n /\ c > p /\ c \div 2 = p
          /\ \A j \in 2 .. n : j \div 2 = p => Due(q, c) <= Due(q, j)
      BY <2>2, <2>4, ChildIs
    <3>2. c \in 1 .. n
      BY <3>1
    <3> HIDE DEF c
    <3>3. /\ Shuffled(w, q) /\ w[p] = q[c] /\ w[c] = q[p]
          /\ \A j \in 1 .. n : j # c /\ j # p => w[j] = q[j]
      BY <2>2, <3>2, SwapIs
    <3> HIDE DEF w
    <3>4. Due(w, p) = Due(q, c) /\ \A j \in 1 .. n : j # c /\ j # p => Due(w, j) = Due(q, j)
      BY <3>3 DEF Due
    <3>5. Len(w) = n /\ w \in Seq(SlotValue) /\ \A j \in 1 .. n : Due(q, j) \in Nat /\ Due(w, j) \in Nat
      BY <2>2, <3>3, DueIs DEF Shuffled
    <3>6. ASSUME NEW j \in 2 .. n, j # c, j \div 2 # c
          PROVE  Due(w, j \div 2) <= Due(w, j)
      <4>1. j \in 1 .. n /\ j \div 2 \in 1 .. n /\ j \div 2 < j
        BY ParentIs
      <4>2. CASE j = p
        <5>1. Due(q, p \div 2) <= Due(q, c)
          BY <2>2, <3>1, <4>1, <4>2 DEF ButForChildren
        <5>2. Due(w, p \div 2) = Due(q, p \div 2)
          BY <3>4, <3>6, <4>1, <4>2
        <5> QED
          BY <3>4, <4>2, <5>1, <5>2
      <4>3. CASE j # p /\ j \div 2 = p
        <5>1. Due(q, c) <= Due(q, j) /\ Due(w, j) = Due(q, j)
          BY <3>1, <3>4, <3>6, <4>1, <4>3
        <5> QED
          BY <3>4, <4>3, <5>1
      <4>4. CASE j # p /\ j \div 2 # p
        <5>1. Due(q, j \div 2) <= Due(q, j)
          BY <2>2, <4>4 DEF ButForChildren
        <5>2. Due(w, j \div 2) = Due(q, j \div 2) /\ Due(w, j) = Due(q, j)
          BY <3>4, <3>6, <4>1, <4>4
        <5> QED
          BY <5>1, <5>2
      <4> QED
        BY <4>2, <4>3, <4>4
    <3>7. ASSUME NEW j \in 2 .. n, j \div 2 = c, c > 1
          PROVE  Due(w, c \div 2) <= Due(w, j)
      <4>1. j \in 1 .. n /\ j # p /\ j # c
        BY <2>2, <3>1, <3>7, ParentIs
      <4>2. Due(q, c) <= Due(q, j)
        BY <2>2, <3>1, <3>7, <4>1 DEF ButForChildren
      <4>3. Due(w, j) = Due(q, j) /\ Due(w, c \div 2) = Due(q, c)
        BY <3>1, <3>4, <4>1
      <4> QED
        BY <4>2, <4>3
    <3>8. ButForChildren(w, c)
      BY <3>5, <3>6, <3>7 DEF ButForChildren
    <3>9. m \in LoopState /\ m.s = w /\ m.slot = c
      BY <3>2, <3>5 DEF LoopState
    <3>10. Shuffled(w, s)
      BY <2>2, <3>3, ShuffledAgain
    <3>11. Good(m)
      BY <2>2, <3>2, <3>3, <3>8, <3>9, <3>10
    <3>12. SinkTurn[l] = m
      BY <2>3, <2>4 DEF w, c
    <3> HIDE DEF Good, m
    <3> QED
      BY <3>9, <3>11, <3>12
  <2>5. CASE ~ (2 * p <= Len(q))
    <3>1. SinkTurn[l] = l
      BY <2>3, <2>5
    <3> HIDE DEF Good
    <3> QED
      BY <2>1, <2>2, <3>1
  <2> QED
    BY <2>4, <2>5
<1> HIDE DEF I, n
<1>3. <<n, Looped(SinkTurn, s, i)>> \in I
  BY <1>1, <1>2, LoopKeeps DEF n
<1>4. Good(Looped(SinkTurn, s, i))
  BY <1>3 DEF I
<1> QED
  BY <1>4 DEF sunk, n

\* A sequence without its last element.
LEMMA AllButLast ==
  ASSUME NEW S, NEW w \in Seq(S), NEW n \in Nat \ {0}, Len(w) = n
  PROVE  /\ SubSeq(w, 1, n - 1) \in Seq(S) /\ Len(SubSeq(w, 1, n - 1)) = n - 1
         /\ DOMAIN SubSeq(w, 1, n - 1) = 1 .. n - 1
         /\ \A j \in 1 .. n - 1 : SubSeq(w, 1, n - 1)[j] = w[j]
<1>1. n - 1 \in Nat /\ \A j \in 1 .. n - 1 : j \in 1 .. n
  OBVIOUS
<1>2. \A j \in 1 .. n - 1 : w[j] \in S
  BY <1>1
<1> QED
  BY <1>1, <1>2

\* The array without its last slot.
Shorter(r, w, n) == /\ r \in Seq(SlotValue) /\ Len(r) = n - 1
                    /\ \A j \in 1 .. n - 1 : r[j] = w[j]
                    /\ Members(r) \subseteq Members(w) /\ Members(w) \ Members(r) \subseteq {w[n]}
                    /\ OnceIn(w) => OnceIn(r) /\ Members(r) = Members(w) \ {w[n]}

LEMMA LastOff ==
  ASSUME NEW w \in Seq(SlotValue), NEW n \in Nat \ {0}, Len(w) = n,
         NEW r, r = SubSeq(w, 1, n - 1)
  PROVE  Shorter(r, w, n)
<1>1. /\ r \in Seq(SlotValue) /\ Len(r) = n - 1 /\ DOMAIN r = 1 .. n - 1
      /\ \A j \in 1 .. n - 1 : r[j] = w[j]
  BY AllButLast
<1>2. DOMAIN w = 1 .. n
  OBVIOUS
<1>3. \A j \in 1 .. n : j \in 1 .. n - 1 \/ j = n
  OBVIOUS
<1>4. \A j \in 1 .. n - 1 : j \in 1 .. n /\ j # n
  OBVIOUS
<1>5. Members(r) \subseteq Members(w) /\ Members(w) \ Members(r) \subseteq {w[n]}
  <2>1. Members(r) = {w[j] : j \in 1 .. n - 1}
    BY <1>1 DEF Members
  <2>2. Members(w) = {w[j] : j \in 1 .. n}
    BY <1>2 DEF Members
  <2> QED
    BY <1>3, <1>4, <2>1, <2>2
<1>6. ASSUME OnceIn(w)
      PROVE  OnceIn(r) /\ w[n] \notin Members(r)
  <2>1. OnceIn(r)
    BY <1>1, <1>2, <1>4, <1>6 DEF OnceIn
  <2>2. ASSUME NEW j \in 1 .. n - 1
        PROVE  w[j] # w[n]
    BY <1>2, <1>4, <1>6 DEF OnceIn
  <2> QED
    BY <1>1, <2>1, <2>2 DEF Members
<1> QED
  BY <1>1, <1>5, <1>6 DEF Shorter

\* A removal that frees the last slot takes out its timer and nothing else.
LEMMA RemovedIs ==
  ASSUME NEW s \in Seq(SlotValue), NEW i \in 1 .. Len(s), OnceIn(s), HeapOrder(s),
         sunk(s, i).slot = Len(s), NEW r, r = SubSeq(sunk(s, i).s, 1, Len(s) - 1)
  PROVE  r \in Seq(SlotValue) /\ OnceIn(r) /\ HeapOrder(r) /\ Members(r) = Members(s) \ {s[i]}
<1> DEFINE w == sunk(s, i).s
           n == Len(s)
<1>1. Shuffled(w, s) /\ w[n] = s[i] /\ ButForChildren(w, n) /\ n \in Nat \ {0}
  BY SinkKeeps
<1> HIDE DEF w
<1>2. w \in Seq(SlotValue) /\ Len(w) = n /\ Members(w) = Members(s) /\ OnceIn(w)
  BY <1>1 DEF Shuffled
<1>3. r = SubSeq(w, 1, n - 1)
  BY DEF w
<1> HIDE DEF n
<1>4. /\ r \in Seq(SlotValue) /\ Len(r) = n - 1 /\ \A j \in 1 .. n - 1 : r[j] = w[j]
      /\ OnceIn(r) /\ Members(r) = Members(w) \ {w[n]}
  <2>1. w \in Seq(SlotValue) /\ Len(w) = n /\ n \in Nat \ {0} /\ OnceIn(w)
    BY <1>1, <1>2
  <2>2. Shorter(r, w, n)
    BY <1>3, <2>1, LastOff
  <2> QED
    BY <2>1, <2>2 DEF Shorter
<1>5. HeapOrder(r)
  <2> SUFFICES ASSUME NEW j \in 2 .. n - 1
               PROVE  Due(r, j \div 2) <= Due(r, j)
    BY <1>4 DEF HeapOrder
  <2>1. n - 1 \in Nat
    BY <1>1
  <2>2. j \in 1 .. n - 1 /\ j \div 2 \in 1 .. n - 1 /\ j \in 2 .. n /\ j # n /\ j \div 2 # n
    BY <1>1, <2>1, ParentIs
  <2>3. Due(w, j \div 2) <= Due(w, j)
    BY <1>1, <1>2, <2>2 DEF ButForChildren
  <2> QED
    BY <1>4, <2>2, <2>3 DEF Due
<1> QED
  BY <1>1, <1>2, <1>4, <1>5

\* A removal that frees another slot takes out the last slot's timer.
LEMMA SlippedIs ==
  ASSUME NEW s \in Seq(SlotValue), NEW i \in 1 .. Len(s), OnceIn(s),
         sunk(s, i).slot # Len(s), NEW r, r = SubSeq(sunk(s, i).s, 1, Len(s) - 1)
  PROVE  r \in Seq(SlotValue) /\ Members(r) = Members(s) \ {s[Len(s)]}
<1> DEFINE w == sunk(s, i).s
           n == Len(s)
<1>1. Shuffled(w, s) /\ w[n] = s[n] /\ n \in Nat \ {0}
  BY SinkShuffles
<1> HIDE DEF w
<1>2. w \in Seq(SlotValue) /\ Len(w) = n /\ Members(w) = Members(s) /\ OnceIn(w)
  BY <1>1 DEF Shuffled
<1>3. r = SubSeq(w, 1, n - 1)
  BY DEF w
<1> HIDE DEF n
<1>4. Shorter(r, w, n)
  BY <1>1, <1>2, <1>3, LastOff
<1>5. r \in Seq(SlotValue) /\ Members(r) = Members(w) \ {w[n]}
  BY <1>2, <1>4 DEF Shorter
<1> QED
  BY <1>1, <1>2, <1>5 DEF n

\* Any array with a timer more.
LEMMA AddedAny ==
  ASSUME NEW s \in Seq(SlotValue), NEW t \in SlotValue
  PROVE  Added(s, t) \in Seq(SlotValue) /\ Members(Added(s, t)) = Members(s) \cup {t}
<1> DEFINE w == Append(s, t)
           n == Len(s)
<1>1. /\ n \in Nat /\ w \in Seq(SlotValue) /\ Len(w) = n + 1
      /\ DOMAIN w = 1 .. n + 1 /\ DOMAIN s = 1 .. n
      /\ w[n + 1] = t /\ \A i \in 1 .. n : w[i] = s[i]
  OBVIOUS
<1> HIDE DEF w, n
<1>2. Members(w) = Members(s) \cup {t}
  <2>1. \A i \in 1 .. n + 1 : i \in 1 .. n \/ i = n + 1
    BY <1>1
  <2>2. n + 1 \in 1 .. n + 1 /\ \A j \in 1 .. n : j \in 1 .. n + 1
    BY <1>1
  <2> QED
    BY <1>1, <2>1, <2>2 DEF Members
<1>3. n + 1 \in 1 .. Len(w)
  BY <1>1
<1>4. Shuffled(moveUp(w, n + 1), w)
  BY <1>1, <1>3, UpShuffles
<1>5. Added(s, t) = moveUp(w, n + 1)
  BY DEF Added, w, n
<1> QED
  BY <1>2, <1>4, <1>5 DEF Shuffled

\* A new timer is put in order.
LEMMA AddedIs ==
  ASSUME NEW s \in Seq(SlotValue), NEW t \in SlotValue, OnceIn(s), HeapOrder(s),
         \A i \in DOMAIN s : s[i].id # t.id
  PROVE  /\ Added(s, t) \in Seq(SlotValue) /\ OnceIn(Added(s, t)) /\ HeapOrder(Added(s, t))
         /\ Members(Added(s, t)) = Members(s) \cup {t}
<1> DEFINE w == Append(s, t)
           n == Len(s)
<1>1. /\ n \in Nat /\ w \in Seq(SlotValue) /\ Len(w) = n + 1
      /\ DOMAIN w = 1 .. n + 1 /\ DOMAIN s = 1 .. n
      /\ w[n + 1] = t /\ \A i \in 1 .. n : w[i] = s[i]
  OBVIOUS
<1> HIDE DEF w, n
<1>2. OnceIn(w)
  <2> SUFFICES ASSUME NEW i \in 1 .. n + 1, NEW j \in 1 .. n + 1, w[i].id = w[j].id
               PROVE  i = j
    BY <1>1 DEF OnceIn
  <2>1. (i \in 1 .. n \/ i = n + 1) /\ (j \in 1 .. n \/ j = n + 1)
    BY <1>1
  <2> QED
    BY <1>1, <2>1 DEF OnceIn
<1>3. Members(w) = Members(s) \cup {t}
  <2>1. \A i \in 1 .. n + 1 : i \in 1 .. n \/ i = n + 1
    BY <1>1
  <2>2. n + 1 \in 1 .. n + 1 /\ \A j \in 1 .. n : j \in 1 .. n + 1
    BY <1>1
  <2> QED
    BY <1>1, <2>1, <2>2 DEF Members
<1>4. ButForParent(w, n + 1)
  <2>1. ASSUME NEW j \in 2 .. n + 1, j # n + 1
        PROVE  Due(w, j \div 2) <= Due(w, j)
    <3>1. j \in 2 .. n
      BY <1>1, <2>1
    <3>2. j \in 1 .. n /\ j \div 2 \in 1 .. n
      BY <1>1, <3>1, ParentIs
    <3>3. Due(s, j \div 2) <= Due(s, j)
      BY <3>1 DEF HeapOrder, n
    <3> QED
      BY <1>1, <3>2, <3>3 DEF Due
  <2>2. \A j \in 2 .. n + 1 : j \div 2 # n + 1
    BY <1>1
  <2> QED
    BY <1>1, <2>1, <2>2 DEF ButForParent
<1>5. HeapOrder(moveUp(w, n + 1)) /\ Shuffled(moveUp(w, n + 1), w)
  <2>1. n + 1 \in 1 .. Len(w)
    BY <1>1
  <2> QED
    BY <1>1, <1>2, <1>4, <2>1, MoveUpOrders
<1>6. Added(s, t) = moveUp(w, n + 1)
  BY DEF Added, w, n
<1> QED
  BY <1>2, <1>3, <1>5, <1>6 DEF Shuffled

\* The array after a change to the timer in slot i and what the code then moves.
LEMMA DownIs ==
  ASSUME NEW s \in Seq(SlotValue), NEW i \in 1 .. Len(s), HeapOrder(s),
         NEW q \in Seq(SlotValue), Len(q) = Len(s), OnceIn(q),
         \A j \in 1 .. Len(s) : j # i => q[j] = s[j],
         i = 1 \/ Before(q, i \div 2, i), DownOnce(q, i)
  PROVE  HeapOrder(moveDown(q, i)) /\ Shuffled(moveDown(q, i), q)
<1> DEFINE n == Len(s)
           c == EarlierChild(q, 2 * i)
<1>1. /\ n \in Nat /\ q \in Seq(SlotValue) /\ Len(q) = n /\ DOMAIN q = 1 .. n /\ DOMAIN s = 1 .. n
      /\ \A j \in 1 .. n : j # i => q[j] = s[j]
  OBVIOUS
<1> HIDE DEF n
<1>2. \A j \in 1 .. n : Due(s, j) \in Nat /\ Due(q, j) \in Nat
  BY <1>1, DueIs DEF n
<1>3. i \in 1 .. n /\ i \in Nat
  BY DEF n
<1>4. \A j \in 1 .. n : j # i => Due(q, j) = Due(s, j)
  BY <1>1 DEF Due
<1>5. \A j \in 2 .. n : Due(s, j \div 2) <= Due(s, j)
  BY DEF HeapOrder, n
<1>6. i # 1 => Due(q, i \div 2) < Due(q, i)
  BY DEF Before, Due
<1>7. CASE 2 * i <= n /\ Before(q, c, i)
  <2>1. /\ c \in 2 .. n /\ c > i /\ c \div 2 = i
        /\ \A j \in 2 .. n : j \div 2 = i => Due(q, c) <= Due(q, j)
    BY <1>1, <1>3, <1>7, ChildIs
  <2> DEFINE w == swap(q, c, i)
  <2>2. /\ moveDown(q, i) = w
        /\ \A g \in {2 * c, 2 * c + 1} : g <= n => ~ Before(q, g, i)
    BY <1>1, <1>7 DEF DownOnce
  <2>3. Due(q, c) < Due(q, i)
    BY <1>7 DEF Before, Due
  <2> HIDE DEF c
  <2>4. c \in 1 .. n /\ c \in Nat /\ c # i
    BY <1>1, <1>3, <2>1
  <2>5. /\ Shuffled(w, q) /\ w[i] = q[c] /\ w[c] = q[i]
        /\ \A j \in 1 .. n : j # c /\ j # i => w[j] = q[j]
    <3>1. c \in 1 .. Len(q) /\ i \in 1 .. Len(q)
      BY <1>1, <1>3, <2>4
    <3> QED
      BY <1>1, <3>1, SwapIs
  <2> HIDE DEF w
  <2>6. /\ Due(w, i) = Due(q, c) /\ Due(w, c) = Due(q, i)
        /\ \A j \in 1 .. n : j # c /\ j # i => Due(w, j) = Due(q, j)
    BY <2>5 DEF Due
  <2>7. ASSUME NEW j \in 2 .. n
        PROVE  Due(w, j \div 2) <= Due(w, j)
    <3>1. j \in 1 .. n /\ j \div 2 \in 1 .. n /\ j \div 2 < j
      BY <1>1, ParentIs
    <3>2. CASE j = i
      <4>1. Due(w, i \div 2) = Due(s, i \div 2)
        BY <1>1, <1>3, <1>4, <2>1, <2>4, <2>6, <3>1, <3>2
      <4>2. Due(s, i \div 2) <= Due(s, i)
        BY <1>5, <3>2
      <4>3. Due(s, i) <= Due(s, c) /\ Due(q, c) = Due(s, c)
        BY <1>1, <1>3, <1>4, <1>5, <2>1, <2>4
      <4>4. Due(s, i \div 2) \in Nat /\ Due(s, i) \in Nat /\ Due(s, c) \in Nat
        BY <1>2, <1>3, <2>4, <3>1, <3>2
      <4>5. Due(w, i \div 2) <= Due(w, i)
        BY <2>6, <4>1, <4>2, <4>3, <4>4
      <4> QED
        BY <3>2, <4>5
    <3>3. CASE j = c
      <4>1. Due(q, c) <= Due(q, i)
        BY <1>2, <1>3, <2>3, <2>4
      <4> QED
        BY <2>1, <2>6, <3>3, <4>1
    <3>4. CASE j # c /\ j \div 2 = i
      <4>1. Due(q, c) <= Due(q, j) /\ j # i
        BY <1>1, <1>3, <2>1, <3>1, <3>4
      <4>2. Due(w, j) = Due(q, j)
        BY <2>6, <3>1, <3>4, <4>1
      <4> QED
        BY <2>6, <3>4, <4>1, <4>2
    <3>5. CASE j # i /\ j \div 2 = c
      <4>1. j \in {2 * c, 2 * c + 1} /\ j <= n /\ j # c
        BY <1>1, <2>4, <3>1, <3>5, ParentIs
      <4>2. ~ (Due(q, j) < Due(q, i))
        BY <2>2, <4>1 DEF Before, Due
      <4>3. Due(q, j) \in Nat /\ Due(q, i) \in Nat
        BY <1>2, <1>3, <3>1
      <4>4. Due(w, j) = Due(q, j)
        BY <2>6, <3>1, <3>5, <4>1
      <4> QED
        BY <2>6, <3>5, <4>2, <4>3, <4>4
    <3>6. CASE j # i /\ j # c /\ j \div 2 # i /\ j \div 2 # c
      <4>1. Due(w, j) = Due(s, j)
        BY <1>4, <2>6, <3>1, <3>6
      <4>2. Due(w, j \div 2) = Due(s, j \div 2)
        BY <1>4, <2>6, <3>1, <3>6
      <4> QED
        BY <1>5, <4>1, <4>2
    <3> QED
      BY <3>2, <3>3, <3>4, <3>5, <3>6
  <2>8. Len(w) = n
    BY <1>1, <2>5 DEF Shuffled
  <2> QED
    BY <2>2, <2>5, <2>7, <2>8 DEF HeapOrder
<1>8. CASE ~ (2 * i <= n /\ Before(q, c, i))
  <2>1. moveDown(q, i) = q
    <3> DEFINE start == [s |-> q, slot |-> 2 * i]
               I == {p \in (0 .. n) \X LoopState : p[2] = start}
    <3>1. start \in LoopState /\ start.s = q /\ start.slot = 2 * i
      BY <1>1, <1>3 DEF LoopState
    <3> HIDE DEF start
    <3>2. DownTurn(i)[start] = start
      BY <1>1, <1>8, <3>1 DEF DownTurn
    <3>3. <<0, start>> \in I
      BY <1>1, <3>1
    <3>4. ASSUME NEW k \in 1 .. n, NEW l, <<k - 1, l>> \in I
          PROVE  <<k, DownTurn(i)[l]>> \in I
      <4>1. l = start /\ k \in 0 .. n
        BY <3>4
      <4> QED
        BY <3>1, <3>2, <4>1
    <3>5. <<0, [s |-> q, slot |-> 2 * i]>> \in I
      BY <3>3 DEF start
    <3> HIDE DEF I
    <3>6. <<n, Looped(DownTurn(i), q, 2 * i)>> \in I
      BY <1>1, <3>4, <3>5, LoopKeeps
    <3>7. Looped(DownTurn(i), q, 2 * i) = start
      BY <3>6 DEF I
    <3> QED
      BY <3>1, <3>7 DEF moveDown
  <2>2. ASSUME NEW j \in 2 .. n
        PROVE  Due(q, j \div 2) <= Due(q, j)
    <3>1. j \in 1 .. n /\ j \div 2 \in 1 .. n /\ j \div 2 < j
      BY <1>1, ParentIs
    <3>2. CASE j = i
      BY <1>2, <1>6, <3>1, <3>2
    <3>3. CASE j # i /\ j \div 2 = i
      <4>1. 2 * i <= n
        BY <1>1, <1>3, <3>1, <3>3, ParentIs
      <4>2. c \in 2 .. n /\ \A d \in 2 .. n : d \div 2 = i => Due(q, c) <= Due(q, d)
        <5>1. i \in 1 .. Len(q) /\ 2 * i <= Len(q)
          BY <1>1, <1>3, <4>1
        <5> QED
          BY <1>1, <5>1, ChildIs
      <4>3. ~ (Due(q, c) < Due(q, i))
        BY <1>8, <4>1 DEF Before, Due
      <4> HIDE DEF c
      <4>4. Due(q, c) \in Nat /\ Due(q, i) \in Nat /\ Due(q, j) \in Nat /\ Due(q, c) <= Due(q, j)
        BY <1>1, <1>2, <1>3, <3>1, <3>3, <4>2
      <4>5. Due(q, i) <= Due(q, j)
        BY <4>3, <4>4
      <4> QED
        BY <3>3, <4>5
    <3>4. CASE j # i /\ j \div 2 # i
      <4>1. Due(q, j) = Due(s, j) /\ Due(q, j \div 2) = Due(s, j \div 2)
        BY <1>4, <3>1, <3>4
      <4> QED
        BY <1>5, <4>1
    <3> QED
      BY <3>2, <3>3, <3>4
  <2> QED
    BY <1>1, <2>1, <2>2 DEF HeapOrder, Shuffled
<1> QED
  BY <1>7, <1>8

LEMMA UpIs ==
  ASSUME NEW s \in Seq(SlotValue), NEW i \in 1 .. Len(s), HeapOrder(s),
         NEW q \in Seq(SlotValue), Len(q) = Len(s), OnceIn(q),
         \A j \in 1 .. Len(s) : j # i => q[j] = s[j],
         ~ (i = 1 \/ Before(q, i \div 2, i))
  PROVE  HeapOrder(moveUp(q, i)) /\ Shuffled(moveUp(q, i), q)
<1> DEFINE n == Len(s)
<1>1. /\ n \in Nat /\ q \in Seq(SlotValue) /\ Len(q) = n /\ DOMAIN q = 1 .. n /\ DOMAIN s = 1 .. n
      /\ \A j \in 1 .. n : j # i => q[j] = s[j]
  OBVIOUS
<1> HIDE DEF n
<1>2. \A j \in 1 .. n : Due(s, j) \in Nat /\ Due(q, j) \in Nat
  BY <1>1, DueIs DEF n
<1>3. i \in 1 .. n /\ i \in 2 .. n
  BY <1>1 DEF n
<1>4. i \div 2 \in 1 .. n /\ i \div 2 < i
  BY <1>1, <1>3, ParentIs
<1>5. \A j \in 1 .. n : j # i => Due(q, j) = Due(s, j)
  BY <1>1 DEF Due
<1>6. \A j \in 2 .. n : Due(s, j \div 2) <= Due(s, j)
  BY DEF HeapOrder, n
<1>7. Due(q, i) <= Due(q, i \div 2) /\ Due(q, i \div 2) = Due(s, i \div 2)
  <2>1. ~ (Due(q, i \div 2) < Due(q, i))
    BY DEF Before, Due
  <2> QED
    BY <1>2, <1>3, <1>4, <1>5, <2>1
<1>8. ASSUME NEW j \in 2 .. n, j \div 2 = i
      PROVE  Due(q, i \div 2) <= Due(q, j)
  <2>1. j \in 1 .. n /\ j # i
    BY <1>1, <1>8, ParentIs
  <2>2. Due(s, i \div 2) <= Due(s, i) /\ Due(s, i) <= Due(s, j) /\ Due(q, j) = Due(s, j)
    BY <1>3, <1>5, <1>6, <1>8, <2>1
  <2>3. Due(s, i \div 2) \in Nat /\ Due(s, i) \in Nat /\ Due(s, j) \in Nat
    BY <1>2, <1>3, <1>4, <2>1
  <2> QED
    BY <1>7, <2>2, <2>3
<1>9. ASSUME NEW j \in 2 .. n, j # i
       PROVE  Due(q, j \div 2) <= Due(q, j)
  <2>1. j \in 1 .. n /\ j \div 2 \in 1 .. n
    BY <1>1, ParentIs
  <2>2. CASE j \div 2 = i
    <3>1. Due(q, i \div 2) <= Due(q, j)
      BY <1>8, <2>2
    <3>2. Due(q, i) \in Nat /\ Due(q, i \div 2) \in Nat /\ Due(q, j) \in Nat
      BY <1>2, <1>3, <1>4, <2>1
    <3>3. Due(q, i) <= Due(q, j)
      BY <1>7, <3>1, <3>2
    <3> QED
      BY <2>2, <3>3
  <2>3. CASE j \div 2 # i
    <3>1. Due(q, j) = Due(s, j) /\ Due(q, j \div 2) = Due(s, j \div 2)
      BY <1>5, <1>9, <2>1, <2>3
    <3> QED
      BY <1>6, <3>1
  <2> QED
    BY <2>2, <2>3
<1>10. ButForParent(q, i)
  BY <1>1, <1>8, <1>9 DEF ButForParent
<1> QED
  BY <1>1, <1>3, <1>10, MoveUpOrders

\* The first timer is due first: a first slot with an earlier timer would have
\* a parent whose timer is later.
LEMMA HeapFirstIsLeast ==
  ASSUME NEW s \in Seq(SlotValue), HeapOrder(s), NEW j \in 1 .. Len(s)
  PROVE  1 \in 1 .. Len(s) /\ Due(s, 1) <= Due(s, j)
<1> DEFINE n == Len(s)
           Bad == {k \in 1 .. n : Due(s, k) < Due(s, 1)}
<1>1. n \in Nat /\ 1 \in 1 .. n
  OBVIOUS
<1>2. \A k \in 1 .. n : Due(s, k) \in Nat
  BY DueIs
<1>3. ASSUME Bad # {}
      PROVE  FALSE
  <2>1. PICK m \in Bad : \A k \in Bad : m <= k
    <3>1. Bad \in SUBSET Nat
      OBVIOUS
    <3> HIDE DEF Bad
    <3> QED
      BY <1>3, <3>1, First
  <2>2. m \in 2 .. n
    BY <1>1, <1>2, <2>1
  <2>3. m \div 2 \in 1 .. n /\ m \div 2 < m /\ m \in 1 .. n
    BY <1>1, <2>2, ParentIs
  <2>4. Due(s, m \div 2) <= Due(s, m)
    BY <2>2 DEF HeapOrder
  <2>5. Due(s, m \div 2) < Due(s, 1)
    BY <1>1, <1>2, <2>1, <2>3, <2>4
  <2>6. m \div 2 \in Bad
    BY <2>3, <2>5
  <2>7. m <= m \div 2
    BY <2>1, <2>6
  <2> QED
    BY <2>2, <2>3, <2>7
<1>4. j \notin Bad
  BY <1>3
<1> QED
  BY <1>1, <1>2, <1>4

-----------------------------------------------------------------------------
(* TimerTaskHeap: steps of any array *)

HeapInv == clock \in Nat /\ inside \in BOOLEAN /\ heaped \in Seq(SlotValue)

\* A timer with another expiry is the same timer.
LEMMA Retimed ==
  ASSUME clock \in Nat, NEW u \in Task, NEW d \in Durations, NEW cyc \in BOOLEAN
  PROVE  /\ HeapQueue!setExpiredTime(u, d) \in Task
         /\ HeapQueue!setExpiredTime(u, d).id = u.id
         /\ [HeapQueue!setExpiredTime(u, d) EXCEPT !.cycled = cyc] \in Task
         /\ [HeapQueue!setExpiredTime(u, d) EXCEPT !.cycled = cyc].id = u.id
<1> DEFINE v == HeapQueue!setExpiredTime(u, d)
<1>1. v \in Task /\ v.id = u.id
  <2>1. u \in [id : Ids, duration : Durations, expired_time : Nat, cycled : BOOLEAN]
    BY DEF Task
  <2>2. clock + d \in Nat
    BY TimerAssumption
  <2> QED
    BY <2>1, <2>2 DEF Task, HeapQueue!setExpiredTime
<1> HIDE DEF v
<1>2. [v EXCEPT !.cycled = cyc] \in Task /\ [v EXCEPT !.cycled = cyc].id = v.id
  BY <1>1 DEF Task
<1> QED
  BY <1>1, <1>2 DEF v

\* A timer with an id, and one that is cycled, is not a blank slot.
LEMMA NotBlank ==
  ASSUME NEW t \in SlotValue, t.id \in Ids \/ t.cycled
  PROVE  t \in Task
<1>1. Blank.id = 0 /\ Blank.cycled = FALSE
  BY DEF Blank
<1>2. 0 \notin Ids
  BY TimerAssumption
<1> QED
  BY <1>1, <1>2 DEF SlotValue

\* The slot that indexOf finds.
LEMMA IndexFound ==
  ASSUME heaped \in Seq(SlotValue), NEW id, \E i \in DOMAIN heaped : heaped[i].id = id
  PROVE  slotOf(id) \in 1 .. Len(heaped) /\ heaped[slotOf(id)].id = id
<1> DEFINE T == {i \in DOMAIN heaped : heaped[i].id = id}
<1>1. DOMAIN heaped = 1 .. Len(heaped) /\ Len(heaped) \in Nat
  OBVIOUS
<1>2. T \in SUBSET Nat /\ T # {}
  BY <1>1
<1>3. PICK k \in T : \A i \in T : k <= i
  <2> HIDE DEF T
  <2> QED
    BY <1>2, First
<1>4. k \in DOMAIN heaped /\ heaped[k].id = id /\ k \in Nat
  BY <1>1, <1>3
<1>5. \A j \in 1 .. k - 1 : j \in DOMAIN heaped /\ ~ (k <= j)
  BY <1>1, <1>4
<1>6. \A j \in 1 .. k - 1 : heaped[j].id # id
  BY <1>3, <1>5
<1> QED
  BY <1>1, <1>4, <1>6 DEF slotOf

LEMMA RemovedAny ==
  ASSUME heaped \in Seq(SlotValue), NEW i \in 1 .. Len(heaped)
  PROVE  /\ Removed(i) \in Seq(SlotValue) /\ Members(Removed(i)) \subseteq Members(heaped)
         /\ AtMostOne(Members(heaped) \ Members(Removed(i)))
<1> DEFINE w == sunk(heaped, i).s
           n == Len(heaped)
<1>1. Shuffled(w, heaped) /\ n \in Nat \ {0}
  BY SinkShuffles
<1> HIDE DEF w
<1>2. w \in Seq(SlotValue) /\ Len(w) = n /\ Members(w) = Members(heaped)
  BY <1>1 DEF Shuffled
<1>3. Removed(i) = SubSeq(w, 1, n - 1)
  BY DEF w, Removed
<1> HIDE DEF n
<1>4. Shorter(Removed(i), w, n)
  BY <1>1, <1>2, <1>3, LastOff
<1> QED
  BY <1>2, <1>4 DEF AtMostOne, Shorter

\* The array with the timer of slot i changed, before and after it is moved.
OneChanged(q, i) == /\ q \in Seq(SlotValue) /\ Len(q) = Len(heaped)
                    /\ q[i] \in Task /\ q[i].id = heaped[i].id
                    /\ \A j \in 1 .. Len(heaped) : j # i => q[j] = heaped[j]
                    /\ Shuffled(moveDown(q, i), q) /\ Shuffled(moveUp(q, i), q)

LEMMA ChangedAny ==
  ASSUME HeapInv, NEW i \in 1 .. Len(heaped), NEW d \in Durations, NEW cyc \in BOOLEAN,
         heaped[i].id \in Ids, NEW q, q = Changed(i, d, cyc)
  PROVE  /\ OneChanged(q, i)
         /\ q[i] = [HeapQueue!setExpiredTime(heaped[i], d) EXCEPT !.cycled = cyc]
<1> DEFINE t == [HeapQueue!setExpiredTime(heaped[i], d) EXCEPT !.cycled = cyc]
<1>1. heaped \in Seq(SlotValue) /\ clock \in Nat /\ heaped[i] \in SlotValue
  BY DEF HeapInv
<1>2. t \in Task /\ t.id = heaped[i].id
  BY <1>1, NotBlank, Retimed
<1>3. q = [heaped EXCEPT ![i] = t]
  BY DEF Changed
<1> HIDE DEF t
<1>4. t \in SlotValue
  BY <1>2 DEF SlotValue
<1>5. /\ q \in Seq(SlotValue) /\ Len(q) = Len(heaped) /\ q[i] = t
      /\ \A j \in 1 .. Len(heaped) : j # i => q[j] = heaped[j]
  BY <1>1, <1>3, <1>4
<1>6. Shuffled(moveDown(q, i), q) /\ Shuffled(moveUp(q, i), q)
  BY <1>5, DownShuffles, UpShuffles
<1>7. OneChanged(q, i)
  BY <1>2, <1>5, <1>6 DEF OneChanged
<1> QED
  BY <1>5, <1>7 DEF t

\* What is lost and what is new after a step.
OneAtMost == AtMostOne(HeapTimers \ HeapTimers') /\ AtMostOne(HeapTimers' \ HeapTimers)

LEMMA HeapStepAny ==
  ASSUME HeapInv, HeapNext, inside'
  PROVE  HeapInv' /\ OneAtMost
<1> USE DEF HeapInv
<1>1. HeapTimers = Members(heaped) /\ HeapTimers' = Members(heaped')
  BY DEF HeapTimers, Members
<1>2. ASSUME NEW t \in Task, HeapAdd(t)
      PROVE  HeapInv' /\ OneAtMost
  <2>1. heaped' = Added(heaped, t) /\ UNCHANGED <<clock, inside>> /\ t \in SlotValue
    BY <1>2 DEF HeapAdd, SlotValue
  <2>2. heaped' \in Seq(SlotValue) /\ Members(heaped') = Members(heaped) \cup {t}
    BY <2>1, AddedAny
  <2> QED
    BY <1>1, <2>1, <2>2 DEF OneAtMost, AtMostOne
<1>3. ASSUME NEW id \in Ids, HeapRemove(id)
      PROVE  HeapInv' /\ OneAtMost
  <2>1. slotOf(id) \in 1 .. Len(heaped) /\ heaped' = Removed(slotOf(id)) /\ UNCHANGED <<clock, inside>>
    BY <1>3, IndexFound DEF HeapRemove
  <2>2. /\ heaped' \in Seq(SlotValue) /\ Members(heaped') \subseteq Members(heaped)
        /\ AtMostOne(Members(heaped) \ Members(heaped'))
    BY <2>1, RemovedAny
  <2> QED
    BY <1>1, <2>1, <2>2 DEF OneAtMost, AtMostOne
<1>4. ASSUME NEW id \in Ids, NEW d \in Durations, NEW cyc \in BOOLEAN, HeapModify(id, d, cyc)
      PROVE  HeapInv' /\ OneAtMost
  <2>0. PICK i, q : i = slotOf(id) /\ q = Changed(i, d, cyc)
    OBVIOUS
  <2>1. /\ i \in 1 .. Len(heaped) /\ heaped[i].id \in Ids
        /\ (heaped' = moveDown(q, i) \/ heaped' = moveUp(q, i)) /\ UNCHANGED <<clock, inside>>
    BY <1>4, <2>0, IndexFound DEF HeapModify
  <2>2. OneChanged(q, i)
    BY <2>0, <2>1, ChangedAny
  <2>3. heaped' \in Seq(SlotValue) /\ Members(heaped') = Members(q)
    BY <2>1, <2>2 DEF OneChanged, Shuffled
  <2>4. DOMAIN q = 1 .. Len(heaped) /\ DOMAIN heaped = 1 .. Len(heaped)
    BY <2>2 DEF OneChanged
  <2>5. Members(heaped) \ Members(q) \subseteq {heaped[i]} /\ Members(q) \ Members(heaped) \subseteq {q[i]}
    BY <2>1, <2>2, <2>4 DEF Members, OneChanged
  <2> QED
    BY <1>1, <2>1, <2>3, <2>5 DEF OneAtMost, AtMostOne
<1>5. ASSUME HeapPop
      PROVE  HeapInv' /\ OneAtMost
  <2> DEFINE t == heaped[1]
             left == Removed(slotOf(t.id))
             again == HeapQueue!setExpiredTime(t, t.duration)
  <2>1. /\ heaped # <<>> /\ heaped' = (IF t.cycled THEN Added(left, again) ELSE left)
        /\ UNCHANGED <<clock, inside>>
    BY <1>5 DEF HeapPop
  <2>2. 1 \in DOMAIN heaped /\ t \in SlotValue
    BY <2>1
  <2>3. slotOf(t.id) \in 1 .. Len(heaped)
    BY <2>2, IndexFound
  <2>4. /\ left \in Seq(SlotValue) /\ Members(left) \subseteq Members(heaped)
        /\ AtMostOne(Members(heaped) \ Members(left))
    BY <2>3, RemovedAny
  <2>5. t.cycled => again \in SlotValue
    <3>1. t.cycled => t \in Task
      BY <2>2, NotBlank
    <3>2. t \in Task => t.duration \in Durations
      BY DEF Task
    <3>3. t.cycled => again \in Task
      BY <3>1, <3>2, Retimed
    <3> QED
      BY <3>3 DEF SlotValue
  <2> HIDE DEF t, left, again
  <2>6. CASE t.cycled
    <3>1. heaped' \in Seq(SlotValue) /\ Members(heaped') = Members(left) \cup {again}
      BY <2>1, <2>4, <2>5, <2>6, AddedAny
    <3> QED
      BY <1>1, <2>1, <2>4, <3>1 DEF OneAtMost, AtMostOne
  <2>7. CASE ~ t.cycled
    BY <1>1, <2>1, <2>4, <2>7 DEF OneAtMost, AtMostOne
  <2> QED
    BY <2>6, <2>7
<1>6. ASSUME HeapDiscard
      PROVE  HeapInv' /\ OneAtMost
  <2>1. /\ heaped # <<>> /\ heaped' = Removed(slotOf(heaped[1].id)) /\ UNCHANGED <<clock, inside>>
    BY <1>6 DEF HeapDiscard
  <2>2. slotOf(heaped[1].id) \in 1 .. Len(heaped)
    <3>1. 1 \in DOMAIN heaped
      BY <2>1
    <3> QED
      BY <3>1, IndexFound
  <2>3. /\ heaped' \in Seq(SlotValue) /\ Members(heaped') \subseteq Members(heaped)
        /\ AtMostOne(Members(heaped) \ Members(heaped'))
    BY <2>1, <2>2, RemovedAny
  <2> QED
    BY <1>1, <2>1, <2>3 DEF OneAtMost, AtMostOne
<1>7. CASE HeapTick
  BY <1>1, <1>7 DEF HeapTick, OneAtMost, AtMostOne
<1>8. ASSUME NEW id \in Ids, NEW d \in Durations, NEW cyc \in BOOLEAN, NEW made \in 0 .. clock
      PROVE  [id |-> id, duration |-> d, expired_time |-> made + d, cycled |-> cyc] \in Task
  BY TimerAssumption DEF Task
<1> QED
  BY <1>2, <1>3, <1>4, <1>5, <1>6, <1>7, <1>8 DEF HeapNext

-----------------------------------------------------------------------------
(* TimerTaskHeap: steps of an array in order *)

Heap(s) == s \in Seq(SlotValue) /\ OnceIn(s) /\ HeapOrder(s)

LEMMA OrderIs ==
  ASSUME NEW s \in Seq(SlotValue)
  PROVE  IsHeap(s) <=> Heap(s)
<1>1. ASSUME NEW j \in 2 .. Len(s)
      PROVE  ~ Before(s, j, j \div 2) <=> Due(s, j \div 2) <= Due(s, j)
  <2>1. j \in 1 .. Len(s) /\ j \div 2 \in 1 .. Len(s)
    BY ParentIs
  <2>2. Due(s, j) \in Nat /\ Due(s, j \div 2) \in Nat
    BY <2>1, DueIs
  <2>3. Before(s, j, j \div 2) <=> Due(s, j) < Due(s, j \div 2)
    BY DEF Before, Due
  <2> QED
    BY <2>2, <2>3
<1> QED
  BY <1>1 DEF IsHeap, Heap, OnceIn, HeapOrder

\* The slot of a timer that is in the heap.
LEMMA IndexIs ==
  ASSUME Heap(heaped), NEW i \in DOMAIN heaped
  PROVE  slotOf(heaped[i].id) = i
<1>1. slotOf(heaped[i].id) \in 1 .. Len(heaped) /\ heaped[slotOf(heaped[i].id)].id = heaped[i].id
  BY IndexFound DEF Heap
<1>2. DOMAIN heaped = 1 .. Len(heaped)
  BY DEF Heap
<1> QED
  BY <1>1, <1>2 DEF Heap, OnceIn

\* What remove leaves: all but its timer, in order, or all but the last slot's.
LEMMA TakenOut ==
  ASSUME Heap(heaped), NEW i \in DOMAIN heaped
  PROVE  /\ Removed(i) \in Seq(SlotValue)
         /\ \/ /\ Heap(Removed(i)) /\ Members(Removed(i)) = Members(heaped) \ {heaped[i]}
               /\ \A j \in DOMAIN Removed(i) : Removed(i)[j].id # heaped[i].id
            \/ /\ sunk(heaped, i).slot # Len(heaped)
               /\ Members(Removed(i)) = Members(heaped) \ {heaped[Len(heaped)]}
<1> DEFINE r == Removed(i)
<1>1. heaped \in Seq(SlotValue) /\ OnceIn(heaped) /\ HeapOrder(heaped) /\ i \in 1 .. Len(heaped)
  BY DEF Heap
<1>2. r = SubSeq(sunk(heaped, i).s, 1, Len(heaped) - 1)
  BY DEF Removed
<1> HIDE DEF r
<1>3. CASE sunk(heaped, i).slot = Len(heaped)
  <2>1. /\ r \in Seq(SlotValue) /\ OnceIn(r) /\ HeapOrder(r)
        /\ Members(r) = Members(heaped) \ {heaped[i]}
    BY <1>1, <1>2, <1>3, RemovedIs
  <2>2. \A j \in DOMAIN r : r[j].id # heaped[i].id
    <3> SUFFICES ASSUME NEW j \in DOMAIN r, r[j].id = heaped[i].id
                 PROVE  FALSE
      OBVIOUS
    <3>1. r[j] \in Members(heaped) /\ r[j] # heaped[i]
      BY <2>1 DEF Members
    <3>2. PICK k \in DOMAIN heaped : r[j] = heaped[k]
      BY <3>1 DEF Members
    <3>3. k = i
      BY <1>1, <3>2 DEF OnceIn
    <3> QED
      BY <3>1, <3>2, <3>3
  <2> QED
    BY <2>1, <2>2 DEF r, Heap
<1>4. CASE sunk(heaped, i).slot # Len(heaped)
  <2>1. r \in Seq(SlotValue) /\ Members(r) = Members(heaped) \ {heaped[Len(heaped)]}
    BY <1>1, <1>2, <1>4, SlippedIs
  <2> QED
    BY <1>4, <2>1 DEF r
<1> QED
  BY <1>3, <1>4

\* What an array in order does.
Does == HandsLeast /\ ((HeapQueue!QNext /\ Heap(heaped')) \/ LastGoes \/ TooHigh)

LEMMA HeapAddStep ==
  ASSUME HeapInv, Heap(heaped), inside', NEW t \in Task, HeapAdd(t)
  PROVE  HandsLeast /\ HeapQueue!QAdd(t) /\ Heap(heaped')
<1>1. /\ heaped' = Added(heaped, t) /\ UNCHANGED <<clock, heapHanded>>
      /\ \A i \in DOMAIN heaped : heaped[i].id # t.id
  BY DEF HeapAdd
<1>2. t \in SlotValue
  BY DEF SlotValue
<1>3. Heap(heaped') /\ Members(heaped') = Members(heaped) \cup {t}
  BY <1>1, <1>2, AddedIs DEF Heap
<1>4. HeapTimers' = HeapTimers \cup {t}
  BY <1>3 DEF HeapTimers, Members
<1>5. \A u \in HeapTimers : u.id # t.id
  BY <1>1 DEF HeapTimers
<1> QED
  BY <1>1, <1>3, <1>4, <1>5 DEF HandsLeast, HeapQueue!QAdd

LEMMA HeapRemoveStep ==
  ASSUME HeapInv, Heap(heaped), NEW id \in Ids, HeapRemove(id)
  PROVE  HandsLeast /\ ((HeapQueue!QRemove(id) /\ Heap(heaped')) \/ LastGoes)
<1>1. PICK i \in DOMAIN heaped : heaped[i].id = id
  BY DEF HeapRemove
<1>2. slotOf(id) = i
  BY <1>1, IndexIs
<1>3. heaped' = Removed(i) /\ UNCHANGED <<clock, heapHanded>>
  BY <1>2 DEF HeapRemove
<1>4. HandsLeast
  BY <1>3 DEF HandsLeast
<1>5. CASE Heap(Removed(i)) /\ Members(Removed(i)) = Members(heaped) \ {heaped[i]}
  <2>1. HeapTimers' = HeapTimers \ {heaped[i]}
    BY <1>3, <1>5 DEF HeapTimers, Members
  <2>2. \A u \in HeapTimers : u.id = id <=> u = heaped[i]
    BY <1>1 DEF Heap, OnceIn, HeapTimers
  <2>3. HeapTimers' = {u \in HeapTimers : u.id # id}
    BY <2>1, <2>2
  <2> QED
    BY <1>3, <1>4, <1>5, <2>3 DEF HeapQueue!QRemove
<1>6. CASE /\ sunk(heaped, i).slot # Len(heaped)
           /\ Members(Removed(i)) = Members(heaped) \ {heaped[Len(heaped)]}
  <2>1. HeapTimers' = (HeapTimers \ {heaped[Len(heaped)]}) \cup {}
    BY <1>3, <1>6 DEF HeapTimers, Members
  <2>2. HeapRemove(heaped[i].id)
    BY <1>1
  <2>3. LastGoes
    BY <1>6, <2>1, <2>2 DEF LastGoes
  <2> QED
    BY <1>4, <2>3
<1> QED
  BY <1>5, <1>6, TakenOut

LEMMA HeapModifyStep ==
  ASSUME HeapInv, Heap(heaped), NEW id \in Ids, NEW d \in Durations, NEW cyc \in BOOLEAN,
         HeapModify(id, d, cyc)
  PROVE  HandsLeast /\ ((HeapQueue!QModify(id, d, cyc) /\ Heap(heaped')) \/ TooHigh)
<1> DEFINE New(u) == [HeapQueue!setExpiredTime(u, d) EXCEPT !.cycled = cyc]
<1>1. PICK i \in DOMAIN heaped : heaped[i].id = id
  BY DEF HeapModify
<1>2. slotOf(id) = i
  BY <1>1, IndexIs
<1>3. PICK q : q = Changed(i, d, cyc)
  OBVIOUS
<1> DEFINE down == i = 1 \/ Before(q, i \div 2, i)
<1>4. heaped' = (IF down THEN moveDown(q, i) ELSE moveUp(q, i)) /\ UNCHANGED <<clock, heapHanded>>
  BY <1>2, <1>3 DEF HeapModify
<1>5. /\ heaped \in Seq(SlotValue) /\ DOMAIN heaped = 1 .. Len(heaped) /\ i \in 1 .. Len(heaped)
      /\ HeapOrder(heaped) /\ OnceIn(heaped)
  BY DEF Heap
<1>6. OneChanged(q, i) /\ q[i] = New(heaped[i])
  BY <1>1, <1>3, <1>5, ChangedAny
<1> HIDE DEF New, down
<1>7. /\ q \in Seq(SlotValue) /\ Len(q) = Len(heaped) /\ q[i].id = heaped[i].id
      /\ \A j \in 1 .. Len(heaped) : j # i => q[j] = heaped[j]
      /\ Shuffled(moveDown(q, i), q) /\ Shuffled(moveUp(q, i), q)
  BY <1>6 DEF OneChanged
<1>8. DOMAIN q = DOMAIN heaped
  BY <1>5, <1>7
<1>9. OnceIn(q)
  BY <1>5, <1>7, <1>8 DEF OnceIn
<1>10. Members(heaped') = Members(q)
  BY <1>4, <1>7 DEF Shuffled
<1>11. Members(q) = {IF u.id = id THEN New(u) ELSE u : u \in HeapTimers}
  <2>1. \A j \in DOMAIN heaped : q[j] = IF heaped[j].id = id THEN New(heaped[j]) ELSE heaped[j]
    BY <1>1, <1>5, <1>6, <1>7 DEF OnceIn
  <2>2. Members(q) = {q[j] : j \in DOMAIN heaped}
    BY <1>8 DEF Members
  <2>3. Members(q) = {IF heaped[j].id = id THEN New(heaped[j]) ELSE heaped[j] : j \in DOMAIN heaped}
    BY <2>1, <2>2
  <2> QED
    BY <2>3 DEF HeapTimers
<1>12. HeapTimers' = {IF u.id = id THEN New(u) ELSE u : u \in HeapTimers}
  BY <1>10, <1>11 DEF HeapTimers, Members
<1>13. HandsLeast /\ HeapQueue!QModify(id, d, cyc)
  BY <1>4, <1>12 DEF HandsLeast, HeapQueue!QModify, New
<1>14. CASE down /\ ~ DownOnce(q, i)
  <2>1. TooHigh
    BY <1>2, <1>3, <1>13, <1>14 DEF TooHigh
  <2> QED
    BY <1>13, <2>1
<1>15. CASE down /\ DownOnce(q, i)
  <2>1. HeapOrder(moveDown(q, i))
    BY <1>5, <1>7, <1>9, <1>15, DownIs DEF down
  <2> QED
    BY <1>4, <1>7, <1>9, <1>13, <1>15, <2>1 DEF Shuffled, Heap
<1>16. CASE ~ down
  <2>1. HeapOrder(moveUp(q, i))
    BY <1>5, <1>7, <1>9, <1>16, UpIs DEF down
  <2> QED
    BY <1>4, <1>7, <1>9, <1>13, <1>16, <2>1 DEF Shuffled, Heap
<1> QED
  BY <1>14, <1>15, <1>16

\* The first timer is due first, and where indexOf finds it.
LEMMA FirstIs ==
  ASSUME HeapInv, Heap(heaped), heaped # <<>>
  PROVE  /\ 1 \in DOMAIN heaped /\ heaped[1] \in SlotValue /\ slotOf(heaped[1].id) = 1
         /\ HeapQueue!Least(heaped[1]) /\ heaped[1] \in HeapTimers
<1>1. 1 \in DOMAIN heaped /\ DOMAIN heaped = 1 .. Len(heaped) /\ heaped[1] \in SlotValue
  BY DEF Heap
<1>2. slotOf(heaped[1].id) = 1
  BY <1>1, IndexIs
<1>3. \A j \in DOMAIN heaped : Due(heaped, 1) <= Due(heaped, j)
  BY <1>1, HeapFirstIsLeast DEF Heap
<1>4. heaped[1] \in HeapTimers
  BY <1>1 DEF HeapTimers
<1>5. HeapQueue!Least(heaped[1])
  BY <1>3, <1>4 DEF HeapQueue!Least, HeapTimers, Due
<1> QED
  BY <1>1, <1>2, <1>4, <1>5

LEMMA HeapPopStep ==
  ASSUME HeapInv, Heap(heaped), HeapPop
  PROVE  HandsLeast /\ ((HeapQueue!QPop /\ Heap(heaped')) \/ LastGoes)
<1>0. PICK t : t = heaped[1]
  OBVIOUS
<1> DEFINE left == Removed(1)
           again == HeapQueue!setExpiredTime(t, t.duration)
<1>1. heaped # <<>>
  BY DEF HeapPop
<1>2. 1 \in DOMAIN heaped /\ t \in SlotValue /\ slotOf(t.id) = 1 /\ HeapQueue!Least(t) /\ t \in HeapTimers
  BY <1>0, <1>1, FirstIs
<1>3. /\ heapHanded' = (IF t.cycled THEN again ELSE t)
      /\ heaped' = (IF t.cycled THEN Added(left, again) ELSE left)
      /\ clock' = clock
  BY <1>0, <1>2 DEF HeapPop
<1>4. HandsLeast
  BY <1>2, <1>3 DEF HandsLeast
<1>5. t.cycled => again \in SlotValue /\ again.id = t.id
  <2>1. t.cycled => t \in Task
    BY <1>2, NotBlank
  <2>2. t \in Task => t.duration \in Durations
    BY DEF Task
  <2>3. t.cycled => again \in Task /\ again.id = t.id
    BY <2>1, <2>2, Retimed DEF HeapInv
  <2> QED
    BY <2>3 DEF SlotValue
<1>6. heapHanded' = IF t.cycled THEN HeapQueue!setExpiredTime(t, t.duration) ELSE t
  BY <1>3
<1> HIDE DEF left, again
<1>7. left \in Seq(SlotValue)
  BY <1>2, TakenOut DEF left
<1>8. CASE /\ Heap(left) /\ Members(left) = Members(heaped) \ {t}
           /\ \A j \in DOMAIN left : left[j].id # t.id
  <2>1. CASE t.cycled
    <3>1. Heap(heaped') /\ Members(heaped') = (Members(heaped) \ {t}) \cup {again}
      BY <1>3, <1>5, <1>8, <2>1, AddedIs DEF Heap
    <3>2. HeapTimers' = (HeapTimers \ {t}) \cup (IF t.cycled THEN {heapHanded'} ELSE {})
      BY <1>3, <2>1, <3>1 DEF HeapTimers, Members
    <3> QED
      BY <1>2, <1>3, <1>4, <1>6, <3>1, <3>2 DEF HeapQueue!QPop
  <2>2. CASE ~ t.cycled
    <3>1. HeapTimers' = (HeapTimers \ {t}) \cup (IF t.cycled THEN {heapHanded'} ELSE {})
      BY <1>3, <1>8, <2>2 DEF HeapTimers, Members
    <3> QED
      BY <1>2, <1>3, <1>4, <1>6, <1>8, <2>2, <3>1 DEF HeapQueue!QPop
  <2> QED
    BY <2>1, <2>2
<1>9. CASE /\ sunk(heaped, 1).slot # Len(heaped)
           /\ Members(left) = Members(heaped) \ {heaped[Len(heaped)]}
  <2>1. \E more \in {{}, {heapHanded'}} : HeapTimers' = (HeapTimers \ {heaped[Len(heaped)]}) \cup more
    <3>1. CASE t.cycled
      <4>1. Members(heaped') = Members(left) \cup {again} /\ heapHanded' = again
        BY <1>3, <1>5, <1>7, <3>1, AddedAny
      <4>2. HeapTimers' = (HeapTimers \ {heaped[Len(heaped)]}) \cup {heapHanded'}
        BY <1>9, <4>1 DEF HeapTimers, Members
      <4> QED
        BY <4>2
    <3>2. CASE ~ t.cycled
      <4>1. HeapTimers' = (HeapTimers \ {heaped[Len(heaped)]}) \cup {}
        BY <1>3, <1>9, <3>2 DEF HeapTimers, Members
      <4> QED
        BY <4>1
    <3> QED
      BY <3>1, <3>2
  <2>2. LastGoes
    BY <1>2, <1>9, <2>1 DEF LastGoes
  <2> QED
    BY <1>4, <2>2
<1> QED
  BY <1>0, <1>2, <1>8, <1>9, TakenOut DEF left

LEMMA HeapDiscardStep ==
  ASSUME HeapInv, Heap(heaped), HeapDiscard
  PROVE  HandsLeast /\ ((HeapQueue!QDiscard /\ Heap(heaped')) \/ LastGoes)
<1>1. heaped # <<>>
  BY DEF HeapDiscard
<1>2. /\ 1 \in DOMAIN heaped /\ slotOf(heaped[1].id) = 1
      /\ HeapQueue!Least(heaped[1]) /\ heaped[1] \in HeapTimers
  BY <1>1, FirstIs
<1>3. heaped' = Removed(1) /\ UNCHANGED <<clock, heapHanded>>
  BY <1>2 DEF HeapDiscard
<1>4. HandsLeast
  BY <1>3 DEF HandsLeast
<1>5. CASE Heap(Removed(1)) /\ Members(Removed(1)) = Members(heaped) \ {heaped[1]}
  <2>1. HeapTimers' = HeapTimers \ {heaped[1]}
    BY <1>3, <1>5 DEF HeapTimers, Members
  <2> QED
    BY <1>2, <1>3, <1>4, <1>5, <2>1 DEF HeapQueue!QDiscard
<1>6. CASE /\ sunk(heaped, 1).slot # Len(heaped)
           /\ Members(Removed(1)) = Members(heaped) \ {heaped[Len(heaped)]}
  <2>1. HeapTimers' = (HeapTimers \ {heaped[Len(heaped)]}) \cup {}
    BY <1>3, <1>6 DEF HeapTimers, Members
  <2>2. LastGoes
    BY <1>2, <1>6, <2>1 DEF LastGoes
  <2> QED
    BY <1>4, <2>2
<1> QED
  BY <1>2, <1>5, <1>6, TakenOut

LEMMA HeapStepInOrder ==
  ASSUME HeapInv, HeapNext, inside', Heap(heaped)
  PROVE  Does
<1>1. ASSUME NEW id \in Ids, NEW d \in Durations, NEW cyc \in BOOLEAN, NEW made \in 0 .. clock,
             HeapAdd([id |-> id, duration |-> d, expired_time |-> made + d, cycled |-> cyc])
      PROVE  Does
  <2>1. [id |-> id, duration |-> d, expired_time |-> made + d, cycled |-> cyc] \in Task
    BY TimerAssumption DEF Task, HeapInv
  <2> QED
    BY <1>1, <2>1, HeapAddStep DEF Does, HeapQueue!QNext
<1>2. ASSUME NEW id \in Ids, HeapRemove(id)
      PROVE  Does
  BY <1>2, HeapRemoveStep DEF Does, HeapQueue!QNext
<1>3. ASSUME NEW id \in Ids, NEW d \in Durations, NEW cyc \in BOOLEAN, HeapModify(id, d, cyc)
      PROVE  Does
  BY <1>3, HeapModifyStep DEF Does, HeapQueue!QNext
<1>4. CASE HeapPop
  BY <1>4, HeapPopStep DEF Does, HeapQueue!QNext
<1>5. CASE HeapDiscard
  BY <1>5, HeapDiscardStep DEF Does, HeapQueue!QNext
<1>6. CASE HeapTick
  <2>1. HeapQueue!QTick /\ heaped' = heaped /\ heapHanded' = heapHanded
    BY <1>6 DEF HeapTick, HeapQueue!QTick, HeapTimers
  <2> QED
    BY <2>1 DEF Does, HandsLeast, Heap, OnceIn, HeapOrder, Due, HeapQueue!QNext
<1> QED
  BY <1>1, <1>2, <1>3, <1>4, <1>5, <1>6 DEF HeapNext

\* Nothing is said of an array after size_ has gone past its end.
LEMMA HeapInvStep ==
  ASSUME HeapInv, [HeapNext]_heapVars
  PROVE  HeapInv'
<1>1. CASE HeapNext /\ inside'
  BY <1>1, HeapStepAny
<1>2. CASE HeapNext /\ ~ inside'
  <2> DEFINE Kept == inside' \in BOOLEAN /\ clock' \in Nat /\ heaped' = heaped
  <2>1. ASSUME NEW t, HeapAdd(t) PROVE Kept
    BY <1>2, <2>1 DEF HeapAdd, HeapInv
  <2>2. ASSUME NEW id, HeapRemove(id) PROVE Kept
    BY <1>2, <2>2 DEF HeapRemove, HeapInv
  <2>3. ASSUME NEW id, NEW d, NEW cyc, HeapModify(id, d, cyc) PROVE Kept
    BY <1>2, <2>3 DEF HeapModify, HeapInv
  <2>4. HeapPop \/ HeapDiscard => Kept
    BY <1>2 DEF HeapPop, HeapDiscard, HeapInv
  <2>5. HeapTick => Kept
    BY <1>2 DEF HeapTick, HeapInv
  <2>6. Kept
    BY <1>2, <2>1, <2>2, <2>3, <2>4, <2>5 DEF HeapNext
  <2> QED
    BY <2>6 DEF HeapInv
<1>3. CASE UNCHANGED heapVars
  BY <1>3 DEF heapVars, HeapInv
<1> QED
  BY <1>1, <1>2, <1>3

\* Whatever size_ starts with and whatever has happened to the array, a step of
\* TimerTaskHeap loses one timer and brings in one at most, as long as size_ is
\* within the array; and from an array in order it is a step of the queue of
\* timers that keeps it in order, but for the removals that take the last slot's
\* timer and the changes that leave a timer too high (Timer.cpp:12-139).
THEOREM HeapKeeps == HeapSpec => HeapKeepsTimers
<1>1. HeapInit => HeapInv
  <2>1. \A n \in 0 .. HeapCapacity : [i \in 1 .. n |-> Blank] \in Seq(SlotValue)
    BY DEF SlotValue
  <2>2. HeapInit => clock = 0 /\ inside \in BOOLEAN
    BY DEF HeapInit
  <2>3. HeapInit => heaped = <<>> \/ \E n \in 0 .. HeapCapacity : heaped = [i \in 1 .. n |-> Blank]
    BY DEF HeapInit
  <2>4. HeapInit => heaped \in Seq(SlotValue)
    <3>1. <<>> \in Seq(SlotValue)
      OBVIOUS
    <3> HIDE DEF HeapInit
    <3> QED
      BY <2>1, <2>3, <3>1
  <2> QED
    BY <2>2, <2>4 DEF HeapInv
<1>2. HeapInv /\ [HeapNext]_heapVars => HeapInv'
  BY HeapInvStep
<1>3. HeapInv /\ [HeapNext]_heapVars =>
        [inside' =>
           /\ AtMostOne(HeapTimers \ HeapTimers') /\ AtMostOne(HeapTimers' \ HeapTimers)
           /\ IsHeap(heaped) =>
                /\ HandsLeast
                /\ (HeapQueue!QNext /\ IsHeap(heaped')) \/ LastGoes \/ TooHigh]_heapVars
  <2> SUFFICES ASSUME HeapInv, HeapNext, inside'
               PROVE  /\ AtMostOne(HeapTimers \ HeapTimers') /\ AtMostOne(HeapTimers' \ HeapTimers)
                      /\ IsHeap(heaped) =>
                           /\ HandsLeast
                           /\ (HeapQueue!QNext /\ IsHeap(heaped')) \/ LastGoes \/ TooHigh
    OBVIOUS
  <2>1. HeapInv' /\ OneAtMost
    BY HeapStepAny
  <2>2. (IsHeap(heaped) <=> Heap(heaped)) /\ (IsHeap(heaped') <=> Heap(heaped'))
    BY <2>1, OrderIs DEF HeapInv
  <2>3. Heap(heaped) => Does
    BY HeapStepInOrder
  <2> QED
    BY <2>1, <2>2, <2>3 DEF OneAtMost, Does
<1> QED
  BY <1>1, <1>2, <1>3, PTL DEF HeapSpec, HeapKeepsTimers
=============================================================================
