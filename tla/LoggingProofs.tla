---------------------------- MODULE LoggingProofs ----------------------------
(***************************************************************************)
(* The file appender and the loggers, for any number of threads and calls. *)
(*                                                                         *)
(* FileLogAppender.  lastAccessTime_ is a hint that is read and set        *)
(* without the mutex, so the argument never uses how it was computed: no   *)
(* matter which thread set it, its day has been reopened by then.          *)
(*                                                                         *)
(* The loggers.  What a thread has to do is a list of steps, so the        *)
(* invariant is about that list: which mutexes it will release, for which  *)
(* event, and which writes are still to come.  While a logger's mutex is   *)
(* held nobody else changes its list of appenders or writes for it.        *)
(***************************************************************************)
EXTENDS MCLogging, FiniteSetTheorems, TLAPS

-----------------------------------------------------------------------------
(* FileLogAppender *)

\* A later time is not of an earlier day.
LEMMA DaysInOrder ==
  ASSUME NEW m \in Nat, NEW n \in Nat, m <= n
  PROVE  DayOf(m) \in Nat /\ DayOf(n) \in Nat /\ DayOf(m) <= DayOf(n)
<1>1. DayLength \in Nat \ {0}
  BY AppenderAssumption
<1>2. m \div DayLength <= n \div DayLength
  BY <1>1
<1>3. m \div DayLength \in Nat /\ n \div DayLength \in Nat
  BY <1>1
<1> QED
  BY <1>2, <1>3 DEF DayOf

\* The file was begun no later than the day the appender believes in, and on
\* that day unless the stream is bad.
FileOfToday == /\ today_ <= Today
               /\ file # NoFile => file.day <= today_
               /\ good => file # NoFile /\ file.day = today_

\* A thread's event is not younger than the clock, and what lets it write
\* without reopening is a reopening on the event's day.
Reopened ==
  /\ 3 <= clock /\ lastAccessTime_ <= clock
  /\ today_ >= DayOf(lastAccessTime_)
  /\ \A t \in Writers :
       /\ now[t] <= clock
       /\ at[t] # "idle" => now[t] >= 3
       /\ at[t] = "stamp" => today_ >= DayOf(now[t])
       /\ at[t] = "write" => today_ >= DayOf(now[t] - 2)

\* The threads that may still count a line.
Busy == {t \in Writers : at[t] # "idle"}

\* The number of the file does not run ahead of the events.
Numbers == /\ IsFiniteSet(Busy)
           /\ cnt_ + Cardinality(Busy) <= events
           /\ (file # NoFile /\ file.day = today_) => file.cnt <= cnt_

FlaInv == FlaTypeOK /\ FileOfToday /\ Reopened /\ (MaxLogged < CntSize => Numbers)

LEMMA FlaInitInv == FlaInit => FlaInv
<1> SUFFICES ASSUME FlaInit
             PROVE  FlaInv
  OBVIOUS
<1>1. /\ DayOf(0) \in Nat /\ DayOf(3) \in Nat /\ DayOf(0) <= DayOf(3)
      /\ DayOf(MaxClock) \in Nat /\ DayOf(3) <= DayOf(MaxClock)
  <2>1. 0 \in Nat /\ 3 \in Nat /\ MaxClock \in Nat /\ 0 <= 3 /\ 3 <= MaxClock
    BY AppenderAssumption
  <2>2. DayOf(0) \in Nat /\ DayOf(3) \in Nat /\ DayOf(0) <= DayOf(3)
    BY <2>1, DaysInOrder
  <2>3. DayOf(MaxClock) \in Nat /\ DayOf(3) <= DayOf(MaxClock)
    BY <2>1, DaysInOrder
  <2> QED
    BY <2>2, <2>3
<1>2. Today = DayOf(3)
  BY DEF FlaInit, Today
<1> HIDE DEF Today
<1>3. FlaTypeOK
  <2>1. /\ kMaxLines \in Nat \ {0} /\ CntSize \in Nat \ {0} /\ MaxClock \in Nat
        /\ 3 <= MaxClock /\ MaxLogged \in Nat
    BY AppenderAssumption
  <2>2. Today \in 0 .. DayOf(MaxClock)
    BY <1>1, <1>2
  <2>3. file \in File \cup {NoFile} /\ good \in BOOLEAN
    <3>1. 0 \in 0 .. CntSize - 1
      BY <2>1
    <3>2. [day |-> Today, cnt |-> 0] \in File
      BY <2>2, <3>1 DEF File
    <3> QED
      BY <3>2 DEF FlaInit
  <2> QED
    BY <2>1, <2>2, <2>3 DEF FlaInit, FlaTypeOK
<1>4. FileOfToday
  BY <1>1, <1>2 DEF FlaInit, FileOfToday, NoFile
<1>5. Reopened
  BY <1>1, <1>2 DEF FlaInit, Reopened
<1>6. Numbers
  <2>1. Busy = {}
    BY DEF FlaInit, Busy
  <2>2. IsFiniteSet(Busy) /\ Cardinality(Busy) = 0
    BY <2>1, FS_EmptySet
  <2> QED
    BY <1>2, <2>2 DEF FlaInit, Numbers, NoFile
<1> QED
  BY <1>3, <1>4, <1>5, <1>6 DEF FlaInv

\* The types, as numbers.
LEMMA FlaNumbers ==
  ASSUME FlaTypeOK
  PROVE  /\ clock \in Nat /\ today_ \in Nat /\ cnt_ \in Nat /\ lines_ \in Nat
         /\ lastAccessTime_ \in Nat /\ events \in Nat /\ Today \in Nat
         /\ file.day \in Int /\ file.cnt \in Int /\ (file # NoFile => file \in File)
         /\ \A t \in Writers : now[t] \in Nat /\ DayOf(now[t]) \in Nat
<1>1. /\ kMaxLines \in Nat /\ CntSize \in Nat /\ MaxClock \in Nat /\ MaxLogged \in Nat
  BY AppenderAssumption
<1>2. /\ clock \in Nat /\ cnt_ \in Nat /\ lines_ \in Nat /\ lastAccessTime_ \in Nat
      /\ events \in Nat /\ \A t \in Writers : now[t] \in Nat
  BY <1>1 DEF FlaTypeOK
<1>3. /\ DayOf(MaxClock) \in Nat /\ DayOf(clock) \in Nat
      /\ \A t \in Writers : DayOf(now[t]) \in Nat
  BY <1>1, <1>2, DaysInOrder
<1>4. today_ \in Nat /\ Today \in Nat
  BY <1>3 DEF FlaTypeOK, Today
<1>5. file.day \in Int /\ file.cnt \in Int /\ (file # NoFile => file \in File)
  <2>1. CASE file = NoFile
    BY <2>1 DEF NoFile
  <2>2. CASE file \in File
    BY <1>1, <1>3, <2>2 DEF File
  <2> QED
    BY <2>1, <2>2 DEF FlaTypeOK
<1> QED
  BY <1>2, <1>3, <1>4, <1>5

\* One more clock reading.
LEMMA ClockTickInv ==
  ASSUME FlaInv, ClockTick
  PROVE  FlaInv'
<1>1. /\ clock \in Nat /\ clock' = clock + 1 /\ clock' \in 0 .. MaxClock
      /\ UNCHANGED <<today_, cnt_, lines_, lastAccessTime_, file, good, at, now, returned,
                     events>>
  BY AppenderAssumption DEF ClockTick, FlaInv, FlaTypeOK
<1>2. Today \in Nat /\ Today' \in Nat /\ Today <= Today'
  <2>1. DayOf(clock) \in Nat /\ DayOf(clock + 1) \in Nat /\ DayOf(clock) <= DayOf(clock + 1)
    <3>1. clock \in Nat /\ clock + 1 \in Nat /\ clock <= clock + 1
      BY <1>1
    <3> QED
      BY <3>1, DaysInOrder
  <2> QED
    BY <1>1, <2>1 DEF Today, DayOf
<1>3. FlaTypeOK'
  BY <1>1 DEF FlaInv, FlaTypeOK, File, DayOf
<1>4. FileOfToday'
  <2>1. today_ \in Nat
    BY DaysInOrder, AppenderAssumption DEF FlaInv, FlaTypeOK
  <2> QED
    BY <1>1, <1>2, <2>1 DEF FlaInv, FileOfToday, NoFile
<1>5. Reopened'
  BY <1>1 DEF FlaInv, FlaTypeOK, Reopened, DayOf
<1>6. MaxLogged < CntSize => Numbers'
  BY <1>1 DEF FlaInv, Numbers, Busy, NoFile
<1> QED
  BY <1>3, <1>4, <1>5, <1>6 DEF FlaInv

\* An event is given the time, and its thread becomes busy.
LEMMA LogInv ==
  ASSUME FlaInv, NEW t \in Writers, Log(t)
  PROVE  FlaInv'
<1>1. /\ at[t] = "idle" /\ events < MaxLogged /\ events' = events + 1
      /\ at' = [at EXCEPT ![t] = "check"] /\ now' = [now EXCEPT ![t] = clock]
      /\ UNCHANGED <<clock, today_, cnt_, lines_, lastAccessTime_, file, good, returned>>
  BY DEF Log
<1>2. FlaTypeOK /\ FileOfToday /\ Reopened
  BY DEF FlaInv
<1>3. /\ clock \in Nat /\ events \in Nat /\ cnt_ \in Nat /\ today_ \in Nat
      /\ \A u \in Writers : now[u] \in Nat
  BY <1>2, FlaNumbers
<1>4. FlaTypeOK'
  BY <1>1, <1>2, <1>3, AppenderAssumption DEF FlaTypeOK, File, DayOf
<1>5. FileOfToday'
  BY <1>1, <1>2 DEF FileOfToday, Today, DayOf, NoFile
<1>6. Reopened'
  BY <1>1, <1>2, <1>3 DEF Reopened, DayOf, FlaTypeOK
<1>7. MaxLogged < CntSize => Numbers'
  <2> SUFFICES ASSUME MaxLogged < CntSize
               PROVE  Numbers'
    OBVIOUS
  <2>1. Busy' = Busy \cup {t} /\ t \notin Busy
    BY <1>1, <1>2 DEF Busy, FlaTypeOK
  <2>2. IsFiniteSet(Busy) /\ cnt_ + Cardinality(Busy) <= events
    BY DEF FlaInv, Numbers
  <2>3. Cardinality(Busy) \in Nat
    BY <2>2, FS_CardinalityType
  <2>4. IsFiniteSet(Busy') /\ Cardinality(Busy') = Cardinality(Busy) + 1
    BY <2>1, <2>2, FS_AddElement
  <2>5. cnt_' + Cardinality(Busy') <= events'
    BY <1>1, <1>3, <2>2, <2>3, <2>4
  <2>6. (file' # NoFile' /\ file'.day = today_') => file'.cnt <= cnt_'
    BY <1>1 DEF FlaInv, Numbers, NoFile
  <2> QED
    BY <2>4, <2>5, <2>6 DEF Numbers
<1> QED
  BY <1>4, <1>5, <1>6, <1>7 DEF FlaInv

\* A thread that goes on within log() has made no room for another number.
LEMMA SameBusy ==
  ASSUME FlaTypeOK, NEW t \in Writers, NEW s, at[t] # "idle", s # "idle",
         at' = [at EXCEPT ![t] = s]
  PROVE  Busy' = Busy
BY DEF Busy, FlaTypeOK

\* Whoever goes on to write finds that somebody reopened the file less than
\* three readings before its event.
LEMMA CheckInv ==
  ASSUME FlaInv, NEW t \in Writers, Check(t)
  PROVE  FlaInv'
<1> DEFINE late == now[t] >= lastAccessTime_ + 3
           next == IF late THEN "reopen" ELSE "write"
<1>1. /\ at[t] = "check" /\ at' = [at EXCEPT ![t] = next]
      /\ UNCHANGED <<clock, today_, cnt_, lines_, lastAccessTime_, file, good, now, returned,
                     events>>
  BY DEF Check
<1>2. FlaTypeOK /\ FileOfToday /\ Reopened
  BY DEF FlaInv
<1>3. /\ clock \in Nat /\ today_ \in Nat /\ lastAccessTime_ \in Nat
      /\ now[t] \in Nat /\ 3 <= now[t]
  BY <1>1, <1>2, FlaNumbers DEF Reopened
<1>4. FlaTypeOK'
  BY <1>1, <1>2 DEF FlaTypeOK, File, DayOf
<1>5. FileOfToday'
  BY <1>1, <1>2 DEF FileOfToday, Today, DayOf, NoFile
<1>6. Reopened'
  <2>1. ~late => today_ >= DayOf(now[t] - 2)
    <3> SUFFICES ASSUME ~late
                 PROVE  today_ >= DayOf(now[t] - 2)
      OBVIOUS
    <3>1. now[t] - 2 \in Nat /\ now[t] - 2 <= lastAccessTime_
      BY <1>3
    <3>2. DayOf(now[t] - 2) \in Nat /\ DayOf(lastAccessTime_) \in Nat
          /\ DayOf(now[t] - 2) <= DayOf(lastAccessTime_)
      BY <1>3, <3>1, DaysInOrder
    <3> QED
      BY <1>2, <1>3, <3>2 DEF Reopened
  <2> HIDE DEF late
  <2>2. at'[t] = next /\ \A u \in Writers \ {t} : at'[u] = at[u]
    BY <1>1, <1>2 DEF FlaTypeOK
  <2>3. next \in {"reopen", "write"} /\ (next = "write" => ~late)
    OBVIOUS
  <2> HIDE DEF next
  <2>4. (3 <= clock /\ lastAccessTime_ <= clock /\ today_ >= DayOf(lastAccessTime_))'
    BY <1>1, <1>2 DEF Reopened, DayOf
  <2>5. ASSUME NEW u \in Writers
        PROVE  (/\ now[u] <= clock
                /\ at[u] # "idle" => now[u] >= 3
                /\ at[u] = "stamp" => today_ >= DayOf(now[u])
                /\ at[u] = "write" => today_ >= DayOf(now[u] - 2))'
    <3>1. CASE u = t
      BY <1>1, <1>2, <1>3, <2>1, <2>2, <2>3, <3>1 DEF Reopened, DayOf
    <3>2. CASE u # t
      BY <1>1, <1>2, <2>2, <3>2 DEF Reopened, DayOf
    <3> QED
      BY <3>1, <3>2
  <2> QED
    BY <2>4, <2>5 DEF Reopened
<1>7. MaxLogged < CntSize => Numbers'
  <2>1. Busy' = Busy
    BY <1>1, <1>2, SameBusy
  <2> QED
    BY <1>1, <2>1 DEF FlaInv, Numbers, NoFile
<1> QED
  BY <1>4, <1>5, <1>6, <1>7 DEF FlaInv

\* The file of today is opened, or none, or a bad stream keeps its file.
LEMMA ReopenInv ==
  ASSUME FlaInv, NEW t \in Writers, reopen(t)
  PROVE  FlaInv' /\ (file # NoFile /\ file' # NoFile /\ MaxLogged < CntSize => Later(file', file))
<1> DEFINE new == [day |-> Today, cnt |-> cnt_']
<1>1. /\ at[t] = "reopen" /\ at' = [at EXCEPT ![t] = "stamp"]
      /\ today_' = Today /\ cnt_' = NextCnt
      /\ \/ file' = file /\ good' = good /\ ~good
         \/ file' = new /\ good' = TRUE
         \/ file' = NoFile /\ good' = FALSE
      /\ returned' = [returned EXCEPT ![t] = file' # NoFile]
      /\ UNCHANGED <<clock, lines_, lastAccessTime_, now, events>>
  BY DEF reopen
<1>2. FlaTypeOK /\ FileOfToday /\ Reopened
  BY DEF FlaInv
<1>3. /\ clock \in Nat /\ today_ \in Nat /\ cnt_ \in Nat /\ Today \in Nat /\ events \in Nat
      /\ lastAccessTime_ \in Nat
      /\ file.day \in Int /\ file.cnt \in Int /\ \A u \in Writers : now[u] \in Nat
  BY <1>2, FlaNumbers
<1>4. cnt_' \in 0 .. CntSize - 1 /\ cnt_' <= cnt_ /\ (cnt_' = cnt_ \/ Today # today_)
  BY <1>1, <1>2, <1>3, AppenderAssumption DEF NextCnt, FlaTypeOK
<1>5. Today \in 0 .. DayOf(MaxClock)
  <2>1. clock \in Nat /\ MaxClock \in Nat /\ clock <= MaxClock
    BY <1>2, AppenderAssumption DEF FlaTypeOK
  <2>2. DayOf(clock) \in Nat /\ DayOf(MaxClock) \in Nat /\ DayOf(clock) <= DayOf(MaxClock)
    BY <2>1, DaysInOrder
  <2> QED
    BY <2>2 DEF Today
<1>6. Today' = Today
  BY <1>1 DEF Today, DayOf
<1>7. new \in File /\ new.day = Today /\ new.cnt = cnt_' /\ new # NoFile
  BY <1>3, <1>4, <1>5 DEF File, NoFile
<1> HIDE DEF new
<1>8. FlaTypeOK'
  <2>1. file' \in File \cup {NoFile} /\ good' \in BOOLEAN
    BY <1>1, <1>2, <1>7 DEF FlaTypeOK
  <2>2. (file' # NoFile) \in BOOLEAN
    OBVIOUS
  <2>3. /\ at' \in [Writers -> {"idle", "check", "reopen", "stamp", "write"}]
        /\ returned' \in [Writers -> BOOLEAN]
    BY <1>1, <1>2, <2>2 DEF FlaTypeOK
  <2> QED
    BY <1>1, <1>2, <1>4, <1>5, <2>1, <2>3 DEF FlaTypeOK, File, DayOf, NoFile
<1>9. FileOfToday'
  <2>1. file' # NoFile => file'.day <= Today
    BY <1>1, <1>2, <1>3, <1>7 DEF FileOfToday
  <2>2. good' => file' # NoFile /\ file'.day = Today
    BY <1>1, <1>2, <1>7
  <2> QED
    BY <1>1, <1>3, <1>6, <2>1, <2>2 DEF FileOfToday, NoFile
<1>10. Reopened'
  <2>1. \A u \in Writers : DayOf(now[u]) \in Nat /\ DayOf(now[u]) <= Today
    BY <1>2, <1>3, DaysInOrder DEF Reopened, Today
  <2>2. DayOf(lastAccessTime_) \in Nat /\ today_ <= Today
    BY <1>2, <1>3, DaysInOrder DEF FileOfToday
  <2>3. (3 <= clock /\ lastAccessTime_ <= clock /\ today_ >= DayOf(lastAccessTime_))'
    BY <1>1, <1>2, <1>3, <2>2 DEF Reopened, DayOf
  <2>4. at'[t] = "stamp" /\ \A u \in Writers \ {t} : at'[u] = at[u]
    BY <1>1, <1>2 DEF FlaTypeOK
  <2>5. ASSUME NEW u \in Writers
        PROVE  (/\ now[u] <= clock
                /\ at[u] # "idle" => now[u] >= 3
                /\ at[u] = "stamp" => today_ >= DayOf(now[u])
                /\ at[u] = "write" => today_ >= DayOf(now[u] - 2))'
    <3>1. (now[u] <= clock /\ (at[u] # "idle" => now[u] >= 3))'
      BY <1>1, <1>2, <2>4 DEF Reopened
    <3>2. at'[u] = "stamp" => today_' >= DayOf(now'[u])
      BY <1>1, <1>3, <2>1 DEF DayOf
    <3>3. at'[u] = "write" => today_' >= DayOf(now'[u] - 2)
      <4> SUFFICES ASSUME at'[u] = "write"
                   PROVE  today_' >= DayOf(now'[u] - 2)
        OBVIOUS
      <4>1. u # t /\ at[u] = "write"
        BY <2>4
      <4>2. today_ >= DayOf(now[u] - 2) /\ now[u] - 2 \in Nat
        BY <1>2, <1>3, <4>1 DEF Reopened
      <4>3. DayOf(now[u] - 2) \in Nat
        BY <4>2, DaysInOrder
      <4> QED
        BY <1>1, <1>3, <2>2, <4>2, <4>3 DEF DayOf
    <3> QED
      BY <3>1, <3>2, <3>3 DEF DayOf
  <2> QED
    BY <2>3, <2>5 DEF Reopened
<1>11. MaxLogged < CntSize => Numbers' /\ (file # NoFile /\ file' # NoFile => Later(file', file))
  <2> SUFFICES ASSUME MaxLogged < CntSize
               PROVE  Numbers' /\ (file # NoFile /\ file' # NoFile => Later(file', file))
    OBVIOUS
  <2>1. Busy' = Busy
    BY <1>1, <1>2, SameBusy
  <2>2. /\ IsFiniteSet(Busy) /\ cnt_ + Cardinality(Busy) <= events
        /\ (file # NoFile /\ file.day = today_) => file.cnt <= cnt_
    BY DEF FlaInv, Numbers
  <2>3. Cardinality(Busy) \in Nat
    BY <2>2, FS_CardinalityType
  <2>4. today_ <= Today /\ (file # NoFile => file.day <= today_)
    BY <1>2 DEF FileOfToday
  <2>5. cnt_' \in Nat
    BY <1>4, AppenderAssumption
  <2>6. cnt_' + Cardinality(Busy') <= events'
    BY <1>1, <1>3, <1>4, <2>1, <2>2, <2>3, <2>5
  <2>7. (file' # NoFile /\ file'.day = Today) => file'.cnt <= cnt_'
    BY <1>1, <1>3, <1>4, <1>7, <2>2, <2>4, <2>5
  <2>8. Numbers'
    BY <1>1, <2>1, <2>2, <2>6, <2>7 DEF Numbers, NoFile
  <2>9. (file # NoFile /\ file' # NoFile) => Later(file', file)
    BY <1>1, <1>3, <1>4, <1>7, <2>2, <2>4, <2>5 DEF Later
  <2> QED
    BY <2>8, <2>9
<1> QED
  BY <1>8, <1>9, <1>10, <1>11 DEF FlaInv

LEMMA StampInv ==
  ASSUME FlaInv, NEW t \in Writers, Stamp(t)
  PROVE  FlaInv'
<1>1. /\ at[t] = "stamp" /\ at' = [at EXCEPT ![t] = "write"] /\ lastAccessTime_' = now[t]
      /\ UNCHANGED <<clock, today_, cnt_, lines_, file, good, now, returned, events>>
  BY DEF Stamp
<1>2. FlaTypeOK /\ FileOfToday /\ Reopened
  BY DEF FlaInv
<1>3. clock \in Nat /\ today_ \in Nat /\ now[t] \in Nat /\ 3 <= now[t]
  BY <1>1, <1>2, FlaNumbers DEF Reopened
<1>4. FlaTypeOK'
  BY <1>1, <1>2 DEF FlaTypeOK, File, DayOf
<1>5. FileOfToday'
  BY <1>1, <1>2 DEF FileOfToday, Today, DayOf, NoFile
<1>6. Reopened'
  <2>1. today_ >= DayOf(now[t]) /\ now[t] <= clock
    BY <1>1, <1>2 DEF Reopened
  <2>2. today_ >= DayOf(now[t] - 2)
    <3>1. now[t] - 2 \in Nat /\ now[t] - 2 <= now[t]
      BY <1>3
    <3>2. DayOf(now[t] - 2) \in Nat /\ DayOf(now[t]) \in Nat /\ DayOf(now[t] - 2) <= DayOf(now[t])
      BY <1>3, <3>1, DaysInOrder
    <3> QED
      BY <1>3, <2>1, <3>2
  <2>3. at'[t] = "write" /\ \A u \in Writers \ {t} : at'[u] = at[u]
    BY <1>1, <1>2 DEF FlaTypeOK
  <2>4. (3 <= clock /\ lastAccessTime_ <= clock /\ today_ >= DayOf(lastAccessTime_))'
    BY <1>1, <1>2, <2>1 DEF Reopened, DayOf
  <2>5. ASSUME NEW u \in Writers
        PROVE  (/\ now[u] <= clock
                /\ at[u] # "idle" => now[u] >= 3
                /\ at[u] = "stamp" => today_ >= DayOf(now[u])
                /\ at[u] = "write" => today_ >= DayOf(now[u] - 2))'
    <3>1. CASE u = t
      BY <1>1, <1>3, <2>1, <2>2, <2>3, <3>1 DEF DayOf
    <3>2. CASE u # t
      BY <1>1, <1>2, <2>3, <3>2 DEF Reopened, DayOf
    <3> QED
      BY <3>1, <3>2
  <2> QED
    BY <2>4, <2>5 DEF Reopened
<1>7. MaxLogged < CntSize => Numbers'
  <2>1. Busy' = Busy
    BY <1>1, <1>2, SameBusy
  <2> QED
    BY <1>1, <2>1 DEF FlaInv, Numbers, NoFile
<1> QED
  BY <1>4, <1>5, <1>6, <1>7 DEF FlaInv

\* A line is written, and with it the thread has done with its event.
LEMMA WriteInv ==
  ASSUME FlaInv, NEW t \in Writers, Write(t)
  PROVE  FlaInv' /\ (good' => file.day >= DayOf(now[t] - 2))
<1>1. /\ at[t] = "write" /\ at' = [at EXCEPT ![t] = "idle"]
      /\ UNCHANGED <<clock, today_, lastAccessTime_, file, now, returned, events>>
  BY DEF Write
<1>2. FlaTypeOK /\ FileOfToday /\ Reopened
  BY DEF FlaInv
<1>3. /\ clock \in Nat /\ today_ \in Nat /\ cnt_ \in Nat /\ lines_ \in Nat /\ events \in Nat
      /\ CntSize \in Nat \ {0} /\ kMaxLines \in Nat \ {0} /\ MaxLogged \in Nat
  BY <1>2, FlaNumbers, AppenderAssumption
<1>4. \/ good /\ good' = good
      \/ good' = FALSE /\ lines_' = lines_ /\ cnt_' = cnt_
  BY DEF Write
<1>5. lines_' \in 0 .. kMaxLines - 1
  BY <1>2, <1>3 DEF Write, Full, FlaTypeOK
<1>6. cnt_' \in {cnt_, (cnt_ + 1) % CntSize}
  BY DEF Write
<1>7. /\ (cnt_ + 1) % CntSize \in 0 .. CntSize - 1
      /\ cnt_ + 1 < CntSize => (cnt_ + 1) % CntSize = cnt_ + 1
  BY <1>3
<1>8. FlaTypeOK'
  BY <1>1, <1>2, <1>4, <1>5, <1>6, <1>7 DEF FlaTypeOK, File, DayOf
<1>9. good' => good
  BY <1>4
<1>10. FileOfToday'
  BY <1>1, <1>2, <1>9 DEF FileOfToday, Today, DayOf, NoFile
<1>11. Reopened'
  <2>1. at'[t] = "idle" /\ \A u \in Writers \ {t} : at'[u] = at[u]
    BY <1>1, <1>2 DEF FlaTypeOK
  <2> QED
    BY <1>1, <1>2, <2>1 DEF Reopened, DayOf
<1>12. MaxLogged < CntSize => Numbers'
  <2> SUFFICES ASSUME MaxLogged < CntSize
               PROVE  Numbers'
    OBVIOUS
  <2>1. /\ IsFiniteSet(Busy) /\ cnt_ + Cardinality(Busy) <= events
        /\ (file # NoFile /\ file.day = today_) => file.cnt <= cnt_
    BY DEF FlaInv, Numbers
  <2>2. Busy' = Busy \ {t} /\ t \in Busy
    BY <1>1, <1>2 DEF Busy, FlaTypeOK
  <2>3. /\ IsFiniteSet(Busy') /\ Cardinality(Busy') = Cardinality(Busy) - 1
    BY <2>1, <2>2, FS_RemoveElement
  <2>4. Cardinality(Busy') \in Nat /\ Cardinality(Busy) \in Nat
    BY <2>1, <2>3, FS_CardinalityType
  <2>5. events <= MaxLogged
    BY <1>2, <1>3 DEF FlaTypeOK
  <2>6. cnt_ + 1 < CntSize
    BY <1>3, <2>1, <2>3, <2>4, <2>5
  <2>7. cnt_' \in {cnt_, cnt_ + 1}
    BY <1>6, <1>7, <2>6
  <2>8. cnt_' + Cardinality(Busy') <= events'
    BY <1>1, <1>3, <2>1, <2>3, <2>4, <2>7
  <2>9. (file' # NoFile /\ file'.day = today_') => file'.cnt <= cnt_'
    <3>1. file.cnt \in Int
      BY <1>2, FlaNumbers
    <3> QED
      BY <1>1, <1>3, <2>1, <2>7, <3>1
  <2> QED
    BY <2>3, <2>8, <2>9 DEF Numbers, NoFile
<1>13. good' => file.day >= DayOf(now[t] - 2)
  BY <1>1, <1>2, <1>9 DEF FileOfToday, Reopened
<1> QED
  BY <1>8, <1>10, <1>11, <1>12, <1>13 DEF FlaInv

\* What one step does.
LEMMA FlaStep ==
  ASSUME FlaInv, [FlaNext]_flaVars
  PROVE  /\ FlaInv'
         /\ \A t \in Writers :
              (at[t] = "write" /\ at'[t] = "idle" /\ good') => file.day >= DayOf(now[t] - 2)
         /\ (file # NoFile /\ file' # NoFile /\ MaxLogged < CntSize) => Later(file', file)
<1> DEFINE Lines == \A t \in Writers :
             (at[t] = "write" /\ at'[t] = "idle" /\ good') => file.day >= DayOf(now[t] - 2)
           Files == (file # NoFile /\ file' # NoFile /\ MaxLogged < CntSize) => Later(file', file)
<1>1. FlaTypeOK
  BY DEF FlaInv
<1>2. file' = file => Files
  BY <1>1, FlaNumbers DEF Later
<1> HIDE DEF Files
<1>3. ASSUME NEW t \in Writers, NEW s, at' = [at EXCEPT ![t] = s], at[t] # "write"
      PROVE  Lines
  BY <1>1, <1>3 DEF FlaTypeOK
<1>4. at' = at => Lines
  OBVIOUS
<1>5. CASE UNCHANGED flaVars
  <2>1. FlaInv'
    BY <1>5 DEF FlaInv, flaVars, FlaTypeOK, FileOfToday, Reopened, Numbers, Busy, File, Today,
                DayOf, NoFile
  <2> QED
    BY <1>2, <1>4, <1>5, <2>1 DEF flaVars, Files
<1>6. CASE ClockTick
  BY <1>2, <1>4, <1>6, ClockTickInv DEF ClockTick, Files
<1>7. CASE \E t \in Writers : Log(t) \/ Check(t) \/ reopen(t) \/ Stamp(t) \/ Write(t)
  <2>1. PICK t \in Writers : Log(t) \/ Check(t) \/ reopen(t) \/ Stamp(t) \/ Write(t)
    BY <1>7
  <2>2. CASE Log(t)
    <3>1. Lines
      BY <1>3, <2>2 DEF Log
    <3> QED
      BY <1>2, <2>2, <3>1, LogInv DEF Log, Files
  <2>3. CASE Check(t)
    <3>1. at[t] # "write" /\ \E s : at' = [at EXCEPT ![t] = s]
      BY <2>3 DEF Check
    <3>2. Lines
      BY <1>3, <3>1
    <3> QED
      BY <1>2, <2>3, <3>2, CheckInv DEF Check, Files
  <2>4. CASE reopen(t)
    <3>1. Lines
      BY <1>3, <2>4 DEF reopen
    <3> QED
      BY <2>4, <3>1, ReopenInv DEF Files
  <2>5. CASE Stamp(t)
    <3>1. Lines
      BY <1>3, <2>5 DEF Stamp
    <3> QED
      BY <1>2, <2>5, <3>1, StampInv DEF Stamp, Files
  <2>6. CASE Write(t)
    <3>1. at' = [at EXCEPT ![t] = "idle"] /\ (good' => file.day >= DayOf(now[t] - 2))
      BY <2>6, WriteInv DEF Write
    <3>2. Lines
      BY <1>1, <3>1 DEF FlaTypeOK
    <3> QED
      BY <1>2, <2>6, <3>2, WriteInv DEF Write, Files
  <2> QED
    BY <2>1, <2>2, <2>3, <2>4, <2>5, <2>6
<1> QED
  BY <1>5, <1>6, <1>7 DEF FlaNext

\* A line reaches the file of a day that has not ended three clock readings
\* before its event, and no earlier file is opened again: for every number of
\* threads, length of a day and clock (Logger.cpp:113-176).
THEOREM EveryLineInTheRightFile == FlaSpec => RightFile
<1>1. FlaInit => FlaInv
  BY FlaInitInv
<1>2. FlaInv /\ [FlaNext]_flaVars => FlaInv'
  BY FlaStep
<1>3. FlaInv /\ [FlaNext]_flaVars =>
        [/\ \A t \in Writers :
               (at[t] = "write" /\ at'[t] = "idle" /\ good') => file.day >= DayOf(now[t] - 2)
         /\ (file # NoFile /\ file' # NoFile /\ MaxLogged < CntSize) => Later(file', file)]_flaVars
  BY FlaStep
<1> QED
  BY <1>1, <1>2, <1>3, PTL DEF FlaSpec, RightFile

-----------------------------------------------------------------------------
(* Lists of steps *)

IsList(s) == s \in Seq(ToSet(s))

LEMMA ListIs ==
  ASSUME NEW S, NEW s \in Seq(S)
  PROVE  IsList(s) /\ Len(s) \in Nat /\ DOMAIN s = 1 .. Len(s)
<1>1. Len(s) \in Nat /\ DOMAIN s = 1 .. Len(s)
  OBVIOUS
<1>2. \A i \in 1 .. Len(s) : s[i] \in ToSet(s)
  BY <1>1 DEF ToSet
<1>3. s = [i \in 1 .. Len(s) |-> s[i]]
  OBVIOUS
<1>4. s \in [1 .. Len(s) -> ToSet(s)]
  BY <1>2, <1>3
<1> QED
  BY <1>1, <1>4 DEF IsList

LEMMA FunctionIsList ==
  ASSUME NEW n \in Nat, NEW s, s = [i \in 1 .. n |-> s[i]]
  PROVE  IsList(s) /\ Len(s) = n
<1>1. \A i \in 1 .. n : s[i] \in ToSet(s)
  BY DEF ToSet
<1>2. s \in [1 .. n -> ToSet(s)]
  BY <1>1
<1> QED
  BY <1>2 DEF IsList

LEMMA ListOfOne ==
  ASSUME NEW a
  PROVE  IsList(<<a>>) /\ Len(<<a>>) = 1 /\ <<a>>[1] = a
<1>1. <<a>> \in Seq({a})
  OBVIOUS
<1> QED
  BY <1>1, ListIs

LEMMA ListOfTwo ==
  ASSUME NEW a, NEW b
  PROVE  IsList(<<a, b>>) /\ Len(<<a, b>>) = 2 /\ <<a, b>>[1] = a /\ <<a, b>>[2] = b
<1>1. <<a, b>> \in Seq({a, b})
  OBVIOUS
<1> QED
  BY <1>1, ListIs

LEMMA ListOfNone == IsList(<<>>) /\ Len(<<>>) = 0 /\ DOMAIN <<>> = {}
<1>1. <<>> \in Seq({})
  OBVIOUS
<1>2. IsList(<<>>)
  BY <1>1, ListIs
<1> QED
  BY <1>2

LEMMA Joined ==
  ASSUME NEW a, NEW b, IsList(a), IsList(b)
  PROVE  /\ IsList(a \o b) /\ Len(a \o b) = Len(a) + Len(b)
         /\ \A i \in 1 .. Len(a) : (a \o b)[i] = a[i]
         /\ \A i \in 1 .. Len(b) : (a \o b)[Len(a) + i] = b[i]
<1> DEFINE S == ToSet(a) \cup ToSet(b)
<1>1. a \in Seq(S) /\ b \in Seq(S)
  BY DEF IsList
<1> HIDE DEF S
<1>2. a \o b \in Seq(S)
  BY <1>1
<1>3. IsList(a \o b)
  BY <1>2, ListIs
<1> QED
  BY <1>1, <1>3

LEMMA TailOf ==
  ASSUME NEW s, IsList(s), s # <<>>
  PROVE  /\ IsList(Tail(s)) /\ Len(s) \in Nat \ {0} /\ Len(Tail(s)) = Len(s) - 1
         /\ Head(s) = s[1] /\ \A i \in 1 .. Len(s) - 1 : Tail(s)[i] = s[i + 1]
<1> DEFINE S == ToSet(s)
<1>1. s \in Seq(S)
  BY DEF IsList
<1> HIDE DEF S
<1>2. Tail(s) \in Seq(S)
  BY <1>1
<1>3. IsList(Tail(s))
  BY <1>2, ListIs
<1> QED
  BY <1>1, <1>3

-----------------------------------------------------------------------------
(* The loggers: types *)

LogSteps == {"log", "write", "logged"}
AtLogger == {"find", "setLevel", "setFormatter", "make", "add", "put", "remove", "clear", "dump",
             "dumped"} \cup LogSteps

\* The steps that a program asks for, apart from log().
PlainSteps == {"find", "setLevel", "setFormatter", "setAppenderFormatter", "make", "skip", "throw",
               "add", "remove", "clear", "dumpAll"}

\* What a step carries.  An appender that is put without the logger's formatter
\* has one of its own.
StepOK(s) ==
  /\ s.do \in AtLogger => s.at \in Loggers
  /\ s.do \in {"setLevel", "make"} => s.level \in 0 .. 5
  /\ s.do \in {"setFormatter", "setAppenderFormatter"} => s.pattern \in Patterns
  /\ s.do = "make" => s.kind \in {"stdout", "file"} /\ s.pattern \in Patterns \cup {NoPattern}
  /\ s.do \in {"add", "put", "remove", "setAppenderFormatter", "write"} =>
       s.appender \in DOMAIN appenders
  /\ s.do = "put" => (s.missing \/ appenders[s.appender].pattern # NoPattern)
  /\ s.do \in LogSteps => s.event.id \in DOMAIN colorOn

Todo == /\ todo = [t \in Threads |-> todo[t]]
        /\ \A t \in Threads : IsList(todo[t]) /\ \A i \in DOMAIN todo[t] : StepOK(todo[t][i])

LogTypes == LoggerTypeOK /\ ListedHasFormatter /\ IsFiniteSet(loggers_) /\ Todo

-----------------------------------------------------------------------------
(* The loggers: what a thread that has steps to take relies on *)

\* The first step of t that is not a write releases l.
Releases(t, q, l) == /\ todo[t][q].do = "logged" /\ todo[t][q].at = l
                     /\ \A j \in 1 .. q - 1 : todo[t][j].do = "write"

\* Thread t holds the mutexes that it will release; its calls of log() are nested,
\* with the appenders of the innermost first, and are about one event.
Mine(t) ==
  \A i \in DOMAIN todo[t] :
    LET s == todo[t][i] IN
    /\ s.do \in {"put", "log"} => i = 1
    /\ s.do \in {"put", "write", "logged"} => mutex_[s.at] = t
    /\ s.do = "dumped" => IF i = 1 THEN mutex_[s.at] = t
                          ELSE todo[t][i - 1].do = "dump" /\ todo[t][i - 1].at = s.at
    /\ s.do \in LogSteps => \A j \in DOMAIN todo[t] : /\ todo[t][j].do \in LogSteps
                                                   /\ todo[t][j].event = s.event
    /\ s.do = "logged" => \A j \in DOMAIN todo[t] :
                            todo[t][j].do = "logged" /\ j # i => todo[t][j].at # s.at
    /\ s.do = "write" => \A j \in 1 .. i - 1 : todo[t][j].do = "write" /\ todo[t][j].at = s.at
    /\ s.do = "write" => \E q \in DOMAIN todo[t] : Releases(t, q, s.at)

Logs(t, e) == \E i \in DOMAIN todo[t] : todo[t][i].do \in LogSteps /\ todo[t][i].event.id = e

\* Two threads never log the same event.
Own == \A t, u \in Threads, e \in DOMAIN colorOn : Logs(t, e) /\ Logs(u, e) => t = u

\* The appenders have lines of events that were logged.
OutOK == \A a \in DOMAIN out : IsList(out[a]) /\ \A i \in DOMAIN out[a] : out[a][i].event \in DOMAIN colorOn

\* A call of log() that has not begun has written nothing of its event; one that
\* writes has the last word so far in every appender, among the events of its
\* logger.
Fresh(t) == \A i \in DOMAIN todo[t] : todo[t][i].do = "log" =>
              \A a \in DOMAIN out : \A j \in DOMAIN out[a] : out[a][j].event # todo[t][i].event.id
LastWord(t) ==
  \A i \in DOMAIN todo[t] : todo[t][i].do = "write" =>
    \A a \in DOMAIN out, f \in DOMAIN colorOn :
      Before(a, todo[t][i].at, todo[t][i].event.id, f) => f = todo[t][i].event.id

Lines(a, l, e) == {i \in DOMAIN out[a] : Wrote(a, i, l, e)}
Entries(l, m, a) == {i \in 1 .. m : appenders_[l][i] = a}

\* The event e stands as often in each appender as the first m entries of l's list
\* say, up to the appender's level; or l has no appenders and has written nothing.
UpTo(l, e, m) == \A a \in DOMAIN out :
                   Cardinality(Lines(a, l, e.id)) =
                     IF e.level >= appenders[a].level THEN Cardinality(Entries(l, m, a)) ELSE 0
Untouched(l, e) == appenders_[l] = <<>> /\ \A a \in DOMAIN out : Lines(a, l, e.id) = {}

\* The writes before a release are the rest of the logger's list; what comes before
\* it when they are not only writes is a call for the root logger.
Progress(t) ==
  \A p \in DOMAIN todo[t] : todo[t][p].do = "logged" =>
    LET l == todo[t][p].at
        e == todo[t][p].event
    IN  IF \A j \in 1 .. p - 1 : todo[t][j].do = "write"
          THEN \E m \in 0 .. Len(appenders_[l]) :
                 /\ Len(appenders_[l]) = m + (p - 1)
                 /\ \A j \in 1 .. p - 1 : /\ todo[t][j].at = l
                                         /\ todo[t][j].appender = appenders_[l][m + j]
                 /\ UpTo(l, e, m)
          ELSE Untouched(l, e)

LogInvar == /\ LogTypes /\ Own /\ OutOK /\ SameOrder
            /\ \A t \in Threads : Mine(t) /\ Fresh(t) /\ LastWord(t) /\ Progress(t)

-----------------------------------------------------------------------------
(* The loggers: how the lists change *)

\* Appenders and events are only added, and a formatter is never taken away.
Grows == /\ DOMAIN appenders \subseteq DOMAIN appenders' /\ DOMAIN colorOn \subseteq DOMAIN colorOn'
         /\ \A a \in DOMAIN appenders :
              appenders[a].pattern # NoPattern => appenders'[a].pattern # NoPattern

LEMMA StepStays ==
  ASSUME Grows, NEW s, StepOK(s)
  PROVE  StepOK(s)'
BY DEF Grows, StepOK

LEMMA HeadStep ==
  ASSUME Todo, NEW t \in Threads, todo[t] # <<>>
  PROVE  /\ IsList(todo[t]) /\ Len(todo[t]) \in Nat \ {0} /\ DOMAIN todo[t] = 1 .. Len(todo[t])
         /\ 1 \in DOMAIN todo[t] /\ Step(t) = todo[t][1] /\ StepOK(Step(t))
<1>1. IsList(todo[t])
  BY DEF Todo
<1>2. Len(todo[t]) \in Nat \ {0} /\ Head(todo[t]) = todo[t][1]
  BY <1>1, TailOf
<1>3. DOMAIN todo[t] = 1 .. Len(todo[t])
  BY <1>1, ListIs DEF IsList
<1>4. 1 \in DOMAIN todo[t]
  BY <1>2, <1>3
<1> QED
  BY <1>1, <1>2, <1>3, <1>4 DEF Todo, Step

\* New steps take the place of the first one.
LEMMA Continued ==
  ASSUME Todo, NEW t \in Threads, todo[t] # <<>>, NEW new, IsList(new), Continue(t, new)
  PROVE  /\ todo' = [u \in Threads |-> todo'[u]] /\ \A u \in Threads \ {t} : todo'[u] = todo[u]
         /\ IsList(todo'[t]) /\ Len(new) \in Nat /\ DOMAIN new = 1 .. Len(new)
         /\ DOMAIN todo'[t] = 1 .. Len(new) + Len(todo[t]) - 1
         /\ \A i \in 1 .. Len(new) : todo'[t][i] = new[i]
         /\ \A i \in Len(new) + 1 .. Len(new) + Len(todo[t]) - 1 :
              todo'[t][i] = todo[t][i - Len(new) + 1]
<1> DEFINE s == todo[t]
           r == new \o Tail(s)
<1>1. todo' = [u \in Threads |-> IF u = t THEN r ELSE todo[u]]
  BY DEF Todo, Continue
<1>2. IsList(s) /\ Len(s) \in Nat \ {0} /\ IsList(Tail(s)) /\ Len(Tail(s)) = Len(s) - 1
      /\ \A i \in 1 .. Len(s) - 1 : Tail(s)[i] = s[i + 1]
  BY HeadStep, TailOf
<1> HIDE DEF s
<1>3. /\ IsList(r) /\ Len(r) = Len(new) + Len(Tail(s))
      /\ \A i \in 1 .. Len(new) : r[i] = new[i]
      /\ \A i \in 1 .. Len(Tail(s)) : r[Len(new) + i] = Tail(s)[i]
  BY <1>2, Joined
<1>4. Len(new) \in Nat /\ DOMAIN new = 1 .. Len(new)
  BY ListIs DEF IsList
<1>5. DOMAIN r = 1 .. Len(r)
  BY <1>3, ListIs DEF IsList
<1> HIDE DEF r
<1>6. ASSUME NEW i \in Len(new) + 1 .. Len(new) + Len(s) - 1
      PROVE  r[i] = s[i - Len(new) + 1]
  <2>1. i - Len(new) \in 1 .. Len(s) - 1 /\ i = Len(new) + (i - Len(new))
    BY <1>2, <1>4
  <2> DEFINE k == i - Len(new)
  <2>2. k \in 1 .. Len(s) - 1 /\ i = Len(new) + k /\ i - Len(new) + 1 = k + 1
    BY <2>1
  <2> HIDE DEF k
  <2> QED
    BY <1>2, <1>3, <2>2
<1>7. todo'[t] = r /\ \A u \in Threads \ {t} : todo'[u] = todo[u]
  BY <1>1
<1>8. todo' = [u \in Threads |-> todo'[u]]
  BY <1>1
<1>9. DOMAIN r = 1 .. Len(new) + Len(s) - 1
  BY <1>2, <1>3, <1>4, <1>5
<1> QED
  BY <1>3, <1>4, <1>6, <1>7, <1>8, <1>9 DEF s

\* The first step is done.
LEMMA Popped ==
  ASSUME Todo, NEW t \in Threads, todo[t] # <<>>, Continue(t, <<>>)
  PROVE  /\ todo' = [u \in Threads |-> todo'[u]] /\ \A u \in Threads \ {t} : todo'[u] = todo[u]
         /\ IsList(todo'[t]) /\ DOMAIN todo'[t] = 1 .. Len(todo[t]) - 1
         /\ \A i \in 1 .. Len(todo[t]) - 1 : todo'[t][i] = todo[t][i + 1]
<1>1. Len(todo[t]) \in Nat \ {0}
  BY HeadStep
<1> DEFINE new == <<>>
<1>2. IsList(new) /\ Len(new) = 0 /\ Continue(t, new)
  BY ListOfNone
<1> HIDE DEF new
<1> QED
  BY <1>1, <1>2, Continued

\* Another step takes its place.
LEMMA Replaced ==
  ASSUME Todo, NEW t \in Threads, todo[t] # <<>>, NEW s, Continue(t, <<s>>)
  PROVE  /\ todo' = [u \in Threads |-> todo'[u]] /\ \A u \in Threads \ {t} : todo'[u] = todo[u]
         /\ IsList(todo'[t]) /\ DOMAIN todo'[t] = DOMAIN todo[t]
         /\ todo'[t][1] = s /\ \A i \in DOMAIN todo[t] : i # 1 => todo'[t][i] = todo[t][i]
<1>1. Len(todo[t]) \in Nat \ {0} /\ DOMAIN todo[t] = 1 .. Len(todo[t])
  BY HeadStep
<1> DEFINE new == <<s>>
<1>2. IsList(new) /\ Len(new) = 1 /\ new[1] = s /\ Continue(t, new)
  BY ListOfOne
<1> HIDE DEF new
<1>3. /\ todo' = [u \in Threads |-> todo'[u]] /\ \A u \in Threads \ {t} : todo'[u] = todo[u]
      /\ IsList(todo'[t]) /\ Len(new) \in Nat /\ DOMAIN new = 1 .. Len(new)
      /\ DOMAIN todo'[t] = 1 .. Len(new) + Len(todo[t]) - 1
      /\ \A i \in 1 .. Len(new) : todo'[t][i] = new[i]
      /\ \A i \in Len(new) + 1 .. Len(new) + Len(todo[t]) - 1 :
           todo'[t][i] = todo[t][i - Len(new) + 1]
  BY <1>2, Continued
<1>4. DOMAIN todo'[t] = DOMAIN todo[t] /\ todo'[t][1] = s
  BY <1>1, <1>2, <1>3
<1>5. ASSUME NEW i \in DOMAIN todo[t], i # 1
      PROVE  todo'[t][i] = todo[t][i]
  <2>1. i \in Len(new) + 1 .. Len(new) + Len(todo[t]) - 1 /\ i - Len(new) + 1 = i
    BY <1>1, <1>2, <1>5
  <2> QED
    BY <1>3, <2>1
<1> QED
  BY <1>3, <1>4, <1>5

\* The steps that are left, and the new ones, can be taken.
LEMMA ContinuedTodo ==
  ASSUME Todo, Grows, NEW t \in Threads, todo[t] # <<>>, NEW new, IsList(new), Continue(t, new),
         \A i \in DOMAIN new : StepOK(new[i])'
  PROVE  Todo'
<1> DEFINE n == Len(new)
           k == Len(todo[t])
<1>1. /\ todo' = [u \in Threads |-> todo'[u]] /\ \A u \in Threads \ {t} : todo'[u] = todo[u]
      /\ IsList(todo'[t]) /\ n \in Nat /\ DOMAIN new = 1 .. n
      /\ DOMAIN todo'[t] = 1 .. n + k - 1
      /\ \A i \in 1 .. n : todo'[t][i] = new[i]
      /\ \A i \in n + 1 .. n + k - 1 : todo'[t][i] = todo[t][i - n + 1]
  BY Continued
<1>2. k \in Nat \ {0} /\ DOMAIN todo[t] = 1 .. k
  BY HeadStep
<1> HIDE DEF n, k
<1>3. ASSUME NEW i \in DOMAIN todo'[t]
      PROVE  StepOK(todo[t][i])'
  <2>1. CASE i \in 1 .. n
    BY <1>1, <2>1
  <2>2. CASE i \in n + 1 .. n + k - 1
    <3>1. i - n + 1 \in DOMAIN todo[t] /\ todo'[t][i] = todo[t][i - n + 1]
      BY <1>1, <1>2, <2>2
    <3>2. StepOK(todo[t][i - n + 1])
      BY <3>1 DEF Todo
    <3> QED
      BY <3>1, <3>2, StepStays DEF StepOK
  <2> QED
    BY <1>1, <1>2, <2>1, <2>2
<1>4. ASSUME NEW u \in Threads \ {t}
      PROVE  IsList(todo'[u]) /\ \A i \in DOMAIN todo'[u] : StepOK(todo[u][i])'
  <2>1. todo'[u] = todo[u] /\ IsList(todo[u])
    BY <1>1 DEF Todo
  <2>2. ASSUME NEW i \in DOMAIN todo'[u]
        PROVE  StepOK(todo[u][i])'
    <3>1. StepOK(todo[u][i])
      BY <2>1 DEF Todo
    <3> QED
      BY <2>1, <3>1, StepStays DEF StepOK
  <2> QED
    BY <2>1, <2>2
<1> QED
  BY <1>1, <1>3, <1>4 DEF Todo

LEMMA Called ==
  ASSUME Todo, NEW t \in Threads, NEW new, IsList(new), Call(t, new)
  PROVE  /\ todo[t] = <<>> /\ todo' = [u \in Threads |-> todo'[u]]
         /\ todo'[t] = new /\ \A u \in Threads \ {t} : todo'[u] = todo[u]
<1>1. todo[t] = <<>> /\ todo' = [todo EXCEPT ![t] = new]
  BY DEF Call
<1> QED
  BY <1>1 DEF Todo

-----------------------------------------------------------------------------
(* The loggers: every step keeps the types *)

LEMMA CallTypes ==
  ASSUME LogTypes, Grows, NEW t \in Threads, NEW new, IsList(new), Call(t, new),
         UNCHANGED <<appenders, out>>, colorOn' \in Seq(BOOLEAN),
         \A i \in DOMAIN new : StepOK(new[i])'
  PROVE  LogTypes'
<1>1. /\ todo' = [u \in Threads |-> todo'[u]]
      /\ todo'[t] = new /\ \A u \in Threads \ {t} : todo'[u] = todo[u]
  BY Called DEF LogTypes
<1>2. /\ UNCHANGED <<level_, pFormatter_, appenders_, mutex_, loggers_, manager_mutex_>>
      /\ calls < MaxCalls /\ calls' = calls + 1
  BY DEF Call, loggerConf
<1>3. MaxCalls \in Nat
  BY LoggerAssumption
<1>4. LoggerTypeOK'
  BY <1>2, <1>3 DEF LogTypes, LoggerTypeOK, Holders
<1>5. ListedHasFormatter' /\ IsFiniteSet(loggers_)'
  BY <1>2 DEF LogTypes, ListedHasFormatter
<1>6. ASSUME NEW u \in Threads \ {t}
      PROVE  IsList(todo'[u]) /\ \A i \in DOMAIN todo'[u] : StepOK(todo[u][i])'
  <2>1. todo'[u] = todo[u] /\ IsList(todo[u])
    BY <1>1 DEF Todo, LogTypes
  <2>2. ASSUME NEW i \in DOMAIN todo'[u]
        PROVE  StepOK(todo[u][i])'
    <3>1. StepOK(todo[u][i])
      BY <2>1 DEF Todo, LogTypes
    <3> QED
      BY <2>1, <3>1, StepStays DEF StepOK
  <2> QED
    BY <2>1, <2>2
<1>7. IsList(todo'[t]) /\ \A i \in DOMAIN todo'[t] : StepOK(todo[t][i])'
  BY <1>1 DEF StepOK
<1>8. Todo'
  BY <1>1, <1>6, <1>7 DEF Todo
<1> QED
  BY <1>4, <1>5, <1>8 DEF LogTypes

\* A call that is one step.
LEMMA OneCallTypes ==
  ASSUME LogTypes, NEW t \in Threads, NEW s, Call(t, <<s>>),
         UNCHANGED <<appenders, colorOn, out>>, StepOK(s)', s.do \in PlainSteps
  PROVE  LogTypes' /\ \A i \in DOMAIN todo'[t] : todo'[t][i].do \in PlainSteps
<1> DEFINE new == <<s>>
<1>1. IsList(new) /\ Len(new) = 1 /\ new[1] = s /\ Call(t, new)
  BY ListOfOne
<1> HIDE DEF new
<1>2. DOMAIN new = 1 .. 1
  BY <1>1, ListIs DEF IsList
<1>3. \A i \in DOMAIN new : StepOK(new[i])'
  BY <1>1, <1>2 DEF StepOK
<1>4. Grows
  BY DEF Grows
<1>5. colorOn' \in Seq(BOOLEAN)
  BY DEF LogTypes, LoggerTypeOK
<1>6. LogTypes'
  BY <1>1, <1>3, <1>4, <1>5, CallTypes
<1>7. todo'[t] = new
  BY <1>1, Called DEF LogTypes
<1> QED
  BY <1>1, <1>2, <1>6, <1>7

LEMMA NewEventTypes ==
  ASSUME LogTypes, NEW t \in Threads, NEW l \in Loggers, NEW lvl, NewEvent(t, l, lvl)
  PROVE  LogTypes'
<1> SUFFICES ASSUME NEW n, n = Len(colorOn)
             PROVE  LogTypes'
  OBVIOUS
<1> DEFINE s == [do |-> "log", at |-> l,
                 event |-> [id |-> n + 1, level |-> lvl, content |-> "content", timestamp |-> "time"]]
           new == <<s>>
<1>1. colorOn \in Seq(BOOLEAN) /\ colorOn' = Append(colorOn, FALSE)
  BY DEF LogTypes, LoggerTypeOK, NewEvent
<1>2. /\ colorOn' \in Seq(BOOLEAN) /\ DOMAIN colorOn = 1 .. Len(colorOn)
      /\ DOMAIN colorOn' = 1 .. Len(colorOn) + 1 /\ Len(colorOn) \in Nat
  BY <1>1
<1>3. IsList(new) /\ Len(new) = 1 /\ new[1] = s /\ Call(t, new)
  BY ListOfOne DEF NewEvent
<1>4. s.do = "log" /\ s.at \in Loggers /\ s.event.id = n + 1
  OBVIOUS
<1> HIDE DEF new, s
<1>5. DOMAIN new = 1 .. 1
  BY <1>3, ListIs DEF IsList
<1>6. \A i \in DOMAIN new : StepOK(new[i])'
  BY <1>2, <1>3, <1>4, <1>5 DEF StepOK
<1>7. UNCHANGED <<appenders, out>>
  BY DEF NewEvent
<1>8. Grows
  BY <1>2, <1>7 DEF Grows
<1> QED
  BY <1>2, <1>3, <1>6, <1>7, <1>8, CallTypes

LEMMA MemberTypes ==
  ASSUME LogTypes, NEW t \in Threads, Member(t)
  PROVE  LogTypes' /\ \A i \in DOMAIN todo'[t] : todo'[t][i].do \in PlainSteps
<1>1. UNCHANGED <<appenders, colorOn, out>>
  BY DEF Member
<1>2. ASSUME NEW l \in loggers_, NEW a \in DOMAIN appenders,
             \/ Call(t, <<[do |-> "add", at |-> l, appender |-> a]>>)
             \/ Call(t, <<[do |-> "remove", at |-> l, appender |-> a]>>)
      PROVE  LogTypes' /\ \A i \in DOMAIN todo'[t] : todo'[t][i].do \in PlainSteps
  <2>1. PICK x \in {"add", "remove"} : Call(t, <<[do |-> x, at |-> l, appender |-> a]>>)
    BY <1>2
  <2> DEFINE s == [do |-> x, at |-> l, appender |-> a]
  <2>2. StepOK(s)' /\ s.do \in PlainSteps
    BY <1>1 DEF StepOK, LogTypes, LoggerTypeOK, AtLogger, LogSteps, PlainSteps
  <2>3. Call(t, <<s>>)
    BY <2>1
  <2> HIDE DEF s
  <2> QED
    BY <1>1, <2>2, <2>3, OneCallTypes
<1>3. ASSUME NEW l \in loggers_, Call(t, <<[do |-> "clear", at |-> l]>>)
      PROVE  LogTypes' /\ \A i \in DOMAIN todo'[t] : todo'[t][i].do \in PlainSteps
  <2> DEFINE s == [do |-> "clear", at |-> l]
  <2>1. StepOK(s)' /\ s.do \in PlainSteps /\ Call(t, <<s>>)
    BY <1>1, <1>3 DEF StepOK, LogTypes, LoggerTypeOK, LogSteps, PlainSteps
  <2> HIDE DEF s
  <2> QED
    BY <1>1, <2>1, OneCallTypes
<1>4. ASSUME NEW p \in Patterns, NEW a \in DOMAIN appenders,
             Call(t, <<[do |-> "setAppenderFormatter", appender |-> a, pattern |-> p]>>)
      PROVE  LogTypes' /\ \A i \in DOMAIN todo'[t] : todo'[t][i].do \in PlainSteps
  <2> DEFINE s == [do |-> "setAppenderFormatter", appender |-> a, pattern |-> p]
  <2>1. StepOK(s)' /\ s.do \in PlainSteps /\ Call(t, <<s>>)
    BY <1>1, <1>4 DEF StepOK, AtLogger, LogSteps, PlainSteps
  <2> HIDE DEF s
  <2> QED
    BY <1>1, <2>1, OneCallTypes
<1>5. ASSUME Call(t, <<[do |-> "dumpAll"]>>)
      PROVE  LogTypes' /\ \A i \in DOMAIN todo'[t] : todo'[t][i].do \in PlainSteps
  <2> DEFINE s == [do |-> "dumpAll"]
  <2>1. StepOK(s)' /\ s.do \in PlainSteps /\ Call(t, <<s>>)
    BY <1>5 DEF StepOK, AtLogger, LogSteps, PlainSteps
  <2> HIDE DEF s
  <2> QED
    BY <1>1, <2>1, OneCallTypes
<1> QED
  BY <1>2, <1>3, <1>4, <1>5 DEF Member

LEMMA OneOK ==
  ASSUME NEW s, StepOK(s)', NEW D, s.do \in D
  PROVE  IsList(<<s>>) /\ \A i \in DOMAIN <<s>> : StepOK(<<s>>[i])' /\ <<s>>[i].do \in D
<1> DEFINE new == <<s>>
<1>1. IsList(new) /\ Len(new) = 1 /\ new[1] = s
  BY ListOfOne
<1> HIDE DEF new
<1>2. DOMAIN new = 1 .. 1
  BY <1>1, ListIs DEF IsList
<1>3. \A i \in DOMAIN new : StepOK(new[i])' /\ new[i].do \in D
  BY <1>1, <1>2 DEF StepOK
<1> QED
  BY <1>1, <1>3 DEF new

LEMMA JoinedOK ==
  ASSUME NEW D, NEW a, NEW b, IsList(a), IsList(b),
         \A i \in DOMAIN a : StepOK(a[i])' /\ a[i].do \in D,
         \A i \in DOMAIN b : StepOK(b[i])' /\ b[i].do \in D
  PROVE  IsList(a \o b) /\ \A i \in DOMAIN (a \o b) : StepOK((a \o b)[i])' /\ (a \o b)[i].do \in D
<1> DEFINE r == a \o b
<1>1. /\ IsList(r) /\ Len(r) = Len(a) + Len(b)
      /\ \A i \in 1 .. Len(a) : r[i] = a[i]
      /\ \A i \in 1 .. Len(b) : r[Len(a) + i] = b[i]
  BY Joined
<1>2. /\ Len(a) \in Nat /\ Len(b) \in Nat /\ DOMAIN a = 1 .. Len(a)
      /\ DOMAIN b = 1 .. Len(b) /\ DOMAIN r = 1 .. Len(r)
  BY <1>1, ListIs DEF IsList
<1> HIDE DEF r
<1>3. ASSUME NEW i \in DOMAIN r
      PROVE  StepOK(r[i])' /\ r[i].do \in D
  <2>1. CASE i \in 1 .. Len(a)
    BY <1>1, <1>2, <2>1 DEF StepOK
  <2>2. CASE i \in Len(a) + 1 .. Len(a) + Len(b)
    <3> DEFINE k == i - Len(a)
    <3>1. k \in 1 .. Len(b) /\ i = Len(a) + k
      BY <1>2, <2>2
    <3> HIDE DEF k
    <3>2. r[i] = b[k] /\ k \in DOMAIN b
      BY <1>1, <1>2, <3>1
    <3> QED
      BY <3>2 DEF StepOK
  <2> QED
    BY <1>1, <1>2, <2>1, <2>2
<1> QED
  BY <1>1, <1>3 DEF r

LEMMA LeastOf ==
  ASSUME NEW I \in SUBSET Nat, I # {}
  PROVE  Min(I) \in I
<1> DEFINE R == OpToRel(<, Nat)
<1>1. IsWellFoundedOn(R, Nat)
  BY NatLessThanWellFounded
<1>2. \A x, y \in Nat : y < x => <<y, x>> \in R
  BY DEF OpToRel
<1> HIDE DEF R
<1>3. PICK k \in I : \A i \in I : ~ (<<i, k>> \in R)
  BY <1>1, WFMin
<1>4. \A i \in I : k <= i
  <2> TAKE i \in I
  <2>1. i \in Nat /\ k \in Nat /\ ~ (i < k)
    BY <1>2, <1>3
  <2> QED
    BY <2>1
<1> QED
  BY <1>3, <1>4 DEF Min

LEMMA LevelFromString ==
  ASSUME NEW str
  PROVE  fromString(str) \in 0 .. 5
<1> DEFINE I == {i \in 1 .. Len(LevelNames) : LevelNames[i] = str}
<1>1. Len(LevelNames) = 5
  BY DEF LevelNames
<1>2. I \in SUBSET (1 .. 5)
  BY <1>1
<1>3. fromString(str) = IF I # {} THEN Min(I) ELSE 0
  BY DEF fromString, SelectInSeq
<1> HIDE DEF I
<1>4. I # {} => Min(I) \in 1 .. 5
  <2>1. I \in SUBSET Nat
    BY <1>2
  <2> QED
    BY <1>2, <2>1, LeastOf
<1> QED
  BY <1>3, <1>4

LEMMA GetLoggerTypes ==
  ASSUME LogTypes, NEW t \in Threads, NEW r \in Requests, getLogger(t, r)
  PROVE  LogTypes' /\ \A i \in DOMAIN todo'[t] : todo'[t][i].do \in PlainSteps
<1> DEFINE find1 == [do |-> "find", at |-> r.name]
           level1 == [do |-> "setLevel", at |-> r.name, level |-> r.level]
           form == [do |-> "setFormatter", at |-> r.name, pattern |-> r.pattern]
           make == [do |-> "make", at |-> r.name, kind |-> r.kind, level |-> LDEBUG,
                    pattern |-> NoPattern]
           a == <<find1, level1>>
           b == IF r.pattern = kDefaultFormatPattern THEN <<>> ELSE <<form>>
           c == <<make>>
           new == a \o b \o c
<1>1. /\ r.name \in Loggers /\ r.level \in 0 .. 5 /\ r.pattern \in Patterns
      /\ r.kind \in {"stdout", "file"}
  BY LoggerAssumption
<1>2. UNCHANGED <<appenders, colorOn, out>> /\ Call(t, new)
  BY DEF getLogger
<1>3. StepOK(find1)' /\ StepOK(level1)' /\ find1.do \in PlainSteps /\ level1.do \in PlainSteps
  BY <1>1 DEF StepOK, AtLogger, LogSteps, PlainSteps
<1>4. StepOK(form)' /\ StepOK(make)' /\ form.do \in PlainSteps /\ make.do \in PlainSteps
  BY <1>1 DEF StepOK, AtLogger, LogSteps, LDEBUG, PlainSteps
<1> HIDE DEF find1, level1, form, make
<1>5. IsList(a) /\ \A i \in DOMAIN a : StepOK(a[i])' /\ a[i].do \in PlainSteps
  <2>1. IsList(a) /\ Len(a) = 2 /\ a[1] = find1 /\ a[2] = level1
    BY ListOfTwo
  <2> HIDE DEF a
  <2>2. DOMAIN a = 1 .. 2
    BY <2>1, ListIs DEF IsList
  <2> QED
    BY <1>3, <2>1, <2>2 DEF StepOK
<1>6. IsList(b) /\ \A i \in DOMAIN b : StepOK(b[i])' /\ b[i].do \in PlainSteps
  <2>1. CASE b = <<>>
    BY <2>1, ListOfNone
  <2>2. CASE b = <<form>>
    BY <1>4, <2>2, OneOK
  <2> QED
    BY <2>1, <2>2
<1>7. IsList(c) /\ \A i \in DOMAIN c : StepOK(c[i])' /\ c[i].do \in PlainSteps
  BY <1>4, OneOK
<1> HIDE DEF a, b, c
<1>8. IsList(a \o b) /\ \A i \in DOMAIN (a \o b) : StepOK((a \o b)[i])' /\ (a \o b)[i].do \in PlainSteps
  BY <1>5, <1>6, JoinedOK
<1>9. IsList(new) /\ \A i \in DOMAIN new : StepOK(new[i])' /\ new[i].do \in PlainSteps
  BY <1>7, <1>8, JoinedOK
<1> HIDE DEF new
<1>10. Grows /\ colorOn' \in Seq(BOOLEAN)
  BY <1>2 DEF Grows, LogTypes, LoggerTypeOK
<1>11. LogTypes' /\ todo'[t] = new
  BY <1>2, <1>9, <1>10, CallTypes, Called DEF LogTypes
<1> QED
  BY <1>9, <1>11

LEMMA InitTypes ==
  ASSUME LogTypes, NEW t \in Threads, NEW l \in Loggers, NEW conf \in Confs, init(t, l, conf)
  PROVE  LogTypes' /\ \A i \in DOMAIN todo'[t] : todo'[t][i].do \in PlainSteps
<1> DEFINE pattern == IF conf.formatter = NoPattern THEN kDefaultFormatPattern ELSE conf.formatter
           level == IF conf.level = None THEN LDEBUG ELSE fromString(conf.level)
           set == [do |-> "setLevel", at |-> l, level |-> level]
           form == [do |-> "setFormatter", at |-> l, pattern |-> pattern]
           a == <<set, form>>
           b == [i \in DOMAIN conf.appenders |-> ForNode(l, conf, conf.appenders[i], pattern)]
           new == a \o b
<1>1. /\ conf.formatter \in Patterns \cup {NoPattern} /\ Len(conf.appenders) \in Nat
      /\ DOMAIN conf.appenders = 1 .. Len(conf.appenders)
  BY LoggerAssumption
<1>2. UNCHANGED <<appenders, colorOn, out>> /\ Call(t, new)
  BY DEF init
<1>3. pattern \in Patterns
  BY <1>1, LoggerAssumption
<1>4. level \in 0 .. 5 /\ fromString(conf.level) \in 0 .. 5
  BY LevelFromString DEF LDEBUG
<1> HIDE DEF pattern, level
<1>5. StepOK(set)' /\ StepOK(form)' /\ set.do \in PlainSteps /\ form.do \in PlainSteps
  BY <1>3, <1>4 DEF StepOK, AtLogger, LogSteps, PlainSteps
<1> HIDE DEF set, form
<1>6. IsList(a) /\ \A i \in DOMAIN a : StepOK(a[i])' /\ a[i].do \in PlainSteps
  <2>1. IsList(a) /\ Len(a) = 2 /\ a[1] = set /\ a[2] = form
    BY ListOfTwo
  <2> HIDE DEF a
  <2>2. DOMAIN a = 1 .. 2
    BY <2>1, ListIs DEF IsList
  <2> QED
    BY <1>5, <2>1, <2>2 DEF StepOK
<1>7. IsList(b) /\ \A i \in DOMAIN b : StepOK(b[i])' /\ b[i].do \in PlainSteps
  <2>1. IsList(b)
    BY <1>1, FunctionIsList
  <2>2. ASSUME NEW node
        PROVE  /\ StepOK(ForNode(l, conf, node, pattern))'
               /\ ForNode(l, conf, node, pattern).do \in PlainSteps
    <3>1. CASE ~(node.kind = "stdout" \/ (node.kind = "file" /\ node.file))
      BY <3>1 DEF ForNode, StepOK, AtLogger, LogSteps, PlainSteps
    <3>2. CASE /\ node.kind = "stdout" \/ (node.kind = "file" /\ node.file)
               /\ node.level # None /\ conf.level = None
      BY <3>2 DEF ForNode, StepOK, AtLogger, LogSteps, PlainSteps
    <3>3. CASE /\ node.kind = "stdout" \/ (node.kind = "file" /\ node.file)
               /\ ~(node.level # None /\ conf.level = None)
      <4> DEFINE lvl == IF node.level = None THEN LDEBUG ELSE fromString(conf.level)
      <4>1. lvl \in 0 .. 5
        BY <1>4 DEF LDEBUG
      <4>2. ForNode(l, conf, node, pattern) = [do |-> "make", at |-> l, kind |-> node.kind,
                                               pattern |-> pattern, level |-> lvl]
        BY <3>3 DEF ForNode
      <4> HIDE DEF lvl
      <4> QED
        BY <1>3, <3>3, <4>1, <4>2 DEF StepOK, AtLogger, LogSteps, PlainSteps
    <3> QED
      BY <3>1, <3>2, <3>3
  <2>3. \A i \in DOMAIN b : StepOK(b[i])' /\ b[i].do \in PlainSteps
    BY <2>2 DEF StepOK
  <2> QED
    BY <2>1, <2>3
<1> HIDE DEF a, b
<1>8. IsList(new) /\ \A i \in DOMAIN new : StepOK(new[i])' /\ new[i].do \in PlainSteps
  BY <1>6, <1>7, JoinedOK
<1> HIDE DEF new
<1>9. Grows /\ colorOn' \in Seq(BOOLEAN)
  BY <1>2 DEF Grows, LogTypes, LoggerTypeOK
<1>10. LogTypes' /\ todo'[t] = new
  BY <1>2, <1>8, <1>9, CallTypes, Called DEF LogTypes
<1> QED
  BY <1>8, <1>10

LEMMA Shortened ==
  ASSUME NEW S, NEW s \in Seq(S), NEW e
  PROVE  RemoveFirst(s, e) \in Seq(S)
<1> DEFINE I == {i \in 1 .. Len(s) : s[i] = e}
<1>1. CASE I = {}
  BY <1>1 DEF RemoveFirst
<1>2. CASE I # {}
  <2>1. I \in SUBSET Nat
    OBVIOUS
  <2>2. Min(I) \in 1 .. Len(s)
    BY <1>2, <2>1, LeastOf
  <2>4. RemoveFirst(s, e) = RemoveAt(s, Min(I))
    BY <1>2 DEF RemoveFirst, SelectInSeq
  <2> DEFINE k == Min(I)
  <2>5. k \in 1 .. Len(s)
    BY <2>2
  <2> HIDE DEF k
  <2>6. SubSeq(s, 1, k - 1) \in Seq(S) /\ SubSeq(s, k + 1, Len(s)) \in Seq(S)
    BY <2>5
  <2>7. RemoveAt(s, k) \in Seq(S)
    BY <2>6 DEF RemoveAt
  <2> QED
    BY <2>4, <2>7 DEF k
<1> QED
  BY <1>1, <1>2

\* The steps that touch neither the appenders nor the events.
LEMMA PlainTypes ==
  ASSUME LogTypes, NEW t \in Threads, todo[t] # <<>>, NEW new, IsList(new), Continue(t, new),
         UNCHANGED <<appenders, colorOn, out>>, LoggerTypeOK', ListedHasFormatter',
         IsFiniteSet(loggers_)', \A i \in DOMAIN new : StepOK(new[i])'
  PROVE  LogTypes'
<1>1. Grows
  BY DEF Grows
<1>2. Todo'
  BY <1>1, ContinuedTodo DEF LogTypes
<1> QED
  BY <1>2 DEF LogTypes

\* The steps after which the call just goes on.
LEMMA PopTypes ==
  ASSUME LogTypes, NEW t \in Threads, todo[t] # <<>>, Continue(t, <<>>), Grows,
         LoggerTypeOK', ListedHasFormatter', IsFiniteSet(loggers_)'
  PROVE  LogTypes'
<1> DEFINE new == <<>>
<1>1. IsList(new) /\ DOMAIN new = {} /\ Continue(t, new)
  BY ListOfNone
<1> HIDE DEF new
<1>2. \A i \in DOMAIN new : StepOK(new[i])'
  BY <1>1
<1>3. Todo'
  BY <1>1, <1>2, ContinuedTodo DEF LogTypes
<1> QED
  BY <1>3 DEF LogTypes

Appender == [kind : {"stdout", "file"}, level : 0 .. 5, pattern : Patterns \cup {NoPattern}]

\* An appender with a formatter keeps one.
LEMMA Repatterned ==
  ASSUME appenders \in Seq(Appender), NEW a \in DOMAIN appenders,
         NEW p \in Patterns \cup {NoPattern}, appenders[a].pattern # NoPattern => p # NoPattern,
         appenders' = [appenders EXCEPT ![a].pattern = p]
  PROVE  /\ appenders' \in Seq(Appender) /\ DOMAIN appenders' = DOMAIN appenders
         /\ appenders'[a].pattern = p
         /\ \A b \in DOMAIN appenders : b # a => appenders'[b] = appenders[b]
         /\ \A b \in DOMAIN appenders : /\ appenders'[b].kind = appenders[b].kind
                                       /\ appenders'[b].level = appenders[b].level
         /\ Grows \/ ~UNCHANGED colorOn
<1> DEFINE r == [appenders[a] EXCEPT !.pattern = p]
<1>1. appenders[a] \in Appender
  OBVIOUS
<1>2. r \in Appender /\ r.pattern = p /\ r.kind = appenders[a].kind /\ r.level = appenders[a].level
  BY <1>1 DEF Appender
<1>3. appenders' = [appenders EXCEPT ![a] = r]
  OBVIOUS
<1> HIDE DEF r
<1>4. appenders' \in Seq(Appender) /\ DOMAIN appenders' = DOMAIN appenders
  BY <1>2, <1>3
<1>5. appenders'[a] = r /\ \A b \in DOMAIN appenders : b # a => appenders'[b] = appenders[b]
  BY <1>3
<1>6. Grows \/ ~UNCHANGED colorOn
  BY <1>2, <1>4, <1>5 DEF Grows
<1> QED
  BY <1>2, <1>4, <1>5, <1>6

LEMMA ConfTypes ==
  ASSUME LogTypes, NEW t \in Threads,
         find(t) \/ setLevel(t) \/ setFormatter(t) \/ setAppenderFormatter(t) \/ skip(t)
  PROVE  LogTypes'
<1>1. todo[t] # <<>> /\ Continue(t, <<>>) /\ UNCHANGED <<mutex_, manager_mutex_, appenders_, colorOn,
                                                     calls, out>>
  BY DEF find, setLevel, setFormatter, setAppenderFormatter, skip, At, loggerConf
<1>2. StepOK(Step(t))
  BY <1>1, HeadStep DEF LogTypes
<1>3. CASE find(t)
  <2>1. /\ loggers_' = loggers_ \cup {Step(t).at} /\ Step(t).do = "find"
        /\ UNCHANGED <<level_, pFormatter_, appenders>>
    BY <1>3 DEF find, loggerConf, At, Step
  <2>2. Step(t).at \in Loggers
    BY <1>2, <2>1 DEF StepOK, AtLogger
  <2>3. LoggerTypeOK' /\ ListedHasFormatter' /\ Grows
    BY <1>1, <2>1, <2>2 DEF LogTypes, LoggerTypeOK, ListedHasFormatter, Grows, Holders
  <2>4. IsFiniteSet(loggers_)'
    BY <2>1, FS_AddElement DEF LogTypes
  <2> QED
    BY <1>1, <2>3, <2>4, PopTypes
<1>4. CASE setLevel(t)
  <2>1. /\ level_' = [level_ EXCEPT ![Step(t).at] = Step(t).level] /\ Step(t).do = "setLevel"
        /\ UNCHANGED <<pFormatter_, appenders, loggers_>>
    BY <1>4 DEF setLevel, At, Step
  <2>2. Step(t).level \in 0 .. 5
    BY <1>2, <2>1 DEF StepOK
  <2>3. LoggerTypeOK' /\ ListedHasFormatter' /\ Grows /\ IsFiniteSet(loggers_)'
    BY <1>1, <2>1, <2>2 DEF LogTypes, LoggerTypeOK, ListedHasFormatter, Grows, Holders
  <2> QED
    BY <1>1, <2>3, PopTypes
<1>5. CASE setFormatter(t)
  <2>1. /\ pFormatter_' = [pFormatter_ EXCEPT ![Step(t).at] = Step(t).pattern]
        /\ Step(t).do = "setFormatter" /\ UNCHANGED <<level_, appenders, loggers_>>
    BY <1>5 DEF setFormatter, At, Step
  <2>2. Step(t).pattern \in Patterns
    BY <1>2, <2>1 DEF StepOK
  <2>3. LoggerTypeOK' /\ ListedHasFormatter' /\ Grows /\ IsFiniteSet(loggers_)'
    BY <1>1, <2>1, <2>2 DEF LogTypes, LoggerTypeOK, ListedHasFormatter, Grows, Holders
  <2> QED
    BY <1>1, <2>3, PopTypes
<1>6. CASE setAppenderFormatter(t)
  <2>1. /\ appenders' = [appenders EXCEPT ![Step(t).appender].pattern = Step(t).pattern]
        /\ Step(t).do = "setAppenderFormatter"
        /\ UNCHANGED <<level_, pFormatter_, loggers_>>
    BY <1>6 DEF setAppenderFormatter, At, Step, loggerConf
  <2>2. Step(t).pattern \in Patterns /\ Step(t).pattern # NoPattern
    BY <1>2, <2>1, LoggerAssumption DEF StepOK
  <2>3. appenders \in Seq(Appender) /\ Step(t).appender \in DOMAIN appenders
    BY <1>2, <2>1 DEF LogTypes, LoggerTypeOK, StepOK, Appender
  <2>4. /\ appenders' \in Seq(Appender) /\ DOMAIN appenders' = DOMAIN appenders /\ Grows
    BY <1>1, <2>1, <2>2, <2>3, Repatterned
  <2>5. LoggerTypeOK'
    BY <1>1, <2>1, <2>4 DEF LogTypes, LoggerTypeOK, Holders, Appender
  <2>6. ListedHasFormatter'
    BY <1>1, <2>4 DEF LogTypes, LoggerTypeOK, ListedHasFormatter, Grows
  <2>7. Grows /\ IsFiniteSet(loggers_)'
    BY <1>1, <2>1, <2>4 DEF Grows, LogTypes
  <2> QED
    BY <1>1, <2>5, <2>6, <2>7, PopTypes
<1>7. CASE skip(t)
  <2>1. UNCHANGED <<level_, pFormatter_, loggers_, appenders>>
    BY <1>7 DEF skip, loggerConf
  <2>2. LoggerTypeOK' /\ ListedHasFormatter' /\ Grows /\ IsFiniteSet(loggers_)'
    BY <1>1, <2>1 DEF LogTypes, LoggerTypeOK, ListedHasFormatter, Grows, Holders
  <2> QED
    BY <1>1, <2>2, PopTypes
<1> QED
  BY <1>3, <1>4, <1>5, <1>6, <1>7

LEMMA ThrowTypes ==
  ASSUME LogTypes, NEW t \in Threads, throw(t)
  PROVE  LogTypes'
<1>1. /\ todo' = [todo EXCEPT ![t] = <<>>]
      /\ UNCHANGED <<level_, pFormatter_, appenders_, mutex_, loggers_, manager_mutex_, appenders,
                     colorOn, calls, out>>
  BY DEF throw, loggerConf
<1>2. LoggerTypeOK' /\ ListedHasFormatter' /\ IsFiniteSet(loggers_)'
  BY <1>1 DEF LogTypes, LoggerTypeOK, ListedHasFormatter, Holders
<1>3. /\ todo' = [u \in Threads |-> todo'[u]] /\ todo'[t] = <<>>
      /\ \A u \in Threads \ {t} : todo'[u] = todo[u]
  BY <1>1 DEF LogTypes, Todo
<1>4. ASSUME NEW u \in Threads
      PROVE  IsList(todo'[u]) /\ \A i \in DOMAIN todo'[u] : StepOK(todo[u][i])'
  <2>1. CASE u = t
    BY <1>3, <2>1, ListOfNone
  <2>2. CASE u # t
    BY <1>1, <1>3, <2>2 DEF LogTypes, Todo, StepOK
  <2> QED
    BY <2>1, <2>2
<1> QED
  BY <1>2, <1>3, <1>4 DEF LogTypes, Todo

LEMMA MakeTypes ==
  ASSUME LogTypes, NEW t \in Threads, makeAppender(t)
  PROVE  LogTypes'
<1> SUFFICES ASSUME NEW step, step = Step(t), NEW n, n = Len(appenders)
             PROVE  LogTypes'
  OBVIOUS
<1> DEFINE new == Made(step.kind, step.level, step.pattern)
           s == [do |-> "add", at |-> step.at, appender |-> n + 1]
<1>1. /\ todo[t] # <<>> /\ step.do = "make" /\ appenders' = Append(appenders, new)
      /\ out' = Append(out, <<>>) /\ Continue(t, <<s>>)
      /\ UNCHANGED <<level_, pFormatter_, appenders_, mutex_, loggers_, manager_mutex_, colorOn,
                     calls>>
  BY DEF makeAppender, At, Step, loggerConf
<1>2. StepOK(step)
  BY <1>1, HeadStep DEF LogTypes
<1>3. new \in Appender
  BY <1>1, <1>2 DEF StepOK, Made, Appender
<1> HIDE DEF new
<1>4. appenders \in Seq(Appender) /\ DOMAIN out = DOMAIN appenders
  BY DEF LogTypes, LoggerTypeOK, Appender
<1>5. /\ appenders' \in Seq(Appender) /\ n \in Nat /\ DOMAIN appenders = 1 .. n
      /\ DOMAIN appenders' = 1 .. n + 1 /\ \A a \in 1 .. n : appenders'[a] = appenders[a]
  BY <1>1, <1>3, <1>4
<1>6. DOMAIN out' = DOMAIN appenders'
  <2>1. Len(out) = n
    BY <1>4, <1>5
  <2> QED
    BY <1>1, <1>5, <2>1
<1>7. Grows
  BY <1>1, <1>5 DEF Grows
<1>8. appenders_' \in [Loggers -> Seq(DOMAIN appenders')]
  <2>1. \A l \in Loggers : appenders_[l] \in Seq(1 .. n)
    BY <1>5 DEF LogTypes, LoggerTypeOK
  <2>2. \A l \in Loggers : appenders_[l] \in Seq(1 .. n + 1)
    BY <1>5, <2>1
  <2> QED
    BY <1>1, <1>5, <2>2 DEF LogTypes, LoggerTypeOK
<1>9. LoggerTypeOK'
  BY <1>1, <1>5, <1>6, <1>8 DEF LogTypes, LoggerTypeOK, Holders, Appender
<1>10. ListedHasFormatter'
  <2> SUFFICES ASSUME NEW l \in Loggers, NEW i \in DOMAIN appenders_[l]
               PROVE  appenders'[appenders_[l][i]].pattern # NoPattern
    BY <1>1 DEF ListedHasFormatter
  <2>1. appenders_[l][i] \in DOMAIN appenders
    BY DEF LogTypes, LoggerTypeOK
  <2>2. appenders[appenders_[l][i]].pattern # NoPattern
    BY DEF LogTypes, ListedHasFormatter
  <2> QED
    BY <1>5, <2>1, <2>2
<1>11. StepOK(s)' /\ s.do \in {"add"}
  BY <1>1, <1>2, <1>5 DEF StepOK, AtLogger, LogSteps
<1> HIDE DEF s
<1>12. IsList(<<s>>) /\ \A i \in DOMAIN <<s>> : StepOK(<<s>>[i])'
  BY <1>11, OneOK
<1> DEFINE one == <<s>>
<1>13. IsList(one) /\ Continue(t, one) /\ \A i \in DOMAIN one : StepOK(one[i])'
  BY <1>1, <1>12
<1> HIDE DEF one
<1>14. Todo'
  BY <1>1, <1>7, <1>13, ContinuedTodo DEF LogTypes
<1> QED
  BY <1>1, <1>9, <1>10, <1>14 DEF LogTypes

LEMMA AddTypes ==
  ASSUME LogTypes, NEW t \in Threads, addAppender(t)
  PROVE  LogTypes'
<1> SUFFICES ASSUME NEW step, step = Step(t),
                    NEW missing, missing = (appenders[step.appender].pattern = NoPattern)
             PROVE  LogTypes'
  OBVIOUS
<1> DEFINE s == [do |-> "put", at |-> step.at, appender |-> step.appender, missing |-> missing]
<1>1. /\ todo[t] # <<>> /\ step.do = "add" /\ mutex_' = [mutex_ EXCEPT ![step.at] = t]
      /\ Continue(t, <<s>>)
      /\ UNCHANGED <<level_, pFormatter_, appenders_, loggers_, manager_mutex_, appenders,
                     colorOn, calls, out>>
  BY DEF addAppender, At, Step, loggerConf
<1>2. StepOK(step)
  BY <1>1, HeadStep DEF LogTypes
<1>3. StepOK(s)' /\ s.do \in {"put"}
  BY <1>1, <1>2 DEF StepOK, AtLogger, LogSteps
<1>4. LoggerTypeOK' /\ ListedHasFormatter' /\ IsFiniteSet(loggers_)'
  BY <1>1 DEF LogTypes, LoggerTypeOK, ListedHasFormatter, Holders
<1> HIDE DEF s
<1>5. IsList(<<s>>) /\ \A i \in DOMAIN <<s>> : StepOK(<<s>>[i])'
  BY <1>3, OneOK
<1> DEFINE one == <<s>>
<1>6. IsList(one) /\ Continue(t, one) /\ \A i \in DOMAIN one : StepOK(one[i])'
  BY <1>1, <1>5
<1> HIDE DEF one
<1> QED
  BY <1>1, <1>4, <1>6, PlainTypes

LEMMA PutTypes ==
  ASSUME LogTypes, NEW t \in Threads, putAppender(t)
  PROVE  LogTypes'
<1> SUFFICES ASSUME NEW step, step = Step(t)
             PROVE  LogTypes'
  OBVIOUS
<1> DEFINE l == step.at
           a == step.appender
           p == IF step.missing THEN pFormatter_[l] ELSE appenders[a].pattern
<1>1. /\ todo[t] # <<>> /\ step.do = "put" /\ appenders' = [appenders EXCEPT ![a].pattern = p]
      /\ appenders_' = [appenders_ EXCEPT ![l] = Append(@, a)]
      /\ mutex_' = [mutex_ EXCEPT ![l] = Nobody] /\ Continue(t, <<>>)
      /\ UNCHANGED <<level_, pFormatter_, loggers_, manager_mutex_, colorOn, calls, out>>
  BY DEF putAppender, At, Step
<1>2. StepOK(step)
  BY <1>1, HeadStep DEF LogTypes
<1>3. l \in Loggers /\ a \in DOMAIN appenders
  BY <1>1, <1>2 DEF StepOK, AtLogger
<1>4. appenders \in Seq(Appender) /\ DOMAIN out = DOMAIN appenders
  BY DEF LogTypes, LoggerTypeOK, Appender
<1>5. p \in Patterns \cup {NoPattern} /\ p # NoPattern
  <2>1. appenders[a] \in Appender
    BY <1>3, <1>4
  <2>2. pFormatter_[l] \in Patterns
    BY <1>3 DEF LogTypes, LoggerTypeOK
  <2> QED
    BY <1>1, <1>2, <2>1, <2>2, LoggerAssumption DEF StepOK, Appender
<1> HIDE DEF p
<1>6. /\ appenders' \in Seq(Appender) /\ DOMAIN appenders' = DOMAIN appenders /\ Grows
      /\ appenders'[a].pattern = p
  BY <1>1, <1>3, <1>4, <1>5, Repatterned
<1> HIDE DEF l, a
<1>7. appenders_' \in [Loggers -> Seq(DOMAIN appenders')]
  <2>1. appenders_[l] \in Seq(DOMAIN appenders)
    BY <1>3 DEF LogTypes, LoggerTypeOK
  <2>2. Append(appenders_[l], a) \in Seq(DOMAIN appenders')
    BY <1>3, <1>6, <2>1
  <2> QED
    BY <1>1, <1>3, <1>6, <2>2 DEF LogTypes, LoggerTypeOK
<1>8. LoggerTypeOK'
  BY <1>1, <1>6, <1>7, <1>4 DEF LogTypes, LoggerTypeOK, Holders, Appender
<1>9. ListedHasFormatter'
  <2> SUFFICES ASSUME NEW k \in Loggers, NEW i \in DOMAIN appenders_'[k]
               PROVE  appenders'[appenders_'[k][i]].pattern # NoPattern
    BY DEF ListedHasFormatter
  <2>1. \A b \in DOMAIN appenders : appenders[b].pattern # NoPattern => appenders'[b].pattern # NoPattern
    BY <1>6 DEF Grows
  <2>2. appenders_[k] \in Seq(DOMAIN appenders)
    BY DEF LogTypes, LoggerTypeOK
  <2>3. CASE appenders_'[k][i] = a
    BY <1>5, <1>6, <2>3
  <2>4. CASE i \in DOMAIN appenders_[k] /\ appenders_'[k][i] = appenders_[k][i]
    BY <2>1, <2>2, <2>4 DEF LogTypes, ListedHasFormatter
  <2>5. appenders_'[k] \in {appenders_[k], Append(appenders_[k], a)}
    BY <1>1 DEF LogTypes, LoggerTypeOK
  <2> QED
    BY <2>2, <2>3, <2>4, <2>5
<1>10. IsFiniteSet(loggers_)'
  BY <1>1 DEF LogTypes
<1> QED
  BY <1>1, <1>6, <1>8, <1>9, <1>10, PopTypes

LEMMA SetListTypes ==
  ASSUME LogTypes, NEW t \in Threads, removeAppender(t) \/ clearAppenders(t)
  PROVE  LogTypes'
<1> SUFFICES ASSUME NEW l, l = Step(t).at
             PROVE  LogTypes'
  OBVIOUS
<1>1. todo[t] # <<>> /\ Step(t).do \in {"remove", "clear"}
  BY DEF removeAppender, clearAppenders, At, Step
<1>2. PICK list : SetList(t, list) /\ list \in {<<>>, RemoveFirst(appenders_[l], Step(t).appender)}
  BY DEF removeAppender, clearAppenders
<1>3. l \in Loggers
  BY <1>1, HeadStep DEF LogTypes, StepOK, AtLogger
<1>4. /\ appenders_' = [appenders_ EXCEPT ![l] = list] /\ Continue(t, <<>>)
      /\ UNCHANGED <<level_, pFormatter_, mutex_, loggers_, manager_mutex_, appenders, colorOn, calls,
                     out>>
  BY <1>2 DEF SetList
<1>5. appenders_[l] \in Seq(DOMAIN appenders)
  BY <1>3 DEF LogTypes, LoggerTypeOK
<1>6. list \in Seq(DOMAIN appenders)
  <2>1. RemoveFirst(appenders_[l], Step(t).appender) \in Seq(DOMAIN appenders)
    BY <1>5, Shortened
  <2>2. <<>> \in Seq(DOMAIN appenders)
    OBVIOUS
  <2> QED
    BY <1>2, <2>1, <2>2
<1>7. LoggerTypeOK'
  BY <1>4, <1>6 DEF LogTypes, LoggerTypeOK, Holders
<1>8. ListedHasFormatter'
  <2> SUFFICES ASSUME NEW k \in Loggers, NEW i \in DOMAIN appenders_'[k]
               PROVE  appenders[appenders_'[k][i]].pattern # NoPattern
    BY <1>4 DEF ListedHasFormatter
  <2>1. \E j \in DOMAIN appenders_[k] : appenders_'[k][i] = appenders_[k][j]
    <3>1. CASE k = l /\ list = RemoveFirst(appenders_[l], Step(t).appender)
      <4> DEFINE S == {appenders_[l][j] : j \in DOMAIN appenders_[l]}
      <4>1. appenders_[l] \in Seq(S)
        BY <1>5
      <4>2. list \in Seq(S)
        BY <3>1, <4>1, Shortened
      <4>3. appenders_'[k] = list
        BY <1>4, <3>1 DEF LogTypes, LoggerTypeOK
      <4>4. list[i] \in S
        BY <4>2, <4>3
      <4> QED
        BY <3>1, <4>3, <4>4
    <3>2. CASE k = l /\ list = <<>>
      <4>1. appenders_'[k] = <<>>
        BY <1>4, <3>2 DEF LogTypes, LoggerTypeOK
      <4> QED
        BY <4>1
    <3>3. CASE k # l
      BY <1>4, <3>3 DEF LogTypes, LoggerTypeOK
    <3> QED
      BY <1>2, <3>1, <3>2, <3>3
  <2> QED
    BY <2>1 DEF LogTypes, ListedHasFormatter
<1>9. IsFiniteSet(loggers_)' /\ Grows
  BY <1>4 DEF LogTypes, Grows
<1> QED
  BY <1>1, <1>4, <1>7, <1>8, <1>9, PopTypes

\* What a call of log() still has to do once it has the logger's mutex: as many
\* writes as the list has entries, or the root logger, then the release.
Nested(l, e) == Targets(l, e) \o <<[do |-> "logged", at |-> l, event |-> e]>>

LEMMA NestedSteps ==
  ASSUME LogTypes, NEW l \in Loggers, NEW e
  PROVE  \E k \in Nat :
           /\ IsList(Nested(l, e)) /\ Len(Nested(l, e)) = k + 1 /\ DOMAIN Nested(l, e) = 1 .. k + 1
           /\ Nested(l, e)[k + 1] = [do |-> "logged", at |-> l, event |-> e]
           /\ appenders_[l] # <<>> =>
                /\ k = Len(appenders_[l])
                /\ \A i \in 1 .. k : Nested(l, e)[i] = [do |-> "write", at |-> l, event |-> e,
                                                      appender |-> appenders_[l][i]]
           /\ (appenders_[l] = <<>> /\ l # Root) =>
                k = 1 /\ Nested(l, e)[1] = [do |-> "log", at |-> Root, event |-> e]
           /\ (appenders_[l] = <<>> /\ l = Root) => k = 0
<1> DEFINE L == appenders_[l]
           n == Targets(l, e)
           last == [do |-> "logged", at |-> l, event |-> e]
           r == n \o <<last>>
<1>1. Len(L) \in Nat /\ DOMAIN L = 1 .. Len(L)
  BY DEF LogTypes, LoggerTypeOK
<1>2. /\ IsList(n)
      /\ L # <<>> => /\ Len(n) = Len(L)
                     /\ \A i \in 1 .. Len(L) : n[i] = [do |-> "write", at |-> l, event |-> e,
                                                     appender |-> L[i]]
      /\ (L = <<>> /\ l # Root) => Len(n) = 1 /\ n[1] = [do |-> "log", at |-> Root, event |-> e]
      /\ (L = <<>> /\ l = Root) => Len(n) = 0
  <2>1. CASE L # <<>>
    <3>1. n = [i \in 1 .. Len(L) |-> [do |-> "write", at |-> l, event |-> e, appender |-> L[i]]]
      BY <1>1, <2>1 DEF Targets
    <3> HIDE DEF n
    <3>2. n = [i \in 1 .. Len(L) |-> n[i]]
      BY <3>1
    <3>3. IsList(n) /\ Len(n) = Len(L)
      BY <1>1, <3>2, FunctionIsList
    <3> QED
      BY <2>1, <3>1, <3>3
  <2>2. CASE L = <<>> /\ l # Root
    <3> DEFINE s == [do |-> "log", at |-> Root, event |-> e]
    <3>1. n = <<s>>
      BY <2>2 DEF Targets
    <3>2. IsList(<<s>>) /\ Len(<<s>>) = 1 /\ <<s>>[1] = s
      BY ListOfOne
    <3> QED
      BY <2>2, <3>1, <3>2
  <2>3. CASE L = <<>> /\ l = Root
    <3>1. n = <<>>
      BY <2>3 DEF Targets
    <3> QED
      BY <2>3, <3>1, ListOfNone
  <2> QED
    BY <2>1, <2>2, <2>3
<1> HIDE DEF n
<1>3. IsList(<<last>>) /\ Len(<<last>>) = 1 /\ <<last>>[1] = last
  BY ListOfOne
<1> DEFINE one == <<last>>
<1>4. IsList(one) /\ Len(one) = 1 /\ one[1] = last /\ r = n \o one
  BY <1>3
<1> HIDE DEF one, last, r
<1>5. /\ IsList(r) /\ Len(r) = Len(n) + 1 /\ \A i \in 1 .. Len(n) : r[i] = n[i]
      /\ \A i \in 1 .. 1 : r[Len(n) + i] = one[i]
  <2>1. IsList(n) /\ IsList(one)
    BY <1>2, <1>4
  <2>2. /\ IsList(n \o one) /\ Len(n \o one) = Len(n) + Len(one)
        /\ \A i \in 1 .. Len(n) : (n \o one)[i] = n[i]
        /\ \A i \in 1 .. Len(one) : (n \o one)[Len(n) + i] = one[i]
    BY <2>1, Joined
  <2> QED
    BY <1>4, <2>2
<1>6. Len(n) \in Nat /\ DOMAIN r = 1 .. Len(r) /\ r[Len(n) + 1] = last
  BY <1>2, <1>4, <1>5, ListIs DEF IsList
<1>7. r = Nested(l, e)
  BY DEF Nested, r, n, last
<1>8. PICK k \in Nat : k = Len(n)
  BY <1>6
<1>9. /\ IsList(r) /\ Len(r) = k + 1 /\ DOMAIN r = 1 .. k + 1 /\ r[k + 1] = last
      /\ \A i \in 1 .. k : r[i] = n[i]
  BY <1>5, <1>6, <1>8
<1>10. L # <<>> => /\ k = Len(L)
                  /\ \A i \in 1 .. k : r[i] = [do |-> "write", at |-> l, event |-> e, appender |-> L[i]]
  BY <1>2, <1>8, <1>9
<1>11. /\ (L = <<>> /\ l # Root) => k = 1 /\ r[1] = [do |-> "log", at |-> Root, event |-> e]
       /\ (L = <<>> /\ l = Root) => k = 0
  BY <1>2, <1>8, <1>9
<1> QED
  BY <1>7, <1>9, <1>10, <1>11 DEF last

LEMMA LogStepTypes ==
  ASSUME LogTypes, NEW t \in Threads, log(t)
  PROVE  LogTypes'
<1> SUFFICES ASSUME NEW step, step = Step(t), NEW new, new = Nested(step.at, step.event)
             PROVE  LogTypes'
  OBVIOUS
<1> DEFINE l == step.at
<1>1. /\ todo[t] # <<>> /\ step.do = "log"
      /\ UNCHANGED <<level_, pFormatter_, appenders_, loggers_, manager_mutex_, appenders, colorOn,
                     calls, out>>
      /\ \/ mutex_[l] = Nobody /\ mutex_' = [mutex_ EXCEPT ![l] = t] /\ Continue(t, new)
         \/ mutex_' = mutex_ /\ Continue(t, <<>>)
  BY DEF log, At, Step, loggerConf, Nested
<1>2. l \in Loggers /\ step.event.id \in DOMAIN colorOn
  BY <1>1, HeadStep DEF LogTypes, StepOK, AtLogger, LogSteps
<1> HIDE DEF l
<1>3. LoggerTypeOK' /\ ListedHasFormatter' /\ IsFiniteSet(loggers_)' /\ Grows
  BY <1>1 DEF LogTypes, LoggerTypeOK, ListedHasFormatter, Holders, Grows
<1>4. CASE Continue(t, <<>>)
  BY <1>1, <1>3, <1>4, PopTypes
<1>5. CASE Continue(t, new)
  <2>1. new = Nested(l, step.event)
    BY DEF l
  <2>2. PICK k \in Nat :
           /\ IsList(new) /\ Len(new) = k + 1 /\ DOMAIN new = 1 .. k + 1
           /\ new[k + 1] = [do |-> "logged", at |-> l, event |-> step.event]
           /\ appenders_[l] # <<>> =>
                /\ k = Len(appenders_[l])
                /\ \A i \in 1 .. k : new[i] = [do |-> "write", at |-> l, event |-> step.event,
                                              appender |-> appenders_[l][i]]
           /\ (appenders_[l] = <<>> /\ l # Root) =>
                k = 1 /\ new[1] = [do |-> "log", at |-> Root, event |-> step.event]
           /\ (appenders_[l] = <<>> /\ l = Root) => k = 0
    BY <1>2, <2>1, NestedSteps
  <2>3. ASSUME NEW i \in DOMAIN new
        PROVE  StepOK(new[i])'
    <3>1. CASE i = k + 1
      BY <1>1, <1>2, <2>2, <3>1 DEF StepOK, AtLogger, LogSteps
    <3>2. CASE i # k + 1 /\ appenders_[l] # <<>>
      <4>1. appenders_[l] \in Seq(DOMAIN appenders) /\ i \in 1 .. Len(appenders_[l])
        BY <1>2, <2>2, <3>2 DEF LogTypes, LoggerTypeOK
      <4>2. appenders_[l][i] \in DOMAIN appenders
        BY <4>1
      <4>3. new[i] = [do |-> "write", at |-> l, event |-> step.event, appender |-> appenders_[l][i]]
        BY <2>2, <3>2
      <4> QED
        BY <1>1, <1>2, <4>2, <4>3 DEF StepOK, AtLogger, LogSteps
    <3>3. CASE i # k + 1 /\ appenders_[l] = <<>>
      <4>1. new[i] = [do |-> "log", at |-> Root, event |-> step.event]
        BY <2>2, <3>3
      <4> QED
        BY <1>1, <1>2, <4>1, LoggerAssumption DEF StepOK, AtLogger, LogSteps
    <3> QED
      BY <3>1, <3>2, <3>3
  <2> QED
    BY <1>1, <1>3, <1>5, <2>2, <2>3, PlainTypes
<1> QED
  BY <1>1, <1>4, <1>5

\* What a write does to the lines of its appender.
LEMMA WriteTypes ==
  ASSUME LogTypes, NEW t \in Threads, write(t)
  PROVE  LogTypes'
<1>1. /\ todo[t] # <<>> /\ Step(t).do = "write" /\ Continue(t, <<>>)
      /\ UNCHANGED <<level_, pFormatter_, appenders_, mutex_, loggers_, manager_mutex_, appenders,
                     calls>>
  BY DEF write, At, Step, loggerConf
<1>2. Step(t).appender \in DOMAIN appenders /\ Step(t).event.id \in DOMAIN colorOn
  BY <1>1, HeadStep DEF LogTypes, StepOK, AtLogger, LogSteps
<1>3. DOMAIN out' = DOMAIN out
  BY DEF write
<1>4. colorOn' \in Seq(BOOLEAN) /\ DOMAIN colorOn' = DOMAIN colorOn
  <2>1. colorOn \in Seq(BOOLEAN)
    BY DEF LogTypes, LoggerTypeOK
  <2>2. ASSUME NEW kind, NEW on \in BOOLEAN
        PROVE  ColorAfter(kind, on) \in BOOLEAN
    BY DEF ColorAfter
  <2>3. \/ colorOn' = colorOn
        \/ colorOn' = [colorOn EXCEPT ![Step(t).event.id] =
                         ColorAfter(appenders[Step(t).appender].kind, colorOn[Step(t).event.id])]
    BY DEF write
  <2>4. ColorAfter(appenders[Step(t).appender].kind, colorOn[Step(t).event.id]) \in BOOLEAN
    BY <1>2, <2>1, <2>2
  <2> HIDE DEF ColorAfter
  <2> QED
    BY <1>2, <2>1, <2>3, <2>4
<1>5. LoggerTypeOK' /\ ListedHasFormatter' /\ IsFiniteSet(loggers_)' /\ Grows
  BY <1>1, <1>3, <1>4 DEF LogTypes, LoggerTypeOK, ListedHasFormatter, Holders, Grows
<1> QED
  BY <1>1, <1>5, PopTypes

\* The steps of toYamlString: every "dumped" comes after the "dump" of its logger.
Dumps(ls) == [k \in 1 .. 2 * Len(ls) |->
                [do |-> IF k % 2 = 1 THEN "dump" ELSE "dumped", at |-> ls[(k + 1) \div 2]]]
             \o <<[do |-> "dumpedAll"]>>

LEMMA DumpSteps ==
  ASSUME NEW S, IsFiniteSet(S), NEW ls \in Orders(S)
  PROVE  \E n \in Nat :
           /\ IsList(Dumps(ls)) /\ DOMAIN Dumps(ls) = 1 .. n + 1 /\ Len(Dumps(ls)) = n + 1
           /\ Dumps(ls)[n + 1].do = "dumpedAll"
           /\ \A k \in 1 .. n : Dumps(ls)[k].do \in {"dump", "dumped"} /\ Dumps(ls)[k].at \in S
           /\ \A k \in 1 .. n : Dumps(ls)[k].do = "dumped" =>
                /\ k # 1 /\ Dumps(ls)[k - 1].do = "dump"
                /\ Dumps(ls)[k - 1].at = Dumps(ls)[k].at
           /\ \A k \in 1 .. n : Dumps(ls)[k].do = "dump" =>
                /\ k + 1 \in 1 .. n /\ Dumps(ls)[k + 1].do = "dumped"
                /\ Dumps(ls)[k + 1].at = Dumps(ls)[k].at
<1> DEFINE c == Cardinality(S)
           n == 2 * Len(ls)
           a == [k \in 1 .. n |-> [do |-> IF k % 2 = 1 THEN "dump" ELSE "dumped",
                                   at |-> ls[(k + 1) \div 2]]]
           last == [do |-> "dumpedAll"]
           new == a \o <<last>>
<1>1. c \in Nat
  BY FS_CardinalityType
<1>2. ls \in [1 .. c -> S]
  BY DEF Orders
<1> HIDE DEF c
<1>3. Len(ls) = c
  BY <1>1, <1>2
<1>4. n \in Nat /\ n = 2 * c
  BY <1>1, <1>3
<1> HIDE DEF n
<1>5. ASSUME NEW k \in 1 .. n
      PROVE  /\ a[k].do \in {"dump", "dumped"} /\ a[k].at \in S
             /\ a[k].do = "dumped" => k # 1 /\ a[k - 1].do = "dump" /\ a[k - 1].at = a[k].at
             /\ a[k].do = "dump" =>
                  k + 1 \in 1 .. n /\ a[k + 1].do = "dumped" /\ a[k + 1].at = a[k].at
  <2>1. (k + 1) \div 2 \in 1 .. c
    BY <1>1, <1>4
  <2>2. ls[(k + 1) \div 2] \in S
    BY <1>2, <2>1
  <2>3. a[k].do \in {"dump", "dumped"} /\ a[k].at = ls[(k + 1) \div 2]
    OBVIOUS
  <2>4. ASSUME a[k].do = "dumped"
        PROVE  k # 1 /\ a[k - 1].do = "dump" /\ a[k - 1].at = a[k].at
    <3>1. k % 2 = 0
      BY <1>4, <2>4
    <3>2. k - 1 \in 1 .. n /\ (k - 1) % 2 = 1 /\ ((k - 1) + 1) \div 2 = (k + 1) \div 2
      BY <1>4, <3>1
    <3> QED
      BY <2>3, <3>2
  <2>5. ASSUME a[k].do = "dump"
        PROVE  k + 1 \in 1 .. n /\ a[k + 1].do = "dumped" /\ a[k + 1].at = a[k].at
    <3>1. k % 2 = 1
      BY <1>4, <2>5
    <3>2. k + 1 \in 1 .. n /\ (k + 1) % 2 # 1 /\ ((k + 1) + 1) \div 2 = (k + 1) \div 2
      BY <1>1, <1>4, <3>1
    <3> QED
      BY <2>3, <3>2
  <2> QED
    BY <2>2, <2>3, <2>4, <2>5
<1>6. IsList(a) /\ Len(a) = n
  <2>1. a = [k \in 1 .. n |-> a[k]]
    OBVIOUS
  <2> HIDE DEF a
  <2> QED
    BY <1>4, <2>1, FunctionIsList
<1> HIDE DEF a
<1>7. IsList(<<last>>) /\ Len(<<last>>) = 1 /\ <<last>>[1] = last
  BY ListOfOne
<1>8. /\ IsList(new) /\ Len(new) = n + 1 /\ \A i \in 1 .. n : new[i] = a[i]
      /\ \A i \in 1 .. 1 : new[n + i] = <<last>>[i]
  BY <1>6, <1>7, Joined
<1> HIDE DEF new
<1>9. DOMAIN new = 1 .. n + 1 /\ new[n + 1].do = "dumpedAll"
  BY <1>4, <1>7, <1>8, ListIs DEF IsList
<1>10. /\ \A k \in 1 .. n : new[k].do \in {"dump", "dumped"} /\ new[k].at \in S
       /\ \A k \in 1 .. n : new[k].do = "dumped" =>
            k # 1 /\ new[k - 1].do = "dump" /\ new[k - 1].at = new[k].at
       /\ \A k \in 1 .. n : new[k].do = "dump" =>
            k + 1 \in 1 .. n /\ new[k + 1].do = "dumped" /\ new[k + 1].at = new[k].at
  <2> SUFFICES ASSUME NEW k \in 1 .. n
               PROVE  /\ new[k].do \in {"dump", "dumped"} /\ new[k].at \in S
                      /\ new[k].do = "dumped" =>
                           k # 1 /\ new[k - 1].do = "dump" /\ new[k - 1].at = new[k].at
                      /\ new[k].do = "dump" =>
                           k + 1 \in 1 .. n /\ new[k + 1].do = "dumped" /\ new[k + 1].at = new[k].at
    OBVIOUS
  <2>1. new[k] = a[k]
    BY <1>8
  <2>2. /\ k # 1 => new[k - 1] = a[k - 1]
        /\ k + 1 \in 1 .. n => new[k + 1] = a[k + 1]
    BY <1>4, <1>8
  <2> QED
    BY <1>5, <2>1, <2>2
<1>11. new = Dumps(ls)
  BY DEF new, a, n, last, Dumps
<1> QED
  BY <1>4, <1>8, <1>9, <1>10, <1>11

LEMMA DumpAllTypes ==
  ASSUME LogTypes, NEW t \in Threads, dumpAll(t)
  PROVE  LogTypes'
<1>1. PICK ls \in Orders(loggers_) : Continue(t, Dumps(ls))
  BY DEF dumpAll, Dumps
<1> DEFINE new == Dumps(ls)
<1>2. PICK n \in Nat :
         /\ IsList(new) /\ DOMAIN new = 1 .. n + 1 /\ Len(new) = n + 1
         /\ new[n + 1].do = "dumpedAll"
         /\ \A k \in 1 .. n : new[k].do \in {"dump", "dumped"} /\ new[k].at \in loggers_
  BY DumpSteps DEF LogTypes
<1>3. Continue(t, new)
  BY <1>1
<1> HIDE DEF new
<1>4. \A i \in DOMAIN new : StepOK(new[i])'
  <2> SUFFICES ASSUME NEW i \in 1 .. n + 1
               PROVE  StepOK(new[i])'
    BY <1>2 DEF StepOK
  <2>1. CASE i = n + 1
    BY <1>2, <2>1 DEF StepOK, AtLogger, LogSteps
  <2>2. CASE i \in 1 .. n
    <3>1. new[i].do \in {"dump", "dumped"} /\ new[i].at \in Loggers
      BY <1>2, <2>2 DEF LogTypes, LoggerTypeOK
    <3> QED
      BY <3>1 DEF StepOK, AtLogger, LogSteps
  <2> QED
    BY <1>2, <2>1, <2>2
<1>5. /\ todo[t] # <<>> /\ manager_mutex_' = t
      /\ UNCHANGED <<level_, pFormatter_, appenders_, mutex_, loggers_, appenders, colorOn, calls,
                     out>>
  BY DEF dumpAll, At, loggerConf
<1>6. LoggerTypeOK' /\ ListedHasFormatter' /\ IsFiniteSet(loggers_)'
  BY <1>5 DEF LogTypes, LoggerTypeOK, ListedHasFormatter, Holders
<1> QED
  BY <1>2, <1>3, <1>4, <1>5, <1>6, PlainTypes

LEMMA UnlockTypes ==
  ASSUME LogTypes, NEW t \in Threads,
         dump(t) \/ dumpedAll(t) \/ Unlock(t, "logged") \/ Unlock(t, "dumped")
  PROVE  LogTypes'
<1>1. /\ todo[t] # <<>> /\ Continue(t, <<>>)
      /\ UNCHANGED <<level_, pFormatter_, appenders_, loggers_, appenders, colorOn, calls, out>>
      /\ \/ mutex_' = [mutex_ EXCEPT ![Step(t).at] = t] /\ UNCHANGED manager_mutex_
         \/ mutex_' = [mutex_ EXCEPT ![Step(t).at] = Nobody] /\ UNCHANGED manager_mutex_
         \/ UNCHANGED mutex_ /\ manager_mutex_' = Nobody
  BY DEF dump, dumpedAll, Unlock, At, loggerConf
<1>2. LoggerTypeOK' /\ ListedHasFormatter' /\ IsFiniteSet(loggers_)' /\ Grows
  BY <1>1 DEF LogTypes, LoggerTypeOK, ListedHasFormatter, Holders, Grows
<1> QED
  BY <1>1, <1>2, PopTypes

LEMMA LogTypesInit == LoggerInit => LogTypes
<1> SUFFICES ASSUME LoggerInit
             PROVE  LogTypes
  OBVIOUS
<1> DEFINE stdout == Made("stdout", LDEBUG, kDefaultFormatPattern)
<1>1. stdout \in Appender /\ stdout.pattern # NoPattern
  BY LoggerAssumption DEF Made, LDEBUG, Appender
<1>2. appenders = <<stdout>> /\ out = <<(<<>>)>>
  BY DEF LoggerInit
<1> HIDE DEF stdout
<1>3. /\ appenders \in Seq(Appender) /\ DOMAIN appenders = {1} /\ DOMAIN out = {1}
      /\ appenders[1] = stdout
  BY <1>1, <1>2
<1>4. appenders_ \in [Loggers -> Seq(DOMAIN appenders)]
      /\ \A l \in Loggers : \A i \in DOMAIN appenders_[l] : appenders_[l][i] = 1
  <2>1. appenders_ = [l \in Loggers |-> IF l = Root THEN <<1>> ELSE <<>>]
    BY DEF LoggerInit
  <2>2. \A l \in Loggers : appenders_[l] \in Seq({1})
    <3>1. <<1>> \in Seq({1}) /\ <<>> \in Seq({1})
      OBVIOUS
    <3>2. \A l \in Loggers : appenders_[l] \in {<<1>>, <<>>}
      BY <2>1
    <3> QED
      BY <3>1, <3>2
  <2>3. appenders_ \in [Loggers -> Seq({1})]
    BY <2>1, <2>2
  <2>4. \A l \in Loggers : \A i \in DOMAIN appenders_[l] : appenders_[l][i] = 1
    BY <2>2
  <2> QED
    BY <1>3, <2>3, <2>4
<1>5. LoggerTypeOK
  BY <1>3, <1>4, LoggerAssumption DEF LoggerInit, LoggerTypeOK, Holders, LDEBUG, Appender
<1>6. ListedHasFormatter
  BY <1>1, <1>3, <1>4 DEF ListedHasFormatter
<1>7. IsFiniteSet(loggers_)
  BY FS_Singleton DEF LoggerInit
<1>8. Todo
  BY ListOfNone DEF LoggerInit, Todo
<1> QED
  BY <1>5, <1>6, <1>7, <1>8 DEF LogTypes

LEMMA LogTypesStep ==
  ASSUME LogTypes, [LoggerNext]_loggerVars
  PROVE  LogTypes'
<1>1. CASE UNCHANGED loggerVars
  BY <1>1 DEF loggerVars, loggerConf, LogTypes, LoggerTypeOK, ListedHasFormatter, Todo, StepOK,
              Holders
<1>2. CASE LoggerNext
  <2>1. PICK t \in Threads : Request(t) \/ Do(t)
    BY <1>2 DEF LoggerNext
  <2>2. CASE Request(t)
    BY <2>2, NewEventTypes, GetLoggerTypes, InitTypes, MemberTypes DEF Request
  <2>3. CASE find(t) \/ setLevel(t) \/ setFormatter(t) \/ setAppenderFormatter(t) \/ skip(t)
    BY <2>3, ConfTypes
  <2>4. CASE throw(t) \/ makeAppender(t) \/ addAppender(t) \/ putAppender(t)
    BY <2>4, ThrowTypes, MakeTypes, AddTypes, PutTypes
  <2>5. CASE removeAppender(t) \/ clearAppenders(t)
    BY <2>5, SetListTypes
  <2>6. CASE log(t) \/ write(t)
    BY <2>6, LogStepTypes, WriteTypes
  <2>7. CASE dumpAll(t)
    BY <2>7, DumpAllTypes
  <2>8. CASE dump(t) \/ dumpedAll(t) \/ Unlock(t, "logged") \/ Unlock(t, "dumped")
    BY <2>8, UnlockTypes
  <2> QED
    BY <2>1, <2>2, <2>3, <2>4, <2>5, <2>6, <2>7, <2>8 DEF Do
<1> QED
  BY <1>1, <1>2

\* Every variable keeps its type, and an appender that a logger lists has a
\* formatter, although addAppender tests for one and sets it in two critical
\* sections of the appender's mutex (Logger.cpp:447-455).
THEOREM LoggingTypes == Spec => []TypeOK
<1>1. Init => LogTypes /\ FlaInv
  BY LogTypesInit, FlaInitInv DEF Init
<1>2. LogTypes /\ FlaInv /\ [Next]_vars => (LogTypes /\ FlaInv)'
  <2> SUFFICES ASSUME LogTypes, FlaInv, [Next]_vars
               PROVE  LogTypes' /\ FlaInv'
    OBVIOUS
  <2>1. [LoggerNext]_loggerVars /\ [FlaNext]_flaVars
    BY DEF Next, vars
  <2> QED
    BY <2>1, LogTypesStep, FlaStep
<1>3. LogTypes /\ FlaInv => TypeOK
  BY DEF LogTypes, FlaInv, TypeOK
<1> QED
  BY <1>1, <1>2, <1>3, PTL DEF Spec

-----------------------------------------------------------------------------
(* The loggers: a step of one thread and the others *)

\* A step of t leaves the others their mutexes, and the lists these protect.
Leaves(t) == \A l \in Loggers, u \in Threads \ {t} :
               mutex_[l] = u => mutex_'[l] = u /\ appenders_'[l] = appenders_[l]

LEMMA Locked ==
  ASSUME LogTypes, NEW t \in Threads, NEW k,
         \/ mutex_' = mutex_
         \/ mutex_[k] \in {Nobody, t} /\ \E h \in {Nobody, t} : mutex_' = [mutex_ EXCEPT ![k] = h],
         \A l \in Loggers : appenders_'[l] # appenders_[l] => l = k /\ mutex_[k] \in {Nobody, t}
  PROVE  Leaves(t)
<1> SUFFICES ASSUME NEW l \in Loggers, NEW u \in Threads \ {t}, mutex_[l] = u
             PROVE  mutex_'[l] = u /\ appenders_'[l] = appenders_[l]
  BY DEF Leaves
<1>1. u # Nobody /\ u # t /\ mutex_ \in [Loggers -> Holders]
  BY LoggerAssumption DEF LogTypes, LoggerTypeOK
<1> QED
  BY <1>1

LEMMA RequestLeaves ==
  ASSUME LogTypes, NEW t \in Threads, Request(t)
  PROVE  Leaves(t)
<1>1. UNCHANGED <<mutex_, appenders_>>
  BY DEF Request, NewEvent, getLogger, init, Member, Call, loggerConf
<1> QED
  BY <1>1 DEF Leaves

LEMMA DoLeaves ==
  ASSUME LogTypes, NEW t \in Threads, Mine(t), Do(t)
  PROVE  Leaves(t)
<1> SUFFICES ASSUME NEW k, k = Step(t).at
             PROVE  Leaves(t)
  OBVIOUS
<1>1. todo[t] # <<>>
  BY DEF Do, find, setLevel, setFormatter, setAppenderFormatter, skip, throw, makeAppender,
         addAppender, putAppender, removeAppender, clearAppenders, log, write, Unlock, dumpAll, dump,
         dumpedAll, At
<1>2. /\ Step(t) = todo[t][1] /\ 1 \in DOMAIN todo[t]
      /\ Step(t).do \in AtLogger => k \in Loggers
  BY <1>1, HeadStep DEF LogTypes, StepOK
<1>3. Step(t).do \in {"put", "logged", "dumped"} => k \in Loggers /\ mutex_[k] = t
  BY <1>2 DEF Mine, AtLogger, LogSteps
<1>4. CASE \/ find(t) \/ setLevel(t) \/ setFormatter(t) \/ setAppenderFormatter(t) \/ skip(t)
           \/ throw(t) \/ makeAppender(t) \/ write(t) \/ dumpAll(t) \/ dumpedAll(t)
  <2>1. UNCHANGED <<mutex_, appenders_>>
    BY <1>4 DEF find, setLevel, setFormatter, setAppenderFormatter, skip, throw, makeAppender, write,
                dumpAll, dumpedAll, loggerConf
  <2> QED
    BY <2>1 DEF Leaves
<1>5. CASE addAppender(t) \/ log(t) \/ dump(t)
  <2>1. /\ UNCHANGED appenders_
        /\ \/ mutex_' = mutex_
           \/ mutex_[k] = Nobody /\ mutex_' = [mutex_ EXCEPT ![k] = t]
    BY <1>5 DEF addAppender, log, dump, loggerConf
  <2> QED
    BY <2>1, Locked
<1>6. CASE Unlock(t, "logged") \/ Unlock(t, "dumped")
  <2>1. UNCHANGED appenders_ /\ mutex_' = [mutex_ EXCEPT ![k] = Nobody]
        /\ Step(t).do \in {"logged", "dumped"}
    BY <1>6 DEF Unlock, loggerConf, At, Step
  <2> QED
    BY <1>3, <2>1, Locked
<1>7. CASE putAppender(t)
  <2>1. /\ Step(t).do = "put" /\ mutex_' = [mutex_ EXCEPT ![k] = Nobody]
        /\ appenders_' = [appenders_ EXCEPT ![k] = Append(@, Step(t).appender)]
    BY <1>7 DEF putAppender, At, Step
  <2>2. \A l \in Loggers : l # k => appenders_'[l] = appenders_[l]
    BY <2>1 DEF LogTypes, LoggerTypeOK
  <2> QED
    BY <1>3, <2>1, <2>2, Locked
<1>8. CASE removeAppender(t) \/ clearAppenders(t)
  <2>1. PICK list : /\ mutex_[k] = Nobody /\ mutex_' = mutex_
                    /\ appenders_' = [appenders_ EXCEPT ![k] = list]
    BY <1>8 DEF removeAppender, clearAppenders, SetList
  <2>2. \A l \in Loggers : l # k => appenders_'[l] = appenders_[l]
    BY <2>1 DEF LogTypes, LoggerTypeOK
  <2> QED
    BY <2>1, <2>2, Locked
<1> QED
  BY <1>4, <1>5, <1>6, <1>7, <1>8 DEF Do

\* So the others keep what they rely on.
LEMMA MineStays ==
  ASSUME LogTypes, NEW t \in Threads, Leaves(t), NEW u \in Threads \ {t}, todo'[u] = todo[u],
         Mine(u)
  PROVE  Mine(u)'
<1>1. \A i \in DOMAIN todo[u] : StepOK(todo[u][i])
  BY DEF LogTypes, Todo
<1>2. \A i \in DOMAIN todo[u] :
        /\ todo[u][i].do \in {"put", "write", "logged"} => mutex_'[todo[u][i].at] = u
        /\ (todo[u][i].do = "dumped" /\ i = 1) => mutex_'[todo[u][i].at] = u
  BY <1>1 DEF Mine, Leaves, StepOK, AtLogger, LogSteps
<1> SUFFICES ASSUME NEW i \in DOMAIN todo[u]
             PROVE  LET s == todo[u][i] IN
                    /\ s.do \in {"put", "log"} => i = 1
                    /\ s.do \in {"put", "write", "logged"} => mutex_'[s.at] = u
                    /\ s.do = "dumped" => IF i = 1 THEN mutex_'[s.at] = u
                          ELSE todo[u][i - 1].do = "dump" /\ todo[u][i - 1].at = s.at
                    /\ s.do \in LogSteps => \A j \in DOMAIN todo[u] : /\ todo[u][j].do \in LogSteps
                                                                   /\ todo[u][j].event = s.event
                    /\ s.do = "logged" => \A j \in DOMAIN todo[u] :
                            todo[u][j].do = "logged" /\ j # i => todo[u][j].at # s.at
                    /\ s.do = "write" => \A j \in 1 .. i - 1 : todo[u][j].do = "write" /\ todo[u][j].at = s.at
                    /\ s.do = "write" => \E q \in DOMAIN todo[u] : Releases(u, q, s.at)
  BY DEF Mine, Releases
<1> QED
  BY <1>2 DEF Mine

-----------------------------------------------------------------------------
(* The loggers: the calls other than log() *)

Quiet(t) == \A i \in DOMAIN todo[t] : todo[t][i].do \notin LogSteps

LEMMA QuietMine ==
  ASSUME NEW t \in Threads,
         \A i \in DOMAIN todo'[t] :
           LET s == todo'[t][i] IN
           /\ s.do \notin LogSteps
           /\ s.do = "put" => i = 1 /\ mutex_'[s.at] = t
           /\ s.do = "dumped" => IF i = 1 THEN mutex_'[s.at] = t
                                 ELSE todo'[t][i - 1].do = "dump" /\ todo'[t][i - 1].at = s.at
  PROVE  Mine(t)' /\ Quiet(t)'
BY DEF Mine, Quiet, LogSteps

LEMMA QuietHead ==
  ASSUME LogTypes, NEW t \in Threads, Mine(t), todo[t] # <<>>, Step(t).do \notin LogSteps
  PROVE  Quiet(t)
<1>1. 1 \in DOMAIN todo[t] /\ Step(t) = todo[t][1]
  BY HeadStep DEF LogTypes
<1> QED
  BY <1>1 DEF Mine, Quiet

\* The call goes on; after a "dump" the mutex of that logger is held.
LEMMA QuietPop ==
  ASSUME LogTypes, NEW t \in Threads, Mine(t), todo[t] # <<>>, Continue(t, <<>>),
         Step(t).do \notin LogSteps, Step(t).do = "dump" => mutex_'[Step(t).at] = t
  PROVE  Mine(t)' /\ Quiet(t)'
<1>1. Quiet(t)
  BY QuietHead
<1>2. /\ Len(todo[t]) \in Nat \ {0} /\ DOMAIN todo[t] = 1 .. Len(todo[t]) /\ Step(t) = todo[t][1]
  BY HeadStep DEF LogTypes
<1>3. /\ DOMAIN todo'[t] = 1 .. Len(todo[t]) - 1
      /\ \A i \in 1 .. Len(todo[t]) - 1 : todo'[t][i] = todo[t][i + 1]
  BY Popped DEF LogTypes
<1>4. ASSUME NEW i \in DOMAIN todo'[t]
      PROVE  LET s == todo'[t][i] IN
             /\ s.do \notin LogSteps
             /\ s.do = "put" => i = 1 /\ mutex_'[s.at] = t
             /\ s.do = "dumped" => IF i = 1 THEN mutex_'[s.at] = t
                                   ELSE todo'[t][i - 1].do = "dump" /\ todo'[t][i - 1].at = s.at
  <2>1. i \in 1 .. Len(todo[t]) - 1 /\ i + 1 \in DOMAIN todo[t] /\ i + 1 # 1 /\ (i + 1) - 1 = i
    BY <1>2, <1>3
  <2>2. todo'[t][i] = todo[t][i + 1]
    BY <1>3, <2>1
  <2>3. todo[t][i + 1].do \notin LogSteps /\ todo[t][i + 1].do # "put"
    BY <1>1, <2>1 DEF Quiet, Mine
  <2>4. todo[t][i + 1].do = "dumped" => todo[t][i].do = "dump" /\ todo[t][i].at = todo[t][i + 1].at
    BY <2>1 DEF Mine
  <2>5. i # 1 => todo'[t][i - 1] = todo[t][i]
    <3>1. i # 1 => i - 1 \in 1 .. Len(todo[t]) - 1 /\ (i - 1) + 1 = i
      BY <1>2, <2>1
    <3> QED
      BY <1>3, <3>1
  <2> QED
    BY <1>2, <2>2, <2>3, <2>4, <2>5
<1> QED
  BY <1>4, QuietMine

\* "make" becomes "add", and "add" becomes "put".
LEMMA QuietReplace ==
  ASSUME LogTypes, NEW t \in Threads, Mine(t), todo[t] # <<>>, NEW s, Continue(t, <<s>>),
         Step(t).do \in {"make", "add"}, s.do \in {"add", "put"},
         s.do = "put" => mutex_'[s.at] = t
  PROVE  Mine(t)' /\ Quiet(t)'
<1>1. Quiet(t)
  BY QuietHead DEF LogSteps
<1>2. /\ Len(todo[t]) \in Nat \ {0} /\ DOMAIN todo[t] = 1 .. Len(todo[t]) /\ Step(t) = todo[t][1]
  BY HeadStep DEF LogTypes
<1>3. /\ DOMAIN todo'[t] = DOMAIN todo[t]
      /\ todo'[t][1] = s /\ \A i \in DOMAIN todo[t] : i # 1 => todo'[t][i] = todo[t][i]
  BY Replaced DEF LogTypes
<1>4. ASSUME NEW i \in DOMAIN todo'[t]
      PROVE  LET r == todo'[t][i] IN
             /\ r.do \notin LogSteps
             /\ r.do = "put" => i = 1 /\ mutex_'[r.at] = t
             /\ r.do = "dumped" => IF i = 1 THEN mutex_'[r.at] = t
                                   ELSE todo'[t][i - 1].do = "dump" /\ todo'[t][i - 1].at = r.at
  <2>1. CASE i = 1
    BY <1>3, <2>1 DEF LogSteps
  <2>2. CASE i # 1
    <3>1. i \in DOMAIN todo[t] /\ todo'[t][i] = todo[t][i]
      BY <1>3, <2>2
    <3>2. todo[t][i].do \notin LogSteps /\ todo[t][i].do # "put"
      BY <1>1, <2>2, <3>1 DEF Quiet, Mine
    <3>3. todo[t][i].do = "dumped" => todo[t][i - 1].do = "dump" /\ todo[t][i - 1].at = todo[t][i].at
      BY <2>2, <3>1 DEF Mine
    <3>4. i - 1 \in DOMAIN todo[t] /\ (i - 1 # 1 => todo'[t][i - 1] = todo[t][i - 1])
      BY <1>2, <1>3, <2>2
    <3> QED
      BY <1>2, <2>2, <3>1, <3>2, <3>3, <3>4
  <2> QED
    BY <2>1, <2>2
<1> QED
  BY <1>4, QuietMine

LEMMA QuietDumpAll ==
  ASSUME LogTypes, NEW t \in Threads, Mine(t), dumpAll(t)
  PROVE  Mine(t)' /\ Quiet(t)'
<1>1. PICK ls \in Orders(loggers_) : Continue(t, Dumps(ls))
  BY DEF dumpAll, Dumps
<1> DEFINE new == Dumps(ls)
<1>2. PICK n \in Nat :
         /\ IsList(new) /\ DOMAIN new = 1 .. n + 1 /\ Len(new) = n + 1
         /\ new[n + 1].do = "dumpedAll"
         /\ \A k \in 1 .. n : new[k].do \in {"dump", "dumped"} /\ new[k].at \in loggers_
         /\ \A k \in 1 .. n : new[k].do = "dumped" =>
              k # 1 /\ new[k - 1].do = "dump" /\ new[k - 1].at = new[k].at
  BY DumpSteps DEF LogTypes
<1>3. Continue(t, new)
  BY <1>1
<1> HIDE DEF new
<1>4. todo[t] # <<>> /\ Step(t).do = "dumpAll"
  BY DEF dumpAll, At, Step
<1>5. Quiet(t)
  BY <1>4, QuietHead DEF LogSteps
<1> DEFINE m == Len(todo[t])
<1>6. m \in Nat \ {0} /\ DOMAIN todo[t] = 1 .. m /\ Step(t) = todo[t][1]
  BY <1>4, HeadStep DEF LogTypes
<1>7. /\ DOMAIN todo'[t] = 1 .. Len(new) + m - 1
      /\ \A i \in 1 .. Len(new) : todo'[t][i] = new[i]
      /\ \A i \in Len(new) + 1 .. Len(new) + m - 1 : todo'[t][i] = todo[t][i - Len(new) + 1]
  <2>1. Todo /\ todo[t] # <<>> /\ IsList(new) /\ Continue(t, new)
    BY <1>2, <1>3, <1>4 DEF LogTypes
  <2> QED
    BY <2>1, Continued
<1> HIDE DEF m
<1>8. /\ DOMAIN todo'[t] = 1 .. n + m
      /\ \A i \in 1 .. n + 1 : todo'[t][i] = new[i]
      /\ \A i \in n + 2 .. n + m : todo'[t][i] = todo[t][i - n]
  <2>1. \A i \in n + 2 .. n + m : i \in Len(new) + 1 .. Len(new) + m - 1 /\ i - Len(new) + 1 = i - n
    BY <1>2, <1>6
  <2>2. 1 .. Len(new) = 1 .. n + 1 /\ Len(new) + m - 1 = n + m
    BY <1>2, <1>6
  <2> QED
    BY <1>7, <2>1, <2>2
<1>9. ASSUME NEW i \in DOMAIN todo'[t]
      PROVE  LET s == todo'[t][i] IN
             /\ s.do \notin LogSteps
             /\ s.do = "put" => i = 1 /\ mutex_'[s.at] = t
             /\ s.do = "dumped" => IF i = 1 THEN mutex_'[s.at] = t
                                   ELSE todo'[t][i - 1].do = "dump" /\ todo'[t][i - 1].at = s.at
  <2>1. CASE i \in 1 .. n
    <3>1. i # 1 => i - 1 \in 1 .. n + 1
      BY <1>2, <2>1
    <3>2. todo'[t][i] = new[i] /\ (i # 1 => todo'[t][i - 1] = new[i - 1])
      BY <1>8, <2>1, <3>1
    <3> QED
      BY <1>2, <2>1, <3>2 DEF LogSteps
  <2>2. CASE i = n + 1
    <3>1. todo'[t][i] = new[n + 1]
      BY <1>8, <2>2
    <3> QED
      BY <1>2, <3>1 DEF LogSteps
  <2>3. CASE i \in n + 2 .. n + m
    <3>1. i - n \in DOMAIN todo[t] /\ i - n # 1 /\ todo'[t][i] = todo[t][i - n]
          /\ (i - n) - 1 \in DOMAIN todo[t]
      BY <1>6, <1>8, <2>3
    <3>2. todo[t][i - n].do \notin LogSteps /\ todo[t][i - n].do # "put"
      BY <1>5, <3>1 DEF Quiet, Mine
    <3>3. todo[t][i - n].do = "dumped" => /\ todo[t][(i - n) - 1].do = "dump"
                                          /\ todo[t][(i - n) - 1].at = todo[t][i - n].at
      BY <3>1 DEF Mine
    <3>4. i # n + 2 => todo'[t][i - 1] = todo[t][(i - n) - 1]
      <4> SUFFICES ASSUME i # n + 2
                   PROVE  todo'[t][i - 1] = todo[t][(i - n) - 1]
        OBVIOUS
      <4>1. i - 1 \in n + 2 .. n + m /\ (i - 1) - n = (i - n) - 1
        BY <1>6, <2>3
      <4> QED
        BY <1>8, <4>1
    <3>5. i = n + 2 => todo[t][(i - n) - 1].do = "dumpAll"
      BY <1>4, <1>6
    <3> QED
      BY <2>3, <3>1, <3>2, <3>3, <3>4, <3>5
  <2> QED
    BY <1>6, <1>8, <2>1, <2>2, <2>3
<1> QED
  BY <1>9, QuietMine

QuietAct(t) ==
  \/ \E r \in Requests : getLogger(t, r)
  \/ \E l \in Loggers, conf \in Confs : init(t, l, conf)
  \/ Member(t)
  \/ find(t) \/ setLevel(t) \/ setFormatter(t) \/ setAppenderFormatter(t) \/ skip(t) \/ throw(t)
  \/ makeAppender(t) \/ addAppender(t) \/ putAppender(t) \/ removeAppender(t) \/ clearAppenders(t)
  \/ dumpAll(t) \/ dump(t) \/ Unlock(t, "dumped") \/ dumpedAll(t)

LEMMA QuietPlain ==
  ASSUME NEW t \in Threads, \A i \in DOMAIN todo'[t] : todo'[t][i].do \in PlainSteps
  PROVE  Mine(t)' /\ Quiet(t)'
<1>1. \A x \in PlainSteps : x \notin LogSteps /\ x # "put" /\ x # "dumped"
  BY DEF PlainSteps, LogSteps
<1> QED
  BY <1>1, QuietMine

LEMMA QuietSteps ==
  ASSUME LogTypes, NEW t \in Threads, Mine(t), QuietAct(t)
  PROVE  Mine(t)' /\ Quiet(t)'
<1>1. CASE (\E r \in Requests : getLogger(t, r)) \/ Member(t)
            \/ \E l \in Loggers, conf \in Confs : init(t, l, conf)
  BY <1>1, GetLoggerTypes, MemberTypes, InitTypes, QuietPlain
<1>2. CASE \/ find(t) \/ setLevel(t) \/ setFormatter(t) \/ setAppenderFormatter(t) \/ skip(t)
           \/ putAppender(t) \/ Unlock(t, "dumped") \/ dumpedAll(t)
  <2>1. /\ todo[t] # <<>> /\ Continue(t, <<>>)
        /\ Step(t).do \in {"find", "setLevel", "setFormatter", "setAppenderFormatter", "skip", "put",
                          "dumped", "dumpedAll"}
    BY <1>2 DEF find, setLevel, setFormatter, setAppenderFormatter, skip, putAppender, Unlock,
                dumpedAll, At, Step
  <2> QED
    BY <2>1, QuietPop DEF LogSteps
<1>3. CASE removeAppender(t) \/ clearAppenders(t)
  <2>1. todo[t] # <<>> /\ Continue(t, <<>>) /\ Step(t).do \in {"remove", "clear"}
    BY <1>3 DEF removeAppender, clearAppenders, SetList, At, Step
  <2> QED
    BY <2>1, QuietPop DEF LogSteps
<1>4. CASE dump(t)
  <2>1. /\ todo[t] # <<>> /\ Continue(t, <<>>) /\ Step(t).do = "dump"
        /\ mutex_' = [mutex_ EXCEPT ![Step(t).at] = t]
    BY <1>4 DEF dump, At, Step
  <2>2. Step(t).at \in Loggers
    BY <2>1, HeadStep DEF LogTypes, StepOK, AtLogger
  <2>3. mutex_'[Step(t).at] = t
    BY <2>1, <2>2 DEF LogTypes, LoggerTypeOK
  <2> QED
    BY <2>1, <2>3, QuietPop DEF LogSteps
<1>5. CASE throw(t)
  <2>1. todo'[t] = <<>>
    BY <1>5 DEF throw, LogTypes, Todo
  <2> QED
    BY <2>1, QuietMine
<1>6. CASE makeAppender(t)
  <2>1. PICK s : /\ todo[t] # <<>> /\ Continue(t, <<s>>) /\ Step(t).do = "make" /\ s.do = "add"
    BY <1>6 DEF makeAppender, At, Step
  <2> QED
    BY <2>1, QuietReplace
<1>7. CASE addAppender(t)
  <2>1. PICK s : /\ todo[t] # <<>> /\ Continue(t, <<s>>) /\ Step(t).do = "add" /\ s.do = "put"
                 /\ s.at = Step(t).at /\ mutex_' = [mutex_ EXCEPT ![Step(t).at] = t]
    BY <1>7 DEF addAppender, At, Step
  <2>2. Step(t).at \in Loggers
    BY <2>1, HeadStep DEF LogTypes, StepOK, AtLogger
  <2>3. mutex_'[s.at] = t
    BY <2>1, <2>2 DEF LogTypes, LoggerTypeOK
  <2> QED
    BY <2>1, <2>3, QuietReplace
<1>8. CASE dumpAll(t)
  BY <1>8, QuietDumpAll
<1> QED
  BY <1>1, <1>2, <1>3, <1>4, <1>5, <1>6, <1>7, <1>8 DEF QuietAct

\* No line is written; a new appender has none.
OutKept == /\ DOMAIN out \subseteq DOMAIN out' /\ DOMAIN colorOn \subseteq DOMAIN colorOn'
           /\ \A a \in DOMAIN out : out'[a] = out[a] /\ appenders'[a].level = appenders[a].level
           /\ \A a \in DOMAIN out' : a \notin DOMAIN out => out'[a] = <<>>

LEMMA RequestKeepsOut ==
  ASSUME LogTypes, NEW t \in Threads, Request(t)
  PROVE  OutKept
<1>1. UNCHANGED <<appenders, out>>
  BY DEF Request, NewEvent, getLogger, init, Member
<1>2. DOMAIN colorOn \subseteq DOMAIN colorOn'
  <2>1. colorOn \in Seq(BOOLEAN)
    BY DEF LogTypes, LoggerTypeOK
  <2>2. colorOn' = colorOn \/ colorOn' = Append(colorOn, FALSE)
    BY DEF Request, NewEvent, getLogger, init, Member
  <2>3. /\ DOMAIN Append(colorOn, FALSE) = 1 .. Len(colorOn) + 1
        /\ DOMAIN colorOn = 1 .. Len(colorOn) /\ Len(colorOn) \in Nat
    BY <2>1
  <2>4. CASE colorOn' = Append(colorOn, FALSE)
    BY <2>3, <2>4
  <2>5. CASE colorOn' = colorOn
    BY <2>5
  <2> QED
    BY <2>2, <2>4, <2>5
<1> QED
  BY <1>1, <1>2 DEF OutKept

LEMMA DoKeepsOut ==
  ASSUME LogTypes, NEW t \in Threads, Do(t), ~write(t)
  PROVE  OutKept
<1>1. CASE \/ find(t) \/ setLevel(t) \/ setFormatter(t) \/ skip(t) \/ throw(t) \/ addAppender(t)
           \/ removeAppender(t) \/ clearAppenders(t) \/ log(t) \/ dumpAll(t) \/ dumpedAll(t)
           \/ Unlock(t, "logged") \/ dump(t) \/ Unlock(t, "dumped")
  <2>1. UNCHANGED <<appenders, colorOn, out>>
    BY <1>1 DEF find, setLevel, setFormatter, skip, throw, addAppender, removeAppender, log, dumpAll,
                clearAppenders, SetList, dumpedAll, Unlock, dump
  <2> QED
    BY <2>1 DEF OutKept
<1>2. CASE setAppenderFormatter(t) \/ putAppender(t)
  <2>1. PICK a, p : appenders' = [appenders EXCEPT ![a].pattern = p] /\ UNCHANGED <<colorOn, out>>
    BY <1>2 DEF setAppenderFormatter, putAppender
  <2>2. appenders \in Seq(Appender) /\ DOMAIN out = DOMAIN appenders
    BY DEF LogTypes, LoggerTypeOK, Appender
  <2>3. \A b \in DOMAIN appenders : appenders'[b].level = appenders[b].level
    BY <2>1, <2>2 DEF Appender
  <2> QED
    BY <2>1, <2>2, <2>3 DEF OutKept
<1>3. CASE makeAppender(t)
  <2>1. PICK new : appenders' = Append(appenders, new) /\ out' = Append(out, <<>>) /\ colorOn' = colorOn
    BY <1>3 DEF makeAppender
  <2>2. appenders \in Seq(Appender) /\ DOMAIN out = 1 .. Len(appenders) /\ Len(appenders) \in Nat
    BY DEF LogTypes, LoggerTypeOK, Appender
  <2>3. Len(out) = Len(appenders)
    BY <2>2
  <2>4. /\ DOMAIN out' = 1 .. Len(appenders) + 1 /\ out'[Len(appenders) + 1] = <<>>
        /\ \A a \in 1 .. Len(appenders) : out'[a] = out[a] /\ appenders'[a] = appenders[a]
    BY <2>1, <2>2, <2>3
  <2> QED
    BY <2>1, <2>2, <2>4 DEF OutKept
<1> QED
  BY <1>1, <1>2, <1>3 DEF Do

-----------------------------------------------------------------------------
(* The loggers: log() *)

\* What is left of a call of log().
LEMMA RestOfLog ==
  ASSUME LogTypes, NEW t \in Threads, Mine(t), todo[t] # <<>>, Step(t).do \in LogSteps,
         Continue(t, <<>>)
  PROVE  /\ \A i \in DOMAIN todo'[t] :
              /\ i \in Nat \ {0} /\ i + 1 \in DOMAIN todo[t] /\ todo'[t][i] = todo[t][i + 1]
              /\ todo[t][i + 1].do \in {"write", "logged"}
              /\ todo[t][i + 1].event = Step(t).event
              /\ Step(t).do # "write" => todo[t][i + 1].do = "logged"
         /\ DOMAIN todo'[t] = 1 .. Len(todo[t]) - 1 /\ Len(todo[t]) \in Nat \ {0}
         /\ DOMAIN todo[t] = 1 .. Len(todo[t]) /\ Step(t) = todo[t][1]
<1>1. /\ Len(todo[t]) \in Nat \ {0} /\ DOMAIN todo[t] = 1 .. Len(todo[t]) /\ Step(t) = todo[t][1]
      /\ 1 \in DOMAIN todo[t]
  BY HeadStep DEF LogTypes
<1>2. /\ DOMAIN todo'[t] = 1 .. Len(todo[t]) - 1
      /\ \A i \in 1 .. Len(todo[t]) - 1 : todo'[t][i] = todo[t][i + 1]
  BY Popped DEF LogTypes
<1>3. ASSUME NEW i \in DOMAIN todo'[t]
      PROVE  /\ i \in Nat \ {0} /\ i + 1 \in DOMAIN todo[t] /\ todo'[t][i] = todo[t][i + 1]
             /\ todo[t][i + 1].do \in {"write", "logged"}
             /\ todo[t][i + 1].event = Step(t).event
             /\ Step(t).do # "write" => todo[t][i + 1].do = "logged"
  <2>1. i \in Nat \ {0} /\ i + 1 \in DOMAIN todo[t] /\ i + 1 # 1 /\ todo'[t][i] = todo[t][i + 1]
        /\ 1 \in 1 .. (i + 1) - 1
    BY <1>1, <1>2
  <2>2. todo[t][i + 1].do \in LogSteps /\ todo[t][i + 1].event = Step(t).event
    BY <1>1, <2>1 DEF Mine
  <2>3. todo[t][i + 1].do # "log"
    BY <2>1 DEF Mine
  <2>4. todo[t][i + 1].do = "write" => Step(t).do = "write"
    BY <1>1, <2>1 DEF Mine
  <2> QED
    BY <2>1, <2>2, <2>3, <2>4 DEF LogSteps
<1> QED
  BY <1>1, <1>2, <1>3

\* What Mine says of the steps of log(), of two of them at a time.
LEMMA MineLogs ==
  ASSUME NEW t \in Threads, Mine(t), NEW i \in DOMAIN todo[t], todo[t][i].do \in {"write", "logged"}
  PROVE  /\ mutex_[todo[t][i].at] = t
         /\ todo[t][i].do = "logged" =>
              \A j \in DOMAIN todo[t] :
                todo[t][j].do = "logged" /\ j # i => todo[t][j].at # todo[t][i].at
         /\ todo[t][i].do = "write" =>
              /\ \A j \in 1 .. i - 1 : todo[t][j].do = "write" /\ todo[t][j].at = todo[t][i].at
              /\ \E q \in DOMAIN todo[t] : Releases(t, q, todo[t][i].at)
BY DEF Mine

\* A step of a call of log() for event e, with its place in the list.
InLog(t, e, i) ==
  LET s == todo[t][i] IN
  /\ s.do \in LogSteps /\ s.event = e
  /\ s.do = "log" => i = 1
  /\ s.do # "log" => mutex_[s.at] = t
  /\ s.do = "logged" => \A j \in DOMAIN todo[t] :
                          todo[t][j].do = "logged" /\ j # i => todo[t][j].at # s.at
  /\ s.do = "write" => /\ \A j \in 1 .. i - 1 : todo[t][j].do = "write" /\ todo[t][j].at = s.at
                       /\ \E q \in DOMAIN todo[t] : Releases(t, q, s.at)

LEMMA LogsMine ==
  ASSUME NEW t \in Threads, NEW e, \A i \in DOMAIN todo'[t] : InLog(t, e, i)'
  PROVE  Mine(t)'
BY DEF Mine, InLog, LogSteps

\* A call that does nothing, or is over, leaves the calls around it.
LEMMA MineEnds ==
  ASSUME LogTypes, NEW t \in Threads, Mine(t), todo[t] # <<>>, Continue(t, <<>>),
         \/ Step(t).do = "log" /\ mutex_' = mutex_
         \/ Step(t).do = "logged" /\ mutex_' = [mutex_ EXCEPT ![Step(t).at] = Nobody]
  PROVE  Mine(t)'
<1> SUFFICES ASSUME NEW e, e = Step(t).event
             PROVE  Mine(t)'
  OBVIOUS
<1>1. Step(t).do \in LogSteps /\ Step(t).do # "write"
  BY DEF LogSteps
<1>2. /\ \A i \in DOMAIN todo'[t] :
              /\ i \in Nat \ {0} /\ i + 1 \in DOMAIN todo[t] /\ todo'[t][i] = todo[t][i + 1]
              /\ todo[t][i + 1].event = e
              /\ todo[t][i + 1].do = "logged"
      /\ Step(t) = todo[t][1]
  BY <1>1, RestOfLog
<1>3. 1 \in DOMAIN todo[t] /\ mutex_ \in [Loggers -> Holders]
  BY HeadStep DEF LogTypes, LoggerTypeOK
<1>4. ASSUME NEW i \in DOMAIN todo'[t]
      PROVE  /\ todo'[t][i].do = "logged" /\ todo'[t][i].event = e
             /\ mutex_'[todo'[t][i].at] = t
             /\ \A j \in DOMAIN todo'[t] : j # i => todo'[t][j].at # todo'[t][i].at
  <2> DEFINE k == i + 1
  <2>1. k \in DOMAIN todo[t] /\ k # 1 /\ todo[t][k].do = "logged" /\ todo'[t][i] = todo[t][k]
        /\ todo[t][k].event = e
    BY <1>2
  <2>2. \A j \in DOMAIN todo'[t] : j # i => j + 1 # k
    BY <1>2
  <2> HIDE DEF k
  <2>3. /\ mutex_[todo[t][k].at] = t
        /\ \A j \in DOMAIN todo[t] : todo[t][j].do = "logged" /\ j # k => todo[t][j].at # todo[t][k].at
    BY <2>1, MineLogs
  <2>4. \A j \in DOMAIN todo'[t] : j # i => todo'[t][j].at # todo'[t][i].at
    BY <1>2, <2>1, <2>2, <2>3
  <2>5. todo[t][k].at \in Loggers
    BY <2>1 DEF LogTypes, Todo, StepOK, AtLogger, LogSteps
  <2>6. Step(t).do = "logged" => todo[t][k].at # Step(t).at
    BY <1>2, <1>3, <2>1, <2>3
  <2>7. mutex_'[todo[t][k].at] = t
    BY <1>3, <2>3, <2>5, <2>6
  <2> QED
    BY <2>1, <2>4, <2>7
<1>5. \A i \in DOMAIN todo'[t] : InLog(t, e, i)'
  BY <1>4 DEF InLog, LogSteps
<1> QED
  BY <1>5, LogsMine

\* A call that writes goes on to its next appender, or to its end.
LEMMA MineWrites ==
  ASSUME LogTypes, NEW t \in Threads, Mine(t), todo[t] # <<>>, Continue(t, <<>>),
         Step(t).do = "write", mutex_' = mutex_
  PROVE  Mine(t)'
<1> SUFFICES ASSUME NEW e, e = Step(t).event
             PROVE  Mine(t)'
  OBVIOUS
<1>1. Step(t).do \in LogSteps
  BY DEF LogSteps
<1>2. /\ \A i \in DOMAIN todo'[t] :
              /\ i \in Nat \ {0} /\ i + 1 \in DOMAIN todo[t] /\ todo'[t][i] = todo[t][i + 1]
              /\ todo[t][i + 1].do \in {"write", "logged"}
              /\ todo[t][i + 1].event = e
      /\ DOMAIN todo'[t] = 1 .. Len(todo[t]) - 1 /\ Len(todo[t]) \in Nat \ {0}
      /\ DOMAIN todo[t] = 1 .. Len(todo[t]) /\ todo[t][1].do = "write"
  BY <1>1, RestOfLog
<1>3. ASSUME NEW i \in DOMAIN todo'[t]
      PROVE  InLog(t, e, i)'
  <2> SUFFICES ASSUME NEW k, k = i + 1, NEW l, l = todo[t][k].at
               PROVE  InLog(t, e, i)'
    OBVIOUS
  <2>1. /\ k \in DOMAIN todo[t] /\ todo'[t][i] = todo[t][k] /\ todo[t][k].do \in {"write", "logged"}
        /\ todo[t][k].event = e /\ k \in Nat /\ i = k - 1 /\ i \in Nat \ {0}
    BY <1>2
  <2>2. /\ mutex_[l] = t
        /\ todo[t][k].do = "logged" =>
             \A j \in DOMAIN todo[t] : todo[t][j].do = "logged" /\ j # k => todo[t][j].at # l
        /\ todo[t][k].do = "write" =>
             /\ \A j \in 1 .. k - 1 : todo[t][j].do = "write" /\ todo[t][j].at = l
             /\ \E q \in DOMAIN todo[t] : Releases(t, q, l)
    BY <2>1, MineLogs
  <2>3. CASE todo[t][k].do = "logged"
    <3>1. ASSUME NEW j \in DOMAIN todo'[t], todo'[t][j].do = "logged", j # i
          PROVE  todo'[t][j].at # l
      <4>1. j + 1 \in DOMAIN todo[t] /\ j + 1 # k /\ todo'[t][j] = todo[t][j + 1]
        BY <1>2, <2>1, <3>1
      <4> QED
        BY <2>2, <2>3, <3>1, <4>1
    <3> QED
      BY <2>1, <2>2, <2>3, <3>1 DEF InLog, LogSteps
  <2>4. CASE todo[t][k].do = "write"
    <3>1. ASSUME NEW j \in 1 .. i - 1
          PROVE  todo'[t][j].do = "write" /\ todo'[t][j].at = l
      <4>1. j \in DOMAIN todo'[t] /\ j + 1 \in 1 .. k - 1
        <5>1. DOMAIN todo'[t] = 1 .. Len(todo[t]) - 1 /\ Len(todo[t]) \in Nat /\ i \in Nat /\ k = i + 1
          BY <1>2, <2>1
        <5> QED
          BY <5>1
      <4> QED
        BY <1>2, <2>2, <2>4, <4>1
    <3>2. PICK q \in DOMAIN todo[t] : Releases(t, q, l)
      BY <2>2, <2>4
    <3>3. /\ todo[t][q].do = "logged" /\ todo[t][q].at = l
          /\ \A j \in 1 .. q - 1 : todo[t][j].do = "write"
      BY <3>2 DEF Releases
    <3>4. q # 1
      BY <1>2, <3>3
    <3>5. PICK r \in DOMAIN todo'[t] : r = q - 1 /\ r + 1 = q
      BY <1>2, <3>4
    <3>6. todo'[t][r].do = "logged" /\ todo'[t][r].at = l
      BY <1>2, <3>3, <3>5
    <3>7. ASSUME NEW j \in 1 .. r - 1
          PROVE  todo'[t][j].do = "write"
      <4>1. /\ DOMAIN todo'[t] = 1 .. Len(todo[t]) - 1 /\ Len(todo[t]) \in Nat
            /\ r \in DOMAIN todo'[t] /\ r + 1 = q
        BY <1>2, <3>5
      <4>2. j \in DOMAIN todo'[t] /\ j + 1 \in 1 .. q - 1
        BY <4>1
      <4>3. todo[t][j + 1].do = "write"
        BY <3>3, <4>2
      <4> QED
        BY <1>2, <4>2, <4>3
    <3>8. Releases(t, r, l)'
      <4> DEFINE v == todo'[t]
      <4>1. v[r].do = "logged" /\ v[r].at = l /\ \A j \in 1 .. r - 1 : v[j].do = "write"
        BY <3>6, <3>7
      <4> QED
        BY <4>1 DEF Releases
    <3> QED
      BY <2>1, <2>2, <2>4, <3>1, <3>8 DEF InLog, LogSteps
  <2> QED
    BY <2>1, <2>3, <2>4
<1> QED
  BY <1>3, LogsMine

\* A call that has something to do takes the mutex of its logger.
Enters(t, l, e) == /\ todo[t] # <<>> /\ Step(t).do = "log" /\ Step(t).at = l /\ Step(t).event = e
                   /\ mutex_[l] = Nobody /\ mutex_' = [mutex_ EXCEPT ![l] = t]
                   /\ Continue(t, Nested(l, e))
                   /\ UNCHANGED <<appenders_, appenders, colorOn, out>>

\* The steps that t then has: k of the new ones before the release.
Inside(t, l, e, k, m) ==
  /\ m # 0 /\ DOMAIN todo[t] = 1 .. m /\ DOMAIN todo'[t] = 1 .. k + m
  /\ todo'[t][k + 1] = [do |-> "logged", at |-> l, event |-> e]
  /\ appenders_[l] # <<>> =>
       /\ k = Len(appenders_[l])
       /\ \A i \in 1 .. k : todo'[t][i] = [do |-> "write", at |-> l, event |-> e,
                                           appender |-> appenders_[l][i]]
  /\ (appenders_[l] = <<>> /\ l # Root) =>
       k = 1 /\ todo'[t][1] = [do |-> "log", at |-> Root, event |-> e]
  /\ (appenders_[l] = <<>> /\ l = Root) => k = 0
  /\ \A i \in k + 2 .. k + m : /\ i - k \in DOMAIN todo[t] /\ todo'[t][i] = todo[t][i - k]
                               /\ todo[t][i - k].do = "logged" /\ todo[t][i - k].event = e
                               /\ todo[t][i - k].at # l /\ todo[t][i - k].at \in Loggers
                               /\ mutex_[todo[t][i - k].at] = t

LEMMA Entered ==
  ASSUME LogTypes, NEW t \in Threads, Mine(t), NEW l, NEW e, Enters(t, l, e)
  PROVE  l \in Loggers /\ \E k, m \in Nat : Inside(t, l, e, k, m)
<1>1. todo[t] # <<>> /\ Step(t).do = "log" /\ Step(t).at = l /\ Step(t).event = e
      /\ mutex_[l] = Nobody /\ Continue(t, Nested(l, e))
  BY DEF Enters
<1>2. PICK m \in Nat : m = Len(todo[t]) /\ m # 0 /\ DOMAIN todo[t] = 1 .. m /\ Step(t) = todo[t][1]
  BY <1>1, HeadStep DEF LogTypes
<1>3. l \in Loggers
  BY <1>1, HeadStep DEF LogTypes, StepOK, AtLogger, LogSteps
<1> DEFINE new == Nested(l, e)
<1>4. PICK k \in Nat :
           /\ IsList(new) /\ Len(new) = k + 1 /\ DOMAIN new = 1 .. k + 1
           /\ new[k + 1] = [do |-> "logged", at |-> l, event |-> e]
           /\ appenders_[l] # <<>> =>
                /\ k = Len(appenders_[l])
                /\ \A i \in 1 .. k : new[i] = [do |-> "write", at |-> l, event |-> e,
                                              appender |-> appenders_[l][i]]
           /\ (appenders_[l] = <<>> /\ l # Root) =>
                k = 1 /\ new[1] = [do |-> "log", at |-> Root, event |-> e]
           /\ (appenders_[l] = <<>> /\ l = Root) => k = 0
  BY <1>3, NestedSteps
<1>5. Todo /\ IsList(new) /\ Continue(t, new)
  BY <1>1, <1>4 DEF LogTypes
<1> HIDE DEF new
<1>6. /\ DOMAIN todo'[t] = 1 .. Len(new) + Len(todo[t]) - 1
      /\ \A i \in 1 .. Len(new) : todo'[t][i] = new[i]
      /\ \A i \in Len(new) + 1 .. Len(new) + Len(todo[t]) - 1 :
              todo'[t][i] = todo[t][i - Len(new) + 1]
  BY <1>1, <1>5, Continued
<1>7. /\ DOMAIN todo'[t] = 1 .. k + m
      /\ \A i \in 1 .. k + 1 : todo'[t][i] = new[i]
      /\ \A i \in k + 2 .. k + m : todo'[t][i] = todo[t][i - k]
  <2>1. Len(new) = k + 1 /\ Len(todo[t]) = m
    BY <1>2, <1>4
  <2>2. Len(new) + Len(todo[t]) - 1 = k + m /\ Len(new) + 1 = k + 2
    BY <2>1
  <2>3. ASSUME NEW i \in k + 2 .. k + m
        PROVE  todo'[t][i] = todo[t][i - k]
    <3>1. i - Len(new) + 1 = i - k
      BY <2>1
    <3>2. i \in Len(new) + 1 .. Len(new) + Len(todo[t]) - 1
      BY <2>2
    <3>3. todo'[t][i] = todo[t][i - Len(new) + 1]
      BY <1>6, <3>2
    <3> QED
      BY <3>1, <3>3
  <2> QED
    BY <1>6, <2>1, <2>2, <2>3
<1>8. ASSUME NEW i \in k + 2 .. k + m
      PROVE  /\ i - k \in DOMAIN todo[t] /\ todo'[t][i] = todo[t][i - k]
             /\ todo[t][i - k].do = "logged" /\ todo[t][i - k].event = e
             /\ todo[t][i - k].at # l /\ todo[t][i - k].at \in Loggers
             /\ mutex_[todo[t][i - k].at] = t
  <2> SUFFICES ASSUME NEW j, j = i - k
               PROVE  /\ j \in DOMAIN todo[t] /\ todo'[t][i] = todo[t][j]
                      /\ todo[t][j].do = "logged" /\ todo[t][j].event = e
                      /\ todo[t][j].at # l /\ todo[t][j].at \in Loggers
                      /\ mutex_[todo[t][j].at] = t
    OBVIOUS
  <2>1. j \in DOMAIN todo[t] /\ j # 1 /\ 1 \in 1 .. j - 1 /\ todo'[t][i] = todo[t][j]
        /\ 1 \in DOMAIN todo[t]
    BY <1>2, <1>7
  <2>2. todo[t][j].do \in LogSteps /\ todo[t][j].event = e
    BY <1>1, <1>2, <2>1 DEF Mine, LogSteps
  <2>3. todo[t][j].do # "log"
    BY <2>1 DEF Mine
  <2>4. todo[t][j].do # "write"
    BY <1>1, <1>2, <2>1 DEF Mine
  <2>5. todo[t][j].do = "logged" /\ mutex_[todo[t][j].at] = t
    BY <2>1, <2>2, <2>3, <2>4, MineLogs DEF LogSteps
  <2>6. todo[t][j].at \in Loggers
    BY <2>1, <2>5 DEF LogTypes, Todo, StepOK, AtLogger, LogSteps
  <2> QED
    BY <1>1, <2>1, <2>2, <2>5, <2>6, LoggerAssumption
<1>9. k + 1 \in 1 .. k + 1 /\ \A i \in 1 .. k : i \in 1 .. k + 1
  OBVIOUS
<1>10. Inside(t, l, e, k, m)
  <2>1. m # 0 /\ DOMAIN todo[t] = 1 .. m /\ DOMAIN todo'[t] = 1 .. k + m
    BY <1>2, <1>7
  <2>2. todo'[t][k + 1] = [do |-> "logged", at |-> l, event |-> e]
    BY <1>4, <1>7, <1>9
  <2>3. appenders_[l] # <<>> =>
          /\ k = Len(appenders_[l])
          /\ \A i \in 1 .. k : todo'[t][i] = [do |-> "write", at |-> l, event |-> e,
                                              appender |-> appenders_[l][i]]
    BY <1>4, <1>7, <1>9
  <2>4. (appenders_[l] = <<>> /\ l # Root) =>
          k = 1 /\ todo'[t][1] = [do |-> "log", at |-> Root, event |-> e]
    BY <1>4, <1>7, <1>9
  <2>5. (appenders_[l] = <<>> /\ l = Root) => k = 0
    BY <1>4
  <2> QED
    BY <1>8, <2>1, <2>2, <2>3, <2>4, <2>5 DEF Inside
<1> QED
  BY <1>3, <1>10

LEMMA MineEnters ==
  ASSUME LogTypes, NEW t \in Threads, Mine(t), NEW l, NEW e, Enters(t, l, e)
  PROVE  Mine(t)'
<1>1. PICK k, m \in Nat : Inside(t, l, e, k, m)
  BY Entered
<1>2. l \in Loggers /\ mutex_'[l] = t /\ \A j \in Loggers : mutex_[j] = t => mutex_'[j] = t
  BY Entered DEF Enters, LogTypes, LoggerTypeOK
<1>3. /\ DOMAIN todo'[t] = 1 .. k + m /\ m # 0 /\ k + 1 \in 1 .. k + m
      /\ todo'[t][k + 1] = [do |-> "logged", at |-> l, event |-> e]
  BY <1>1 DEF Inside
<1>4. ASSUME NEW i \in 1 .. k
      PROVE  \/ /\ appenders_[l] # <<>>
                /\ \A j \in 1 .. k : /\ todo'[t][j].do = "write" /\ todo'[t][j].at = l
                                     /\ todo'[t][j].event = e
             \/ i = 1 /\ k = 1 /\ todo'[t][1] = [do |-> "log", at |-> Root, event |-> e]
  <2>1. CASE appenders_[l] # <<>>
    <3>1. \A j \in 1 .. k : todo'[t][j] = [do |-> "write", at |-> l, event |-> e,
                                           appender |-> appenders_[l][j]]
      BY <1>1, <2>1 DEF Inside
    <3>2. ASSUME NEW j \in 1 .. k
          PROVE  todo'[t][j].do = "write" /\ todo'[t][j].at = l /\ todo'[t][j].event = e
      <4>1. todo'[t][j] = [do |-> "write", at |-> l, event |-> e, appender |-> appenders_[l][j]]
        BY <3>1
      <4> QED
        BY <4>1
    <3> QED
      BY <2>1, <3>2
  <2>2. CASE appenders_[l] = <<>>
    <3>1. k # 0
      OBVIOUS
    <3>2. k = 1 /\ todo'[t][1] = [do |-> "log", at |-> Root, event |-> e]
      BY <1>1, <2>2, <3>1 DEF Inside
    <3> QED
      BY <3>2
  <2> QED
    BY <2>1, <2>2
<1>5. ASSUME NEW i \in k + 2 .. k + m
      PROVE  /\ todo'[t][i].do = "logged" /\ todo'[t][i].event = e /\ todo'[t][i].at # l
             /\ mutex_'[todo'[t][i].at] = t
  BY <1>1, <1>2 DEF Inside
<1>6. ASSUME NEW i \in k + 2 .. k + m, NEW j \in k + 2 .. k + m, i # j
      PROVE  todo'[t][j].at # todo'[t][i].at
  <2>1. i - k \in DOMAIN todo[t] /\ j - k \in DOMAIN todo[t] /\ i - k # j - k
    BY <1>1, <1>6 DEF Inside
  <2>2. todo[t][i - k].do = "logged" /\ todo[t][j - k].do = "logged"
    BY <1>1 DEF Inside
  <2>3. todo[t][j - k].at # todo[t][i - k].at
    BY <2>1, <2>2, MineLogs
  <2> QED
    BY <1>1, <2>3 DEF Inside
<1>7. ASSUME NEW i \in DOMAIN todo'[t]
      PROVE  InLog(t, e, i)'
  <2>1. CASE i \in 1 .. k /\ todo'[t][i].do = "write"
    <3>1. \A j \in 1 .. k : todo'[t][j].do = "write" /\ todo'[t][j].at = l /\ todo'[t][j].event = e
      BY <1>4, <2>1
    <3>2. Releases(t, k + 1, l)'
      <4>1. (k + 1) - 1 = k
        OBVIOUS
      <4> QED
        BY <1>3, <3>1, <4>1 DEF Releases
    <3>3. \A j \in 1 .. i - 1 : j \in 1 .. k
      BY <2>1
    <3> QED
      BY <1>2, <1>3, <2>1, <3>1, <3>2, <3>3 DEF InLog, LogSteps
  <2>2. CASE i \in 1 .. k /\ todo'[t][i].do # "write"
    <3>1. i = 1 /\ todo'[t][i] = [do |-> "log", at |-> Root, event |-> e]
      BY <1>4, <2>2
    <3> QED
      BY <3>1 DEF InLog, LogSteps
  <2>3. CASE i = k + 1
    <3>1. ASSUME NEW j \in DOMAIN todo'[t], todo'[t][j].do = "logged", j # i
          PROVE  todo'[t][j].at # l
      <4>1. j \in 1 .. k \/ j \in k + 2 .. k + m
        BY <1>3, <2>3, <3>1
      <4>2. j \notin 1 .. k
        BY <1>4, <3>1
      <4> QED
        BY <1>5, <4>1, <4>2
    <3> QED
      BY <1>2, <1>3, <2>3, <3>1 DEF InLog, LogSteps
  <2>4. CASE i \in k + 2 .. k + m
    <3>1. ASSUME NEW j \in DOMAIN todo'[t], todo'[t][j].do = "logged", j # i
          PROVE  todo'[t][j].at # todo'[t][i].at
      <4>1. j \in 1 .. k \/ j = k + 1 \/ j \in k + 2 .. k + m
        BY <1>3
      <4>2. j \notin 1 .. k
        BY <1>4, <3>1
      <4>3. CASE j = k + 1
        BY <1>3, <1>5, <2>4, <4>3
      <4>4. CASE j \in k + 2 .. k + m
        BY <1>6, <2>4, <3>1, <4>4
      <4> QED
        BY <4>1, <4>2, <4>3, <4>4
    <3> QED
      BY <1>5, <2>4, <3>1 DEF InLog, LogSteps
  <2> QED
    BY <1>3, <2>1, <2>2, <2>3, <2>4
<1> QED
  BY <1>7, LogsMine

-----------------------------------------------------------------------------
(* The loggers: the kinds of steps that log() consists of *)

\* The call begins, with a new event; a call does nothing or is over; an appender
\* is called.
Begins(t, e) == /\ DOMAIN todo'[t] = {1} /\ todo'[t][1].do = "log" /\ todo'[t][1].event = e
                /\ e.id \notin DOMAIN colorOn /\ DOMAIN colorOn' = DOMAIN colorOn \cup {e.id}
                /\ UNCHANGED <<appenders_, mutex_, appenders, out>>
Ends(t) == /\ todo[t] # <<>> /\ Continue(t, <<>>)
           /\ \/ Step(t).do = "log" /\ mutex_' = mutex_
              \/ Step(t).do = "logged" /\ mutex_' = [mutex_ EXCEPT ![Step(t).at] = Nobody]
           /\ UNCHANGED <<appenders_, appenders, colorOn, out>>
Writes(t, l, a, e) ==
  /\ todo[t] # <<>> /\ Continue(t, <<>>)
  /\ Step(t).do = "write" /\ Step(t).at = l /\ Step(t).appender = a /\ Step(t).event = e
  /\ DOMAIN colorOn' = DOMAIN colorOn
  /\ UNCHANGED <<appenders_, mutex_, appenders>>
  /\ IF e.level >= appenders[a].level
       THEN \E line : /\ line.event = e.id /\ line.logger = l
                      /\ out' = [out EXCEPT ![a] = Append(@, line)]
       ELSE out' = out

LEMMA NewEventBegins ==
  ASSUME LogTypes, NEW t \in Threads, NEW k, NEW lvl, NewEvent(t, k, lvl)
  PROVE  \E e : Begins(t, e)
<1> SUFFICES ASSUME NEW n, n = Len(colorOn)
             PROVE  \E e : Begins(t, e)
  OBVIOUS
<1> DEFINE e == [id |-> n + 1, level |-> lvl, content |-> "content", timestamp |-> "time"]
           s == [do |-> "log", at |-> k, event |-> e]
           new == <<s>>
<1>1. colorOn \in Seq(BOOLEAN) /\ colorOn' = Append(colorOn, FALSE)
  BY DEF LogTypes, LoggerTypeOK, NewEvent
<1>2. e.id \notin DOMAIN colorOn /\ DOMAIN colorOn' = DOMAIN colorOn \cup {e.id}
  <2>1. DOMAIN colorOn = 1 .. n /\ DOMAIN colorOn' = 1 .. n + 1 /\ n \in Nat
    BY <1>1
  <2> QED
    BY <2>1
<1>3. IsList(new) /\ Len(new) = 1 /\ new[1] = s /\ Call(t, new)
  BY ListOfOne DEF NewEvent
<1>4. s.do = "log" /\ s.event = e /\ s.at = k
  OBVIOUS
<1> HIDE DEF e
<1>5. DOMAIN new = {1}
  BY <1>3, ListIs DEF IsList
<1> HIDE DEF new
<1>6. todo'[t] = new
  BY <1>3, Called DEF LogTypes
<1>7. UNCHANGED <<appenders_, mutex_, appenders, out>>
  BY DEF NewEvent, Call, loggerConf
<1> QED
  BY <1>2, <1>3, <1>4, <1>5, <1>6, <1>7 DEF Begins

LEMMA Kinds ==
  ASSUME LogTypes, NEW t \in Threads, Request(t) \/ Do(t)
  PROVE  \/ QuietAct(t) /\ OutKept
         \/ \E e : Begins(t, e)
         \/ \E l, e : Enters(t, l, e)
         \/ Ends(t)
         \/ \E l, a, e : Writes(t, l, a, e)
<1>1. CASE \E l \in Loggers, lvl \in Levels : NewEvent(t, l, lvl)
  BY <1>1, NewEventBegins
<1>2. CASE log(t)
  <2>1. /\ todo[t] # <<>> /\ Step(t).do = "log"
        /\ UNCHANGED <<appenders_, appenders, colorOn, out>>
        /\ \/ /\ mutex_[Step(t).at] = Nobody /\ mutex_' = [mutex_ EXCEPT ![Step(t).at] = t]
              /\ Continue(t, Nested(Step(t).at, Step(t).event))
           \/ mutex_' = mutex_ /\ Continue(t, <<>>)
    BY <1>2 DEF log, At, Step, loggerConf, Nested
  <2> QED
    BY <2>1 DEF Enters, Ends
<1>3. CASE Unlock(t, "logged")
  BY <1>3 DEF Unlock, At, Step, Ends, loggerConf
<1>4. CASE write(t)
  <2> SUFFICES ASSUME NEW l, l = Step(t).at, NEW a, a = Step(t).appender, NEW e, e = Step(t).event
               PROVE  Writes(t, l, a, e)
    OBVIOUS
  <2>1. /\ todo[t] # <<>> /\ Continue(t, <<>>) /\ Step(t).do = "write"
        /\ UNCHANGED <<appenders_, mutex_, appenders>>
    BY <1>4 DEF write, At, Step, loggerConf
  <2>2. DOMAIN colorOn' = DOMAIN colorOn
    BY <1>4 DEF write
  <2>3. CASE e.level >= appenders[a].level
    <3> DEFINE line == [event |-> e.id, logger |-> l,
                        text |-> format(Formatter[appenders[a].pattern], e,
                                        appenders[a].kind = "stdout" \/ colorOn[e.id], l)]
    <3>1. out' = [out EXCEPT ![a] = Append(@, line)]
      BY <1>4, <2>3 DEF write
    <3>2. line.event = e.id /\ line.logger = l
      OBVIOUS
    <3> HIDE DEF line
    <3> QED
      BY <2>1, <2>2, <2>3, <3>1, <3>2 DEF Writes
  <2>4. CASE ~(e.level >= appenders[a].level)
    BY <1>4, <2>1, <2>2, <2>4 DEF write, Writes
  <2> QED
    BY <2>3, <2>4
<1>5. CASE /\ Request(t) \/ Do(t)
           /\ ~(\E l \in Loggers, lvl \in Levels : NewEvent(t, l, lvl))
           /\ ~log(t) /\ ~write(t) /\ ~Unlock(t, "logged")
  <2>1. OutKept
    BY <1>5, RequestKeepsOut, DoKeepsOut
  <2>2. QuietAct(t)
    BY <1>5 DEF Request, Do, QuietAct
  <2> QED
    BY <2>1, <2>2
<1> QED
  BY <1>1, <1>2, <1>3, <1>4, <1>5

LEMMA OthersWait ==
  ASSUME LogTypes, NEW t \in Threads, Request(t) \/ Do(t), NEW u \in Threads \ {t}
  PROVE  todo'[u] = todo[u]
<1>1. PICK r : todo' = [todo EXCEPT ![t] = r]
  BY DEF Request, NewEvent, getLogger, init, Member, Call, Do, find, setLevel, setFormatter,
         setAppenderFormatter, skip, throw, makeAppender, addAppender, putAppender, removeAppender,
         clearAppenders, SetList, log, write, Unlock, dumpAll, dump, dumpedAll, Continue
<1> QED
  BY <1>1 DEF LogTypes, Todo

LEMMA MineStep ==
  ASSUME LogTypes, NEW t \in Threads, Request(t) \/ Do(t), \A u \in Threads : Mine(u)
  PROVE  \A u \in Threads : Mine(u)'
<1>1. Leaves(t)
  BY RequestLeaves, DoLeaves
<1>2. \A u \in Threads \ {t} : Mine(u)'
  BY <1>1, OthersWait, MineStays
<1>3. ASSUME NEW e, Begins(t, e)
      PROVE  Mine(t)'
  <2>1. \A i \in DOMAIN todo'[t] : InLog(t, e, i)'
    BY <1>3 DEF Begins, InLog, LogSteps
  <2> QED
    BY <2>1, LogsMine
<1>4. ASSUME NEW l, NEW e, Enters(t, l, e)
      PROVE  Mine(t)'
  BY <1>4, MineEnters
<1>5. ASSUME Ends(t)
      PROVE  Mine(t)'
  <2>1. /\ todo[t] # <<>> /\ Continue(t, <<>>)
        /\ \/ Step(t).do = "log" /\ mutex_' = mutex_
           \/ Step(t).do = "logged" /\ mutex_' = [mutex_ EXCEPT ![Step(t).at] = Nobody]
    BY <1>5 DEF Ends
  <2> QED
    BY <2>1, MineEnds
<1>6. ASSUME NEW l, NEW a, NEW e, Writes(t, l, a, e)
      PROVE  Mine(t)'
  <2>1. todo[t] # <<>> /\ Continue(t, <<>>) /\ Step(t).do = "write" /\ mutex_' = mutex_
    BY <1>6 DEF Writes
  <2> QED
    BY <2>1, MineWrites
<1> QED
  BY <1>2, <1>3, <1>4, <1>5, <1>6, Kinds, QuietSteps

-----------------------------------------------------------------------------
(* The loggers: whose event it is *)

LEMMA LogsKnown ==
  ASSUME LogTypes, NEW t \in Threads, NEW e, Logs(t, e)
  PROVE  e \in DOMAIN colorOn
BY DEF LogTypes, Todo, StepOK, Logs

LEMMA HeadLogs ==
  ASSUME LogTypes, NEW t \in Threads, todo[t] # <<>>, Step(t).do \in LogSteps
  PROVE  Logs(t, Step(t).event.id) /\ Step(t).event.id \in DOMAIN colorOn /\ Step(t).at \in Loggers
<1>1. 1 \in DOMAIN todo[t] /\ Step(t) = todo[t][1] /\ StepOK(Step(t))
  BY HeadStep DEF LogTypes
<1> QED
  BY <1>1 DEF Logs, StepOK, AtLogger

\* Inside a call every step is about its event.
LEMMA EntersOneEvent ==
  ASSUME LogTypes, NEW t \in Threads, Mine(t), NEW l, NEW e, Enters(t, l, e),
         NEW i \in DOMAIN todo'[t]
  PROVE  todo'[t][i].event = e
<1>1. PICK k, m \in Nat : Inside(t, l, e, k, m)
  BY Entered
<1>2. /\ k + 1 \in DOMAIN todo'[t] /\ todo'[t][k + 1].do \in LogSteps
      /\ todo'[t][k + 1].event = e
  <2>1. todo'[t][k + 1] = [do |-> "logged", at |-> l, event |-> e]
    BY <1>1 DEF Inside
  <2>2. DOMAIN todo'[t] = 1 .. k + m /\ m # 0
    BY <1>1 DEF Inside
  <2> QED
    BY <2>1, <2>2 DEF LogSteps
<1>3. Mine(t)'
  BY MineEnters
<1> QED
  BY <1>2, <1>3 DEF Mine

LEMMA LogsKept ==
  ASSUME LogTypes, NEW t \in Threads, Request(t) \/ Do(t), Mine(t),
         NEW u \in Threads, NEW x \in DOMAIN colorOn, Logs(u, x)'
  PROVE  Logs(u, x)
<1>1. CASE u # t
  BY <1>1, OthersWait DEF Logs
<1>2. CASE u = t /\ QuietAct(t)
  <2>1. Quiet(t)'
    BY <1>2, QuietSteps
  <2> QED
    BY <1>2, <2>1 DEF Quiet, Logs
<1>3. ASSUME u = t, NEW e, Begins(t, e)
      PROVE  FALSE
  BY <1>3 DEF Begins, Logs
<1>4. ASSUME u = t, NEW l, NEW e, Enters(t, l, e)
      PROVE  Logs(u, x)
  <2>1. todo[t] # <<>> /\ Step(t).do \in LogSteps /\ Step(t).event = e
    BY <1>4 DEF Enters, LogSteps
  <2>2. \A i \in DOMAIN todo'[t] : todo'[t][i].event = e
    BY <1>4, EntersOneEvent
  <2>3. x = e.id
    BY <1>4, <2>2 DEF Logs
  <2> QED
    BY <1>4, <2>1, <2>3, HeadLogs
<1>5. ASSUME u = t, todo[t] # <<>>, Continue(t, <<>>), Step(t).do \in LogSteps
      PROVE  Logs(u, x)
  <2>1. \A i \in DOMAIN todo'[t] : i + 1 \in DOMAIN todo[t] /\ todo'[t][i] = todo[t][i + 1]
    BY <1>5, RestOfLog
  <2> QED
    BY <1>5, <2>1 DEF Logs
<1>6. CASE u = t /\ (Ends(t) \/ \E l, a, e : Writes(t, l, a, e))
  BY <1>5, <1>6 DEF Ends, Writes, LogSteps
<1> QED
  BY <1>1, <1>2, <1>3, <1>4, <1>6, Kinds

LEMMA OwnStep ==
  ASSUME LogTypes, NEW t \in Threads, Request(t) \/ Do(t), \A u \in Threads : Mine(u), Own
  PROVE  Own'
<1> SUFFICES ASSUME NEW u \in Threads, NEW v \in Threads, NEW x, Logs(u, x)', Logs(v, x)'
             PROVE  u = v
  BY DEF Own
<1>1. \A w \in Threads \ {t} : Logs(w, x)' => Logs(w, x)
  BY OthersWait DEF Logs
<1>2. \A w \in Threads : Logs(w, x) => x \in DOMAIN colorOn
  BY LogsKnown
<1>3. CASE x \in DOMAIN colorOn
  <2>1. Logs(u, x) /\ Logs(v, x)
    BY <1>3, LogsKept
  <2> QED
    BY <1>3, <2>1 DEF Own
<1>4. CASE x \notin DOMAIN colorOn
  BY <1>1, <1>2, <1>4
<1> QED
  BY <1>3, <1>4

-----------------------------------------------------------------------------
(* The loggers: the lines *)

\* A step writes nothing, or one line in one appender.
LEMMA LinesKept ==
  ASSUME LogTypes, NEW t \in Threads, Request(t) \/ Do(t)
  PROVE  OutKept \/ \E l, a, e : Writes(t, l, a, e)
<1>1. ASSUME NEW e, Begins(t, e)
      PROVE  OutKept
  BY <1>1 DEF Begins, OutKept
<1>2. ASSUME NEW l, NEW e, Enters(t, l, e)
      PROVE  OutKept
  BY <1>2 DEF Enters, OutKept
<1>3. CASE Ends(t)
  BY <1>3 DEF Ends, OutKept
<1> QED
  BY <1>1, <1>2, <1>3, Kinds

LEMMA WriteOut ==
  ASSUME LogTypes, OutOK, NEW t \in Threads, Mine(t), NEW l, NEW a, NEW e, Writes(t, l, a, e)
  PROVE  /\ a \in DOMAIN out /\ l \in Loggers /\ e.id \in DOMAIN colorOn /\ mutex_[l] = t
         /\ DOMAIN out' = DOMAIN out /\ \A b \in DOMAIN out : b # a => out'[b] = out[b]
         /\ ~(e.level >= appenders[a].level) => out' = out
         /\ e.level >= appenders[a].level =>
              /\ IsList(out'[a]) /\ Len(out[a]) \in Nat /\ DOMAIN out[a] = 1 .. Len(out[a])
              /\ DOMAIN out'[a] = 1 .. Len(out[a]) + 1
              /\ \A i \in DOMAIN out[a] : out'[a][i] = out[a][i]
              /\ out'[a][Len(out[a]) + 1].event = e.id /\ out'[a][Len(out[a]) + 1].logger = l
<1>1. /\ todo[t] # <<>> /\ Step(t).do = "write" /\ Step(t).at = l /\ Step(t).appender = a
      /\ Step(t).event = e
  BY DEF Writes
<1>2. 1 \in DOMAIN todo[t] /\ Step(t) = todo[t][1] /\ StepOK(Step(t))
  BY <1>1, HeadStep DEF LogTypes
<1>3. l \in Loggers /\ a \in DOMAIN appenders /\ e.id \in DOMAIN colorOn
  BY <1>1, <1>2 DEF StepOK, AtLogger, LogSteps
<1>4. a \in DOMAIN out
  BY <1>3 DEF LogTypes, LoggerTypeOK
<1>5. mutex_[l] = t
  BY <1>1, <1>2, MineLogs
<1>6. CASE ~(e.level >= appenders[a].level)
  BY <1>3, <1>4, <1>5, <1>6 DEF Writes
<1>7. CASE e.level >= appenders[a].level
  <2>1. PICK line : /\ line.event = e.id /\ line.logger = l
                    /\ out' = [out EXCEPT ![a] = Append(@, line)]
    BY <1>7 DEF Writes
  <2>2. IsList(out[a])
    BY <1>4 DEF OutOK
  <2> DEFINE s == out[a]
             S == ToSet(s) \cup {line}
  <2>3. s \in Seq(S) /\ line \in S
    BY <2>2 DEF IsList
  <2>4. out'[a] = Append(s, line) /\ DOMAIN out' = DOMAIN out
        /\ \A b \in DOMAIN out : b # a => out'[b] = out[b]
    BY <1>4, <2>1
  <2> HIDE DEF s, S
  <2>5. /\ Append(s, line) \in Seq(S) /\ Len(s) \in Nat /\ DOMAIN s = 1 .. Len(s)
        /\ DOMAIN Append(s, line) = 1 .. Len(s) + 1 /\ Append(s, line)[Len(s) + 1] = line
        /\ \A i \in DOMAIN s : Append(s, line)[i] = s[i]
    BY <2>3
  <2>6. IsList(out'[a])
    BY <2>4, <2>5, ListIs
  <2> QED
    BY <1>3, <1>4, <1>5, <1>7, <2>1, <2>4, <2>5, <2>6 DEF s
<1> QED
  BY <1>6, <1>7

LEMMA OutStep ==
  ASSUME LogTypes, OutOK, NEW t \in Threads, Request(t) \/ Do(t), Mine(t)
  PROVE  OutOK'
<1>1. CASE OutKept
  <2> SUFFICES ASSUME NEW a \in DOMAIN out'
               PROVE  IsList(out'[a]) /\ \A i \in DOMAIN out'[a] : out'[a][i].event \in DOMAIN colorOn'
    BY DEF OutOK
  <2>1. CASE a \in DOMAIN out
    BY <1>1, <2>1 DEF OutKept, OutOK
  <2>2. CASE a \notin DOMAIN out
    <3>1. out'[a] = <<>>
      BY <1>1, <2>2 DEF OutKept
    <3> QED
      BY <3>1, ListOfNone
  <2> QED
    BY <2>1, <2>2
<1>2. ASSUME NEW l, NEW a, NEW e, Writes(t, l, a, e)
      PROVE  OutOK'
  <2> SUFFICES ASSUME NEW b \in DOMAIN out'
               PROVE  IsList(out'[b]) /\ \A i \in DOMAIN out'[b] : out'[b][i].event \in DOMAIN colorOn'
    BY DEF OutOK
  <2>1. DOMAIN out' = DOMAIN out /\ DOMAIN colorOn' = DOMAIN colorOn /\ e.id \in DOMAIN colorOn
    BY <1>2, WriteOut DEF Writes
  <2>2. CASE out'[b] = out[b]
    BY <2>1, <2>2 DEF OutOK
  <2>3. CASE b = a /\ e.level >= appenders[a].level
    <3>1. /\ IsList(out'[a]) /\ Len(out[a]) \in Nat /\ DOMAIN out[a] = 1 .. Len(out[a])
          /\ DOMAIN out'[a] = 1 .. Len(out[a]) + 1
          /\ \A i \in DOMAIN out[a] : out'[a][i] = out[a][i]
          /\ out'[a][Len(out[a]) + 1].event = e.id
      BY <1>2, <2>3, WriteOut
    <3>2. \A i \in DOMAIN out'[a] : i \in DOMAIN out[a] \/ i = Len(out[a]) + 1
      BY <3>1
    <3>3. \A i \in DOMAIN out[a] : out[a][i].event \in DOMAIN colorOn
      BY <2>1, <2>3 DEF OutOK
    <3> QED
      BY <2>1, <2>3, <3>1, <3>2, <3>3
  <2> QED
    BY <1>2, <2>1, <2>2, <2>3, WriteOut
<1> QED
  BY <1>1, <1>2, LinesKept

\* No pair of lines comes, or those that end in the new line.
LEMMA BeforeKept ==
  ASSUME OutKept, NEW a \in DOMAIN out', NEW l, NEW e, NEW f, Before(a, l, e, f)'
  PROVE  a \in DOMAIN out /\ Before(a, l, e, f)
<1>1. PICK i, j \in DOMAIN out'[a] : i < j /\ Wrote(a, i, l, e)' /\ Wrote(a, j, l, f)'
  BY DEF Before
<1>2. a \in DOMAIN out /\ out'[a] = out[a]
  BY <1>1 DEF OutKept
<1> QED
  BY <1>1, <1>2 DEF Before, Wrote

LEMMA BeforeWritten ==
  ASSUME LogTypes, OutOK, NEW t \in Threads, Mine(t), NEW l, NEW a, NEW e, Writes(t, l, a, e),
         NEW b \in DOMAIN out', NEW k, NEW e1, NEW f1, Before(b, k, e1, f1)'
  PROVE  b \in DOMAIN out /\ (Before(b, k, e1, f1) \/ (k = l /\ f1 = e.id))
<1>1. PICK i, j \in DOMAIN out'[b] : i < j /\ Wrote(b, i, k, e1)' /\ Wrote(b, j, k, f1)'
  BY DEF Before
<1>2. b \in DOMAIN out
  BY WriteOut
<1>3. CASE out'[b] = out[b]
  <2>1. /\ i \in DOMAIN out[b] /\ j \in DOMAIN out[b] /\ i < j
        /\ Wrote(b, i, k, e1) /\ Wrote(b, j, k, f1)
    BY <1>1, <1>3 DEF Wrote
  <2>2. Before(b, k, e1, f1)
    BY <2>1 DEF Before
  <2> QED
    BY <1>2, <2>2
<1>4. CASE b = a /\ e.level >= appenders[a].level
  <2>1. /\ Len(out[a]) \in Nat /\ DOMAIN out[a] = 1 .. Len(out[a])
        /\ DOMAIN out'[a] = 1 .. Len(out[a]) + 1
        /\ \A n \in DOMAIN out[a] : out'[a][n] = out[a][n]
        /\ out'[a][Len(out[a]) + 1].event = e.id /\ out'[a][Len(out[a]) + 1].logger = l
    BY <1>4, WriteOut
  <2>2. CASE j = Len(out[a]) + 1
    BY <1>1, <1>2, <1>4, <2>1, <2>2 DEF Wrote
  <2>3. CASE j # Len(out[a]) + 1
    <3>1. i \in DOMAIN out[a] /\ j \in DOMAIN out[a]
      BY <1>1, <1>4, <2>1, <2>3
    <3>2. i < j /\ Wrote(b, i, k, e1) /\ Wrote(b, j, k, f1)
      BY <1>1, <1>4, <2>1, <3>1 DEF Wrote
    <3>3. Before(b, k, e1, f1)
      BY <1>4, <3>1, <3>2 DEF Before
    <3> QED
      BY <1>2, <3>3
  <2> QED
    BY <2>2, <2>3
<1> QED
  BY <1>2, <1>3, <1>4, WriteOut

LEMMA BeforeKnown ==
  ASSUME OutOK, NEW a \in DOMAIN out, NEW l, NEW e, NEW f, Before(a, l, e, f)
  PROVE  e \in DOMAIN colorOn /\ f \in DOMAIN colorOn
BY DEF OutOK, Before, Wrote

\* A step of the other threads: the same steps, and their events.
LEMMA OtherLogs ==
  ASSUME LogTypes, NEW t \in Threads, Request(t) \/ Do(t), NEW u \in Threads \ {t}, Own,
         NEW i \in DOMAIN todo'[u], todo'[u][i].do \in LogSteps
  PROVE  /\ i \in DOMAIN todo[u] /\ todo'[u][i] = todo[u][i]
         /\ todo[u][i].event.id \in DOMAIN colorOn
         /\ todo[t] # <<>> /\ Step(t).do \in LogSteps => Step(t).event.id # todo[u][i].event.id
<1>1. i \in DOMAIN todo[u] /\ todo'[u][i] = todo[u][i]
  BY OthersWait
<1>2. Logs(u, todo[u][i].event.id)
  BY <1>1 DEF Logs
<1>3. todo[u][i].event.id \in DOMAIN colorOn
  BY <1>2, LogsKnown
<1> QED
  BY <1>1, <1>2, <1>3, HeadLogs DEF Own

LEMMA FreshStep ==
  ASSUME LogTypes, OutOK, Own, NEW t \in Threads, Request(t) \/ Do(t), Mine(t),
         NEW u \in Threads, Fresh(u)
  PROVE  Fresh(u)'
<1> SUFFICES ASSUME NEW i \in DOMAIN todo'[u], todo'[u][i].do = "log",
                    NEW x, x = todo'[u][i].event.id,
                    NEW b \in DOMAIN out', NEW j \in DOMAIN out'[b]
             PROVE  out'[b][j].event # x
  BY DEF Fresh
<1>1. ASSUME NEW k \in DOMAIN todo[u], todo[u][k].do = "log", todo[u][k].event.id = x, OutKept
      PROVE  out'[b][j].event # x
  <2>1. b \in DOMAIN out /\ out'[b] = out[b]
    BY <1>1 DEF OutKept
  <2> QED
    BY <1>1, <2>1 DEF Fresh
<1>2. CASE u # t
  <2>1. /\ i \in DOMAIN todo[u] /\ todo[u][i].do = "log" /\ todo[u][i].event.id = x
        /\ todo[t] # <<>> /\ Step(t).do \in LogSteps => Step(t).event.id # x
    BY <1>2, OtherLogs DEF LogSteps
  <2>2. CASE OutKept
    BY <1>1, <2>1, <2>2
  <2>3. ASSUME NEW l, NEW a, NEW e, Writes(t, l, a, e)
        PROVE  out'[b][j].event # x
    <3>1. e.id # x
      BY <2>1, <2>3 DEF Writes, LogSteps
    <3>2. b \in DOMAIN out
      BY <2>3, WriteOut
    <3>3. \A n \in DOMAIN out[b] : out[b][n].event # x
      BY <2>1, <3>2 DEF Fresh
    <3>4. CASE out'[b] = out[b]
      BY <3>3, <3>4
    <3>5. CASE b = a /\ e.level >= appenders[a].level
      <4>1. /\ Len(out[a]) \in Nat /\ DOMAIN out[a] = 1 .. Len(out[a])
            /\ DOMAIN out'[a] = 1 .. Len(out[a]) + 1
            /\ \A n \in DOMAIN out[a] : out'[a][n] = out[a][n]
            /\ out'[a][Len(out[a]) + 1].event = e.id
        BY <2>3, <3>5, WriteOut
      <4>2. j \in DOMAIN out[a] \/ j = Len(out[a]) + 1
        BY <3>5, <4>1
      <4> QED
        BY <3>1, <3>3, <3>5, <4>1, <4>2
    <3> QED
      BY <2>3, <3>2, <3>4, <3>5, WriteOut
  <2> QED
    BY <2>2, <2>3, LinesKept
<1>3. CASE u = t /\ QuietAct(t)
  <2>1. Quiet(t)'
    BY <1>3, QuietSteps
  <2> QED
    BY <1>3, <2>1 DEF Quiet, LogSteps
<1>4. ASSUME u = t, NEW e, Begins(t, e)
      PROVE  out'[b][j].event # x
  <2>1. x = e.id /\ out' = out /\ x \notin DOMAIN colorOn
    BY <1>4 DEF Begins
  <2> QED
    BY <2>1 DEF OutOK
<1>5. ASSUME u = t, NEW l, NEW e, Enters(t, l, e)
      PROVE  out'[b][j].event # x
  <2>1. x = e.id
    BY <1>5, EntersOneEvent
  <2>2. /\ todo[t] # <<>> /\ Step(t).do = "log" /\ Step(t).event = e /\ OutKept
    BY <1>5 DEF Enters, OutKept
  <2>3. 1 \in DOMAIN todo[t] /\ Step(t) = todo[t][1]
    BY <2>2, HeadStep DEF LogTypes
  <2> QED
    BY <1>1, <1>5, <2>1, <2>2, <2>3
<1>6. ASSUME u = t, todo[t] # <<>>, Continue(t, <<>>), Step(t).do \in LogSteps
      PROVE  FALSE
  <2>1. \A n \in DOMAIN todo'[t] : todo'[t][n] = todo[t][n + 1]
                                   /\ todo[t][n + 1].do \in {"write", "logged"}
    BY <1>6, RestOfLog
  <2> QED
    BY <1>6, <2>1
<1>7. CASE u = t /\ (Ends(t) \/ \E l, a, e : Writes(t, l, a, e))
  BY <1>6, <1>7 DEF Ends, Writes, LogSteps
<1> QED
  BY <1>2, <1>3, <1>4, <1>5, <1>7, Kinds

LEMMA LastWordStep ==
  ASSUME LogTypes, OutOK, Own, NEW t \in Threads, Request(t) \/ Do(t), \A v \in Threads : Mine(v),
         Fresh(t), NEW u \in Threads, LastWord(u)
  PROVE  LastWord(u)'
<1> SUFFICES ASSUME NEW i \in DOMAIN todo'[u], todo'[u][i].do = "write",
                    NEW x, x = todo'[u][i].event.id, NEW k, k = todo'[u][i].at,
                    NEW b \in DOMAIN out', NEW f \in DOMAIN colorOn', Before(b, k, x, f)'
             PROVE  f = x
  BY DEF LastWord
<1>1. ASSUME NEW n \in DOMAIN todo[u], todo[u][n].do = "write", todo[u][n].event.id = x,
             todo[u][n].at = k, b \in DOMAIN out, Before(b, k, x, f)
      PROVE  f = x
  <2>1. f \in DOMAIN colorOn
    BY <1>1, BeforeKnown
  <2> QED
    BY <1>1, <2>1 DEF LastWord
<1>2. CASE u # t
  <2>1. /\ i \in DOMAIN todo[u] /\ todo[u][i].do = "write" /\ todo[u][i].event.id = x
        /\ todo[u][i].at = k
    BY <1>2, OtherLogs DEF LogSteps
  <2>2. CASE OutKept
    BY <1>1, <2>1, <2>2, BeforeKept
  <2>3. ASSUME NEW l, NEW a, NEW e, Writes(t, l, a, e)
        PROVE  f = x
    <3>1. mutex_[l] = t /\ mutex_[k] = u
      BY <2>1, <2>3, WriteOut, MineLogs
    <3>2. b \in DOMAIN out /\ Before(b, k, x, f)
      BY <1>2, <2>3, <3>1, BeforeWritten
    <3> QED
      BY <1>1, <2>1, <3>2
  <2> QED
    BY <2>2, <2>3, LinesKept
<1>3. CASE u = t /\ QuietAct(t)
  <2>1. Quiet(t)'
    BY <1>3, QuietSteps
  <2> QED
    BY <1>3, <2>1 DEF Quiet, LogSteps
<1>4. ASSUME u = t, NEW e, Begins(t, e)
      PROVE  FALSE
  BY <1>4 DEF Begins
<1>5. ASSUME u = t, NEW l, NEW e, Enters(t, l, e)
      PROVE  FALSE
  <2>1. x = e.id
    BY <1>5, EntersOneEvent
  <2>2. /\ todo[t] # <<>> /\ Step(t).do = "log" /\ Step(t).event = e /\ OutKept
    BY <1>5 DEF Enters, OutKept
  <2>3. 1 \in DOMAIN todo[t] /\ Step(t) = todo[t][1]
    BY <2>2, HeadStep DEF LogTypes
  <2>4. b \in DOMAIN out /\ Before(b, k, x, f)
    BY <2>2, BeforeKept
  <2>5. PICK n \in DOMAIN out[b] : out[b][n].event = x
    BY <2>4 DEF Before, Wrote
  <2> QED
    BY <2>1, <2>2, <2>3, <2>4, <2>5 DEF Fresh
<1>6. ASSUME u = t, Ends(t)
      PROVE  FALSE
  <2>1. todo[t] # <<>> /\ Continue(t, <<>>) /\ Step(t).do \in LogSteps /\ Step(t).do # "write"
    BY <1>6 DEF Ends, LogSteps
  <2>2. \A n \in DOMAIN todo'[t] : todo'[t][n] = todo[t][n + 1] /\ todo[t][n + 1].do = "logged"
    BY <2>1, RestOfLog
  <2> QED
    BY <1>6, <2>2
<1>7. ASSUME u = t, NEW l, NEW a, NEW e, Writes(t, l, a, e)
      PROVE  f = x
  <2>1. /\ todo[t] # <<>> /\ Continue(t, <<>>) /\ Step(t).do = "write" /\ Step(t).at = l
        /\ Step(t).event = e /\ Step(t).do \in LogSteps
    BY <1>7 DEF Writes, LogSteps
  <2>2. /\ i + 1 \in DOMAIN todo[t] /\ todo'[t][i] = todo[t][i + 1] /\ todo[t][i + 1].event = e
        /\ i \in Nat \ {0} /\ Step(t) = todo[t][1]
    BY <1>7, <2>1, RestOfLog
  <2>3. 1 \in 1 .. (i + 1) - 1 /\ todo[t][i + 1].do = "write"
    BY <1>7, <2>2
  <2>4. todo[t][1].at = todo[t][i + 1].at
    BY <2>2, <2>3, MineLogs
  <2>5. x = e.id /\ k = l /\ todo[t][i + 1].at = k
    BY <1>7, <2>1, <2>2, <2>4
  <2>6. b \in DOMAIN out /\ (Before(b, k, x, f) \/ f = e.id)
    BY <1>7, BeforeWritten
  <2> QED
    BY <1>1, <1>7, <2>2, <2>3, <2>5, <2>6
<1> QED
  BY <1>2, <1>3, <1>4, <1>5, <1>6, <1>7, Kinds

LEMMA SameOrderStep ==
  ASSUME LogTypes, OutOK, NEW t \in Threads, Request(t) \/ Do(t), Mine(t), LastWord(t), SameOrder
  PROVE  SameOrder'
<1> SUFFICES ASSUME NEW a \in DOMAIN out', NEW b \in DOMAIN out', NEW k \in Loggers,
                    NEW e \in DOMAIN colorOn', NEW f \in DOMAIN colorOn', e # f,
                    Before(a, k, e, f)', Before(b, k, f, e)'
             PROVE  FALSE
  BY DEF SameOrder
<1>1. ASSUME a \in DOMAIN out, b \in DOMAIN out, Before(a, k, e, f), Before(b, k, f, e)
      PROVE  FALSE
  <2>1. e \in DOMAIN colorOn /\ f \in DOMAIN colorOn
    BY <1>1, BeforeKnown
  <2> QED
    BY <1>1, <2>1 DEF SameOrder
<1>2. CASE OutKept
  BY <1>1, <1>2, BeforeKept
<1>3. ASSUME NEW l, NEW c, NEW d, Writes(t, l, c, d)
      PROVE  FALSE
  <2>1. a \in DOMAIN out /\ (Before(a, k, e, f) \/ (k = l /\ f = d.id))
    BY <1>3, BeforeWritten
  <2>2. b \in DOMAIN out /\ (Before(b, k, f, e) \/ (k = l /\ e = d.id))
    BY <1>3, BeforeWritten
  <2>3. /\ 1 \in DOMAIN todo[t] /\ todo[t][1].do = "write" /\ todo[t][1].at = l
        /\ todo[t][1].event = d
    BY <1>3, HeadStep DEF Writes, LogTypes
  <2>4. ASSUME NEW g \in DOMAIN out, NEW h, Before(g, l, d.id, h)
        PROVE  h = d.id
    <3>1. h \in DOMAIN colorOn
      BY <2>4, BeforeKnown
    <3> QED
      BY <2>3, <2>4, <3>1 DEF LastWord
  <2> QED
    BY <1>1, <2>1, <2>2, <2>4
<1> QED
  BY <1>2, <1>3, LinesKept

-----------------------------------------------------------------------------
(* The loggers: how far a call of log() is *)

\* The lines of event x that went through l stay as they are.
SameLines(l, x) ==
  /\ DOMAIN out \subseteq DOMAIN out' /\ appenders_'[l] = appenders_[l]
  /\ \A a \in DOMAIN out : Lines(a, l, x)' = Lines(a, l, x) /\ appenders'[a].level = appenders[a].level
  /\ \A a \in DOMAIN out' : a \notin DOMAIN out => Lines(a, l, x)' = {}

LEMMA KeptLines ==
  ASSUME OutKept, NEW l, appenders_'[l] = appenders_[l], NEW x
  PROVE  SameLines(l, x)
<1>1. ASSUME NEW a \in DOMAIN out
      PROVE  Lines(a, l, x)' = Lines(a, l, x)
  <2>1. out'[a] = out[a]
    BY DEF OutKept
  <2> QED
    BY <2>1 DEF Lines, Wrote
<1>2. ASSUME NEW a \in DOMAIN out', a \notin DOMAIN out
      PROVE  Lines(a, l, x)' = {}
  <2>1. DOMAIN out'[a] = {}
    BY <1>2, ListOfNone DEF OutKept
  <2> QED
    BY <2>1 DEF Lines
<1> QED
  BY <1>1, <1>2 DEF OutKept, SameLines

\* A thread that writes leaves the lines of the other loggers.
LEMMA OtherLoggerLines ==
  ASSUME LogTypes, OutOK, NEW t \in Threads, Mine(t), NEW l, NEW a, NEW e, Writes(t, l, a, e),
         NEW k, k # l, NEW x
  PROVE  SameLines(k, x)
<1>1. DOMAIN out' = DOMAIN out /\ appenders_' = appenders_ /\ appenders' = appenders
  BY WriteOut DEF Writes
<1>2. ASSUME NEW b \in DOMAIN out
      PROVE  Lines(b, k, x)' = Lines(b, k, x)
  <2>1. CASE out'[b] = out[b]
    BY <2>1 DEF Lines, Wrote
  <2>2. CASE b = a /\ e.level >= appenders[a].level
    <3>1. /\ Len(out[a]) \in Nat /\ DOMAIN out[a] = 1 .. Len(out[a])
          /\ DOMAIN out'[a] = 1 .. Len(out[a]) + 1
          /\ \A n \in DOMAIN out[a] : out'[a][n] = out[a][n]
          /\ out'[a][Len(out[a]) + 1].logger = l
      BY <2>2, WriteOut
    <3>2. \A n \in DOMAIN out'[a] : n \in DOMAIN out[a] \/ n = Len(out[a]) + 1
      BY <3>1
    <3>3. DOMAIN out[a] \subseteq DOMAIN out'[a]
      BY <3>1
    <3> QED
      BY <2>2, <3>1, <3>2, <3>3 DEF Lines, Wrote
  <2> QED
    BY <2>1, <2>2, WriteOut
<1> QED
  BY <1>1, <1>2 DEF SameLines

LEMMA UntouchedKept ==
  ASSUME NEW l, NEW e, SameLines(l, e.id), Untouched(l, e)
  PROVE  Untouched(l, e)'
BY DEF SameLines, Untouched

LEMMA UpToKept ==
  ASSUME LogTypes, NEW l \in Loggers, NEW e, SameLines(l, e.id),
         NEW m \in 0 .. Len(appenders_[l]), UpTo(l, e, m)
  PROVE  UpTo(l, e, m)'
<1> SUFFICES ASSUME NEW a \in DOMAIN out'
             PROVE  Cardinality(Lines(a, l, e.id)') =
                      IF e.level >= appenders'[a].level THEN Cardinality(Entries(l, m, a)') ELSE 0
  BY DEF UpTo
<1>1. Entries(l, m, a)' = Entries(l, m, a)
  BY DEF SameLines, Entries
<1>2. CASE a \in DOMAIN out
  BY <1>1, <1>2 DEF SameLines, UpTo
<1>3. CASE a \notin DOMAIN out
  <2>1. appenders_[l] \in Seq(DOMAIN out)
    BY DEF LogTypes, LoggerTypeOK
  <2>2. \A i \in 1 .. m : appenders_[l][i] \in DOMAIN out
    BY <2>1
  <2>3. Entries(l, m, a) = {}
    BY <1>3, <2>2 DEF Entries
  <2>4. Lines(a, l, e.id)' = {}
    BY <1>3 DEF SameLines
  <2> QED
    BY <1>1, <2>3, <2>4, FS_EmptySet
<1> QED
  BY <1>2, <1>3

\* No line and no entry yet.
LEMMA UpToNone ==
  ASSUME NEW l, NEW e, \A a \in DOMAIN out : Lines(a, l, e.id) = {}
  PROVE  UpTo(l, e, 0)
<1>1. \A a : Entries(l, 0, a) = {}
  BY DEF Entries
<1> QED
  BY <1>1, FS_EmptySet DEF UpTo

LEMMA FreshLines ==
  ASSUME NEW t \in Threads, Fresh(t), NEW i \in DOMAIN todo[t], todo[t][i].do = "log", NEW l,
         NEW a \in DOMAIN out
  PROVE  Lines(a, l, todo[t][i].event.id) = {}
BY DEF Fresh, Lines, Wrote

\* One entry further, and a line more in the appender that it names.
LEMMA UpToNext ==
  ASSUME LogTypes, OutOK, NEW t \in Threads, Mine(t), NEW l, NEW a, NEW e, Writes(t, l, a, e),
         NEW m \in Nat, m + 1 <= Len(appenders_[l]), appenders_[l][m + 1] = a, UpTo(l, e, m)
  PROVE  UpTo(l, e, m + 1)'
<1>1. /\ DOMAIN out' = DOMAIN out /\ appenders_' = appenders_ /\ appenders' = appenders
      /\ a \in DOMAIN out
  BY WriteOut DEF Writes
<1> SUFFICES ASSUME NEW b \in DOMAIN out
             PROVE  Cardinality(Lines(b, l, e.id)') =
                      IF e.level >= appenders[b].level THEN Cardinality(Entries(l, m + 1, b)) ELSE 0
  BY <1>1 DEF UpTo, Entries
<1>2. Cardinality(Lines(b, l, e.id)) =
        IF e.level >= appenders[b].level THEN Cardinality(Entries(l, m, b)) ELSE 0
  BY DEF UpTo
<1>3. CASE b # a
  <2>1. Entries(l, m + 1, b) = Entries(l, m, b)
    BY <1>3 DEF Entries
  <2>2. Lines(b, l, e.id)' = Lines(b, l, e.id)
    <3>1. out'[b] = out[b]
      BY <1>3, WriteOut
    <3> QED
      BY <3>1 DEF Lines, Wrote
  <2> QED
    BY <1>2, <2>1, <2>2
<1>4. CASE b = a /\ ~(e.level >= appenders[a].level)
  <2>1. out' = out
    BY <1>4, WriteOut
  <2>2. Lines(b, l, e.id)' = Lines(b, l, e.id)
    BY <2>1 DEF Lines, Wrote
  <2> QED
    BY <1>2, <1>4, <2>2
<1>5. CASE b = a /\ e.level >= appenders[a].level
  <2> DEFINE n == Len(out[a])
  <2>1. /\ n \in Nat /\ DOMAIN out[a] = 1 .. n /\ DOMAIN out'[a] = 1 .. n + 1
        /\ \A i \in DOMAIN out[a] : out'[a][i] = out[a][i]
        /\ out'[a][n + 1].event = e.id /\ out'[a][n + 1].logger = l
    BY <1>5, WriteOut
  <2> HIDE DEF n
  <2>2. Lines(a, l, e.id)' = Lines(a, l, e.id) \cup {n + 1} /\ n + 1 \notin Lines(a, l, e.id)
    <3>1. n + 1 \notin DOMAIN out[a] /\ \A i : i \in DOMAIN out'[a] <=> i \in DOMAIN out[a] \/ i = n + 1
      BY <2>1
    <3> QED
      BY <2>1, <3>1 DEF Lines, Wrote
  <2>3. Entries(l, m + 1, a) = Entries(l, m, a) \cup {m + 1} /\ m + 1 \notin Entries(l, m, a)
    BY DEF Entries
  <2>4. IsFiniteSet(Lines(a, l, e.id)) /\ IsFiniteSet(Entries(l, m, a))
    <3>1. Lines(a, l, e.id) \subseteq 1 .. n /\ Entries(l, m, a) \subseteq 1 .. m
      BY <2>1 DEF Lines, Entries
    <3>2. IsFiniteSet(1 .. n) /\ IsFiniteSet(1 .. m)
      BY <2>1, FS_Interval
    <3> QED
      BY <3>1, <3>2, FS_Subset
  <2>5. /\ Cardinality(Lines(a, l, e.id) \cup {n + 1}) = Cardinality(Lines(a, l, e.id)) + 1
        /\ Cardinality(Entries(l, m, a) \cup {m + 1}) = Cardinality(Entries(l, m, a)) + 1
    BY <2>2, <2>3, <2>4, FS_AddElement
  <2> QED
    BY <1>2, <1>5, <2>2, <2>3, <2>5
<1> QED
  BY <1>3, <1>4, <1>5

\* What Progress says of one release.
Further(t, p, l, e) ==
  IF \A j \in 1 .. p - 1 : todo[t][j].do = "write"
    THEN \E m \in 0 .. Len(appenders_[l]) :
           /\ Len(appenders_[l]) = m + (p - 1)
           /\ \A j \in 1 .. p - 1 : /\ todo[t][j].at = l
                                   /\ todo[t][j].appender = appenders_[l][m + j]
           /\ UpTo(l, e, m)
    ELSE Untouched(l, e)

LEMMA ProgressOf ==
  ASSUME NEW t \in Threads, Progress(t), NEW p \in DOMAIN todo[t], todo[t][p].do = "logged"
  PROVE  Further(t, p, todo[t][p].at, todo[t][p].event)
BY DEF Progress, Further

LEMMA ProgressFrom ==
  ASSUME NEW t \in Threads,
         \A p \in DOMAIN todo'[t] : todo'[t][p].do = "logged" =>
           \E l, e : todo'[t][p].at = l /\ todo'[t][p].event = e /\ Further(t, p, l, e)'
  PROVE  Progress(t)'
BY DEF Progress, Further

\* The others hold the mutexes of their loggers.
LEMMA ProgressStays ==
  ASSUME LogTypes, OutOK, NEW t \in Threads, Request(t) \/ Do(t), \A v \in Threads : Mine(v),
         NEW u \in Threads \ {t}, Progress(u)
  PROVE  Progress(u)'
<1>1. todo'[u] = todo[u] /\ Leaves(t)
  BY OthersWait, RequestLeaves, DoLeaves
<1>2. ASSUME NEW p \in DOMAIN todo'[u], todo'[u][p].do = "logged",
             NEW l, l = todo[u][p].at, NEW e, e = todo[u][p].event
      PROVE  Further(u, p, l, e)'
  <2>1. p \in DOMAIN todo[u] /\ todo[u][p].do = "logged"
    BY <1>1, <1>2
  <2>2. Further(u, p, l, e) /\ mutex_[l] = u
    BY <1>2, <2>1, ProgressOf, MineLogs
  <2>3. l \in Loggers
    BY <1>2, <2>1 DEF LogTypes, Todo, StepOK, AtLogger, LogSteps
  <2>4. appenders_'[l] = appenders_[l]
    BY <1>1, <2>2, <2>3 DEF Leaves
  <2>5. SameLines(l, e.id)
    <3>1. CASE OutKept
      BY <2>4, <3>1, KeptLines
    <3>2. ASSUME NEW k, NEW a, NEW d, Writes(t, k, a, d)
          PROVE  SameLines(l, e.id)
      <4>1. k # l
        BY <2>2, <3>2, WriteOut
      <4> QED
        BY <3>2, <4>1, OtherLoggerLines
    <3> QED
      BY <3>1, <3>2, LinesKept
  <2>6. CASE \A j \in 1 .. p - 1 : todo[u][j].do = "write"
    <3>1. PICK m \in 0 .. Len(appenders_[l]) :
             /\ Len(appenders_[l]) = m + (p - 1)
             /\ \A j \in 1 .. p - 1 : /\ todo[u][j].at = l
                                     /\ todo[u][j].appender = appenders_[l][m + j]
             /\ UpTo(l, e, m)
      BY <2>2, <2>6 DEF Further
    <3>2. UpTo(l, e, m)'
      BY <2>3, <2>5, <3>1, UpToKept
    <3> QED
      BY <1>1, <2>4, <2>6, <3>1, <3>2 DEF Further
  <2>7. CASE ~\A j \in 1 .. p - 1 : todo[u][j].do = "write"
    <3>1. Untouched(l, e)'
      BY <2>2, <2>5, <2>7, UntouchedKept DEF Further
    <3> QED
      BY <1>1, <2>7, <3>1 DEF Further
  <2> QED
    BY <2>6, <2>7
<1> QED
  BY <1>1, <1>2, ProgressFrom

LEMMA ProgressEnters ==
  ASSUME LogTypes, OutOK, NEW t \in Threads, Mine(t), Fresh(t), Progress(t),
         NEW l, NEW e, Enters(t, l, e)
  PROVE  Progress(t)'
<1>1. PICK k, m \in Nat : Inside(t, l, e, k, m)
  BY Entered
<1>2. /\ todo[t] # <<>> /\ Step(t).do = "log" /\ Step(t).event = e
      /\ UNCHANGED <<appenders_, appenders, out>>
  BY DEF Enters
<1>3. 1 \in DOMAIN todo[t] /\ todo[t][1].do = "log" /\ todo[t][1].event = e
  BY <1>2, HeadStep DEF LogTypes
<1>4. \A a \in DOMAIN out : Lines(a, l, e.id) = {}
  BY <1>3, FreshLines
<1>5. \A j, f : (UpTo(j, f, 0) => UpTo(j, f, 0)') /\ (Untouched(j, f) => Untouched(j, f)')
  BY <1>2 DEF UpTo, Untouched, Lines, Wrote, Entries
<1>6. UpTo(l, e, 0)'
  BY <1>4, <1>5, UpToNone
<1>7. \A i \in 1 .. k : todo'[t][i].do # "logged" /\ (appenders_[l] # <<>> =>
                          /\ todo'[t][i].do = "write" /\ todo'[t][i].at = l
                          /\ todo'[t][i].appender = appenders_[l][i])
  <2> SUFFICES ASSUME NEW i \in 1 .. k
               PROVE  todo'[t][i].do # "logged" /\ (appenders_[l] # <<>> =>
                          /\ todo'[t][i].do = "write" /\ todo'[t][i].at = l
                          /\ todo'[t][i].appender = appenders_[l][i])
    OBVIOUS
  <2>1. CASE appenders_[l] # <<>>
    <3>1. todo'[t][i] = [do |-> "write", at |-> l, event |-> e, appender |-> appenders_[l][i]]
      BY <1>1, <2>1 DEF Inside
    <3> QED
      BY <2>1, <3>1
  <2>2. CASE appenders_[l] = <<>>
    <3>1. k # 0
      OBVIOUS
    <3>2. k = 1 /\ todo'[t][1] = [do |-> "log", at |-> Root, event |-> e]
      BY <1>1, <2>2, <3>1 DEF Inside
    <3> QED
      BY <2>2, <3>2
  <2> QED
    BY <2>1, <2>2
<1>8. /\ DOMAIN todo'[t] = 1 .. k + m
      /\ todo'[t][k + 1].do = "logged" /\ todo'[t][k + 1].at = l /\ todo'[t][k + 1].event = e
  <2>1. todo'[t][k + 1] = [do |-> "logged", at |-> l, event |-> e] /\ DOMAIN todo'[t] = 1 .. k + m
    BY <1>1 DEF Inside
  <2> QED
    BY <2>1
<1>9. Further(t, k + 1, l, e)'
  <2> DEFINE r == k + 1
  <2>1. r - 1 = k
    OBVIOUS
  <2> HIDE DEF r
  <2>2. CASE appenders_[l] # <<>>
    <3>1. Len(appenders_[l]) = 0 + k /\ 0 \in 0 .. Len(appenders_[l]) /\ \A j \in 1 .. k : 0 + j = j
      BY <1>1, <2>2 DEF Inside
    <3>2. \A j \in 1 .. k : /\ todo'[t][j].do = "write" /\ todo'[t][j].at = l
                            /\ todo'[t][j].appender = appenders_[l][0 + j]
      BY <1>7, <2>2, <3>1
    <3>3. Further(t, r, l, e)'
      BY <1>2, <1>6, <2>1, <3>1, <3>2 DEF Further
    <3> QED
      BY <3>3 DEF r
  <2>3. CASE appenders_[l] = <<>> /\ l = Root
    <3>1. k = 0 /\ Len(appenders_[l]) = 0 + k /\ 0 \in 0 .. Len(appenders_[l])
      BY <1>1, <2>3, ListOfNone DEF Inside
    <3>2. Further(t, r, l, e)'
      BY <1>2, <1>6, <2>1, <3>1 DEF Further
    <3> QED
      BY <3>2 DEF r
  <2>4. CASE appenders_[l] = <<>> /\ l # Root
    <3>1. k = 1 /\ todo'[t][1] = [do |-> "log", at |-> Root, event |-> e]
      BY <1>1, <2>4 DEF Inside
    <3>2. 1 \in 1 .. k /\ todo'[t][1].do # "write"
      BY <3>1
    <3>3. Untouched(l, e)'
      BY <1>4, <1>5, <2>4 DEF Untouched
    <3>4. Further(t, r, l, e)'
      BY <2>1, <3>2, <3>3 DEF Further
    <3> QED
      BY <3>4 DEF r
  <2> QED
    BY <2>2, <2>3, <2>4
<1>10. ASSUME NEW p \in k + 2 .. k + m, NEW j, j = todo'[t][p].at, NEW f, f = todo'[t][p].event
       PROVE  Further(t, p, j, f)'
  <2> SUFFICES ASSUME NEW q, q = p - k
               PROVE  Further(t, p, j, f)'
    OBVIOUS
  <2>1. q \in DOMAIN todo[t] /\ todo'[t][p] = todo[t][q] /\ todo[t][q].do = "logged"
    BY <1>1 DEF Inside
  <2>2. 1 \in 1 .. q - 1 /\ k + 1 \in 1 .. p - 1
    OBVIOUS
  <2>3. Further(t, q, j, f)
    BY <1>10, <2>1, ProgressOf
  <2>4. Untouched(j, f)
    BY <1>3, <2>2, <2>3 DEF Further
  <2>5. Untouched(j, f)'
    BY <1>5, <2>4
  <2> QED
    BY <1>8, <2>2, <2>5 DEF Further
<1>11. ASSUME NEW p \in DOMAIN todo'[t], todo'[t][p].do = "logged",
              NEW j, j = todo'[t][p].at, NEW f, f = todo'[t][p].event
       PROVE  Further(t, p, j, f)'
  <2>1. p \in 1 .. k \/ p = k + 1 \/ p \in k + 2 .. k + m
    BY <1>8
  <2>2. CASE p = k + 1
    BY <1>8, <1>9, <1>11, <2>2
  <2> QED
    BY <1>7, <1>10, <1>11, <2>1, <2>2
<1> QED
  BY <1>11, ProgressFrom

LEMMA ProgressEnds ==
  ASSUME LogTypes, NEW t \in Threads, Mine(t), Progress(t), Ends(t)
  PROVE  Progress(t)'
<1>1. /\ todo[t] # <<>> /\ Continue(t, <<>>) /\ Step(t).do \in LogSteps /\ Step(t).do # "write"
      /\ UNCHANGED <<appenders_, appenders, out>>
  BY DEF Ends, LogSteps
<1>2. /\ \A i \in DOMAIN todo'[t] : /\ i \in Nat \ {0} /\ i + 1 \in DOMAIN todo[t]
                                    /\ todo'[t][i] = todo[t][i + 1]
                                    /\ todo[t][i + 1].do = "logged"
      /\ DOMAIN todo'[t] = 1 .. Len(todo[t]) - 1 /\ Len(todo[t]) \in Nat \ {0}
      /\ Step(t) = todo[t][1]
  BY <1>1, RestOfLog
<1>3. \A j, f : (UpTo(j, f, 0) => UpTo(j, f, 0)') /\ (Untouched(j, f) => Untouched(j, f)')
  BY <1>1 DEF UpTo, Untouched, Lines, Wrote, Entries
<1>4. ASSUME NEW p \in DOMAIN todo'[t], NEW j, j = todo'[t][p].at, NEW f, f = todo'[t][p].event
      PROVE  Further(t, p, j, f)'
  <2> SUFFICES ASSUME NEW q, q = p + 1
               PROVE  Further(t, p, j, f)'
    OBVIOUS
  <2>1. /\ q \in DOMAIN todo[t] /\ todo'[t][p] = todo[t][q] /\ todo[t][q].do = "logged"
        /\ 1 \in 1 .. q - 1
    BY <1>2
  <2>2. Further(t, q, j, f)
    BY <1>4, <2>1, ProgressOf
  <2>3. Untouched(j, f)
    <3>1. todo[t][1].do # "write"
      BY <1>1, <1>2
    <3>2. ~ \A m \in 1 .. q - 1 : todo[t][m].do = "write"
      BY <2>1, <3>1
    <3> QED
      BY <2>2, <3>2 DEF Further
  <2>4. Untouched(j, f)'
    BY <1>3, <2>3
  <2>5. CASE p = 1
    <3>1. UpTo(j, f, 0)'
      BY <1>3, <2>3, UpToNone DEF Untouched
    <3>2. appenders_'[j] = <<>> /\ Len(<<>>) = 0 + (p - 1) /\ 0 \in 0 .. Len(<<>>)
      BY <2>4, <2>5, ListOfNone DEF Untouched
    <3>3. 1 .. p - 1 = {}
      BY <2>5
    <3> QED
      BY <3>1, <3>2, <3>3 DEF Further
  <2>6. CASE p # 1
    <3>1. 1 \in 1 .. p - 1 /\ 1 \in DOMAIN todo'[t]
      BY <1>2, <2>6
    <3>2. todo'[t][1].do = "logged"
      BY <1>2, <3>1
    <3> QED
      BY <2>4, <3>1, <3>2 DEF Further
  <2> QED
    BY <2>5, <2>6
<1> QED
  BY <1>4, ProgressFrom

LEMMA ProgressWrites ==
  ASSUME LogTypes, OutOK, NEW t \in Threads, Mine(t), Progress(t),
         NEW l, NEW a, NEW e, Writes(t, l, a, e)
  PROVE  Progress(t)'
<1>1. /\ todo[t] # <<>> /\ Continue(t, <<>>) /\ Step(t).do \in LogSteps /\ Step(t).do = "write"
      /\ Step(t).at = l /\ Step(t).appender = a /\ Step(t).event = e
      /\ appenders_' = appenders_
  BY DEF Writes, LogSteps
<1>2. /\ \A i \in DOMAIN todo'[t] : /\ i \in Nat \ {0} /\ i + 1 \in DOMAIN todo[t]
                                    /\ todo'[t][i] = todo[t][i + 1]
                                    /\ todo[t][i + 1].event = e
      /\ DOMAIN todo'[t] = 1 .. Len(todo[t]) - 1 /\ Len(todo[t]) \in Nat \ {0}
      /\ DOMAIN todo[t] = 1 .. Len(todo[t]) /\ Step(t) = todo[t][1]
  BY <1>1, RestOfLog
<1>3. PICK r \in DOMAIN todo[t] : Releases(t, r, l)
  <2>1. 1 \in DOMAIN todo[t]
    BY <1>2
  <2> QED
    BY <1>1, <1>2, <2>1, MineLogs
<1>4. ASSUME NEW p \in DOMAIN todo'[t], todo'[t][p].do = "logged",
             NEW k, k = todo'[t][p].at, NEW f, f = todo'[t][p].event
      PROVE  Further(t, p, k, f)'
  <2> SUFFICES ASSUME NEW q, q = p + 1
               PROVE  Further(t, p, k, f)'
    OBVIOUS
  <2>1. /\ q \in DOMAIN todo[t] /\ todo'[t][p] = todo[t][q] /\ todo[t][q].do = "logged"
        /\ todo[t][q].at = k /\ todo[t][q].event = f /\ f = e /\ p \in Nat \ {0} /\ q - 1 = p
        /\ 1 \in 1 .. p /\ p \in DOMAIN todo[t]
    BY <1>2, <1>4
  <2>2. Further(t, q, k, f)
    BY <2>1, ProgressOf
  <2>3. \A j \in 1 .. p - 1 : j \in DOMAIN todo'[t] /\ j + 1 \in 1 .. p
    BY <1>2, <2>1
  <2>4. CASE \A j \in 1 .. p : todo[t][j].do = "write"
    <3>1. PICK m \in 0 .. Len(appenders_[k]) :
             /\ Len(appenders_[k]) = m + p
             /\ \A j \in 1 .. p : todo[t][j].at = k /\ todo[t][j].appender = appenders_[k][m + j]
             /\ UpTo(k, f, m)
      BY <2>1, <2>2, <2>4 DEF Further
    <3>2. k = l /\ appenders_[k][m + 1] = a
      BY <1>1, <1>2, <2>1, <3>1
    <3>3. m \in Nat /\ m + 1 <= Len(appenders_[l]) /\ m + 1 \in 0 .. Len(appenders_[l])
          /\ Len(appenders_[l]) = (m + 1) + (p - 1)
      <4>1. m \in Nat
        OBVIOUS
      <4>2. m + p = (m + 1) + (p - 1) /\ m + 1 <= m + p /\ m + 1 \in 0 .. m + p
        BY <2>1, <4>1
      <4> QED
        BY <3>1, <3>2, <4>1, <4>2
    <3>4. UpTo(l, e, m + 1)'
      BY <2>1, <3>1, <3>2, <3>3, UpToNext
    <3>5. ASSUME NEW j \in 1 .. p - 1
          PROVE  /\ todo'[t][j].do = "write" /\ todo'[t][j].at = l
                 /\ todo'[t][j].appender = appenders_[l][(m + 1) + j]
      <4>1. todo'[t][j] = todo[t][j + 1] /\ j + 1 \in 1 .. p
        BY <1>2, <2>3
      <4>2. m + (j + 1) = (m + 1) + j
        BY <3>3
      <4>3. todo[t][j + 1].appender = appenders_[k][m + (j + 1)]
        BY <3>1, <4>1
      <4> QED
        BY <2>4, <3>1, <3>2, <4>1, <4>2, <4>3
    <3> DEFINE n == m + 1
    <3>6. /\ n \in 0 .. Len(appenders_[l]) /\ Len(appenders_[l]) = n + (p - 1) /\ UpTo(l, e, n)'
          /\ \A j \in 1 .. p - 1 : todo'[t][j].appender = appenders_[l][n + j]
      BY <3>3, <3>4, <3>5
    <3> HIDE DEF n
    <3>7. Further(t, p, l, e)'
      BY <1>1, <3>5, <3>6 DEF Further
    <3> QED
      BY <2>1, <3>2, <3>7
  <2>5. ASSUME NEW j \in 1 .. p, todo[t][j].do # "write"
        PROVE  Further(t, p, k, f)'
    <3>1. Untouched(k, f)
      BY <2>1, <2>2, <2>5 DEF Further
    <3>2. k # l
      <4>1. /\ todo[t][r].do = "logged" /\ todo[t][r].at = l
            /\ \A i \in 1 .. r - 1 : todo[t][i].do = "write"
        BY <1>3 DEF Releases
      <4>2. r # q
        BY <2>1, <2>5, <4>1
      <4> QED
        BY <2>1, <4>1, <4>2, MineLogs
    <3>3. Untouched(k, f)'
      BY <3>1, <3>2, OtherLoggerLines, UntouchedKept
    <3>4. j # 1
      BY <1>1, <1>2, <2>5
    <3>5. PICK i \in 1 .. p - 1 : i + 1 = j
      BY <2>1, <3>4
    <3>6. todo'[t][i].do # "write"
      BY <1>2, <2>3, <2>5, <3>5
    <3> QED
      BY <3>3, <3>6 DEF Further
  <2> QED
    BY <2>4, <2>5
<1> QED
  BY <1>4, ProgressFrom

LEMMA ProgressStep ==
  ASSUME LogTypes, OutOK, NEW t \in Threads, Request(t) \/ Do(t), \A v \in Threads : Mine(v),
         Fresh(t), \A v \in Threads : Progress(v)
  PROVE  \A u \in Threads : Progress(u)'
<1>1. \A u \in Threads \ {t} : Progress(u)'
  BY ProgressStays
<1>2. CASE QuietAct(t)
  <2>1. Quiet(t)'
    BY <1>2, QuietSteps
  <2>2. \A p \in DOMAIN todo'[t] : todo'[t][p].do # "logged"
    BY <2>1 DEF Quiet, LogSteps
  <2>3. Progress(t)'
    BY <2>2, ProgressFrom
  <2> QED
    BY <1>1, <2>3
<1>3. ASSUME NEW e, Begins(t, e)
      PROVE  Progress(t)'
  <2>1. \A p \in DOMAIN todo'[t] : todo'[t][p].do # "logged"
    BY <1>3 DEF Begins
  <2> QED
    BY <2>1, ProgressFrom
<1>4. ASSUME NEW l, NEW e, Enters(t, l, e)
      PROVE  Progress(t)'
  BY <1>4, ProgressEnters
<1>5. ASSUME Ends(t)
      PROVE  Progress(t)'
  BY <1>5, ProgressEnds
<1>6. ASSUME NEW l, NEW a, NEW e, Writes(t, l, a, e)
      PROVE  Progress(t)'
  BY <1>6, ProgressWrites
<1> QED
  BY <1>1, <1>2, <1>3, <1>4, <1>5, <1>6, Kinds

-----------------------------------------------------------------------------
(* The loggers: the properties *)

LEMMA LogInvarInit == LoggerInit => LogInvar
<1> SUFFICES ASSUME LoggerInit
             PROVE  LogInvar
  OBVIOUS
<1>1. LogTypes
  BY LogTypesInit
<1>2. \A t \in Threads : todo[t] = <<>> /\ DOMAIN todo[t] = {}
  BY ListOfNone DEF LoggerInit
<1>3. DOMAIN out = {1} /\ out[1] = <<>>
  BY DEF LoggerInit
<1>4. Own /\ \A t \in Threads : Mine(t) /\ Fresh(t) /\ LastWord(t) /\ Progress(t)
  BY <1>2 DEF Own, Logs, Mine, Fresh, LastWord, Progress
<1>5. OutOK /\ SameOrder
  BY <1>3, ListOfNone DEF OutOK, SameOrder, Before
<1> QED
  BY <1>1, <1>4, <1>5 DEF LogInvar

LEMMA LogInvarStep ==
  ASSUME LogInvar, [LoggerNext]_loggerVars
  PROVE  LogInvar'
<1>1. LogTypes'
  BY LogTypesStep DEF LogInvar
<1>2. CASE UNCHANGED loggerVars
  <2>1. UNCHANGED <<mutex_, appenders_, appenders, colorOn, todo, out>>
    BY <1>2 DEF loggerVars, loggerConf
  <2>2. Own' /\ OutOK' /\ SameOrder'
    BY <2>1 DEF LogInvar, Own, Logs, OutOK, SameOrder, Before, Wrote
  <2>3. ASSUME NEW t \in Threads
        PROVE  Mine(t)' /\ Fresh(t)' /\ LastWord(t)' /\ Progress(t)'
    <3>1. Mine(t)' = Mine(t) /\ Fresh(t)' = Fresh(t)
      BY <2>1 DEF Mine, Releases, Fresh
    <3>2. LastWord(t)' = LastWord(t)
      BY <2>1 DEF LastWord, Before, Wrote
    <3>3. Progress(t)' = Progress(t)
      BY <2>1 DEF Progress, UpTo, Untouched, Lines, Entries, Wrote
    <3> QED
      BY <3>1, <3>2, <3>3 DEF LogInvar
  <2> QED
    BY <1>1, <2>2, <2>3 DEF LogInvar
<1>3. CASE LoggerNext
  <2>1. PICK t \in Threads : Request(t) \/ Do(t)
    BY <1>3 DEF LoggerNext
  <2>2. /\ LogTypes /\ Own /\ OutOK /\ SameOrder
        /\ \A u \in Threads : Mine(u) /\ Fresh(u) /\ LastWord(u) /\ Progress(u)
    BY DEF LogInvar
  <2>3. Own' /\ OutOK' /\ SameOrder'
    BY <2>1, <2>2, OwnStep, OutStep, SameOrderStep
  <2>4. \A u \in Threads : Mine(u)'
    BY <2>1, <2>2, MineStep
  <2>5. \A u \in Threads : Fresh(u)'
    BY <2>1, <2>2, FreshStep
  <2>6. \A u \in Threads : LastWord(u)'
    BY <2>1, <2>2, LastWordStep
  <2>7. \A u \in Threads : Progress(u)'
    BY <2>1, <2>2, ProgressStep
  <2> QED
    BY <1>1, <2>3, <2>4, <2>5, <2>6, <2>7 DEF LogInvar
<1> QED
  BY <1>2, <1>3

THEOREM LoggerInvariant == LoggerSpec => []LogInvar
<1> QED
  BY LogInvarInit, LogInvarStep, PTL DEF LoggerSpec

\* Two events that went through one logger stand in one order in all of its
\* appenders (Logger.cpp:469-482).
THEOREM EventsInOneOrder == LoggerSpec => []SameOrder
<1>1. LogInvar => SameOrder
  BY DEF LogInvar
<1> QED
  BY <1>1, LoggerInvariant, PTL

\* When a logger has called its appenders, the event stands in each as often as the
\* logger lists it, whatever the other threads did meanwhile (Logger.cpp:447-482).
THEOREM EveryAppenderWritten == LoggerSpec => WrittenToAll
<1>1. ASSUME LogInvar, NEW t \in Threads, At(t, "logged")
      PROVE  LET l == Step(t).at
                 e == Step(t).event
             IN  \A a \in DOMAIN appenders :
                   Cardinality({i \in DOMAIN out[a] : Wrote(a, i, l, e.id)}) =
                     IF e.level >= appenders[a].level
                       THEN Cardinality({i \in DOMAIN appenders_[l] : appenders_[l][i] = a})
                       ELSE 0
  <2> SUFFICES ASSUME NEW l, l = Step(t).at, NEW e, e = Step(t).event, NEW a \in DOMAIN appenders
               PROVE  Cardinality({i \in DOMAIN out[a] : Wrote(a, i, l, e.id)}) =
                        IF e.level >= appenders[a].level
                          THEN Cardinality({i \in DOMAIN appenders_[l] : appenders_[l][i] = a})
                          ELSE 0
    OBVIOUS
  <2>1. LogTypes /\ Progress(t)
    BY <1>1 DEF LogInvar
  <2>2. todo[t] # <<>> /\ Step(t).do = "logged"
    BY <1>1 DEF At, Step
  <2>3. 1 \in DOMAIN todo[t] /\ Step(t) = todo[t][1] /\ StepOK(Step(t))
    BY <2>1, <2>2, HeadStep DEF LogTypes
  <2>4. Further(t, 1, l, e)
    BY <2>1, <2>2, <2>3, ProgressOf
  <2>5. appenders_[l] \in Seq(DOMAIN appenders) /\ a \in DOMAIN out
    BY <2>1, <2>2, <2>3 DEF StepOK, AtLogger, LogSteps, LogTypes, LoggerTypeOK
  <2>6. Len(appenders_[l]) \in Nat /\ DOMAIN appenders_[l] = 1 .. Len(appenders_[l])
    BY <2>5
  <2>7. UpTo(l, e, Len(appenders_[l]))
    <3>1. 1 .. 1 - 1 = {}
      OBVIOUS
    <3>2. PICK m \in 0 .. Len(appenders_[l]) : Len(appenders_[l]) = m + (1 - 1) /\ UpTo(l, e, m)
      BY <2>4, <3>1 DEF Further
    <3>3. m = Len(appenders_[l])
      BY <2>6, <3>2
    <3> QED
      BY <3>2, <3>3
  <2> QED
    BY <2>5, <2>6, <2>7 DEF UpTo, Lines, Entries
<1>2. LogInvar => [\A t \in Threads :
       (At(t, "logged") /\ mutex_'[Step(t).at] = Nobody) =>
          LET l == Step(t).at
              e == Step(t).event
          IN  \A a \in DOMAIN appenders :
                Cardinality({i \in DOMAIN out[a] : Wrote(a, i, l, e.id)}) =
                  IF e.level >= appenders[a].level
                    THEN Cardinality({i \in DOMAIN appenders_[l] : appenders_[l][i] = a})
                    ELSE 0]_loggerVars
  BY <1>1
<1> QED
  BY <1>2, LoggerInvariant, PTL DEF WrittenToAll

-----------------------------------------------------------------------------
(* The loggers: colours *)

\* A line without a colour code, and all the lines of the files.
Plain(line) == \A j \in DOMAIN line.text : ~line.text[j].coloured
PlainFile(a) == appenders[a].kind = "file" => \A i \in DOMAIN out[a] : Plain(out[a][i])

\* Between two writes no event has its colours on.
ColourInv == (\A e \in DOMAIN colorOn : ~colorOn[e]) /\ \A a \in DOMAIN out : PlainFile(a)

LEMMA ColoursOff ==
  ASSUME LogTypes, \A e \in DOMAIN colorOn : ~colorOn[e], NEW t \in Threads, Request(t)
  PROVE  \A e \in DOMAIN colorOn' : ~colorOn'[e]
<1>1. colorOn \in Seq(BOOLEAN)
  BY DEF LogTypes, LoggerTypeOK
<1>2. colorOn' = colorOn \/ colorOn' = Append(colorOn, FALSE)
  BY DEF Request, NewEvent, getLogger, init, Member
<1>3. CASE colorOn' = Append(colorOn, FALSE)
  <2> DEFINE n == Len(colorOn)
             longer == Append(colorOn, FALSE)
  <2>0. DOMAIN colorOn = 1 .. n /\ n \in Nat /\ DOMAIN longer = 1 .. n + 1
    BY <1>1
  <2>3. longer[n + 1] = FALSE /\ \A e \in 1 .. n : longer[e] = colorOn[e]
    BY <1>1, <2>0
  <2>1. /\ DOMAIN colorOn = 1 .. n /\ n \in Nat /\ DOMAIN colorOn' = 1 .. n + 1
        /\ colorOn'[n + 1] = FALSE /\ \A e \in DOMAIN colorOn : colorOn'[e] = colorOn[e]
    BY <1>3, <2>0, <2>3
  <2> HIDE DEF n
  <2>2. \A e \in DOMAIN colorOn' : e \in DOMAIN colorOn \/ e = n + 1
    BY <2>1
  <2> QED
    BY <2>1, <2>2
<1>4. CASE colorOn' = colorOn
  BY <1>4
<1> QED
  BY <1>2, <1>3, <1>4

\* No appender changes its kind.
LEMMA KindsKept ==
  ASSUME LogTypes, NEW t \in Threads, Request(t) \/ Do(t)
  PROVE  \A a \in DOMAIN appenders : appenders'[a].kind = appenders[a].kind
<1>1. appenders \in Seq(Appender)
  BY DEF LogTypes, LoggerTypeOK, Appender
<1>2. CASE Request(t)
  BY <1>2 DEF Request, NewEvent, getLogger, init, Member
<1>3. CASE setAppenderFormatter(t) \/ putAppender(t)
  <2>1. PICK a, p : appenders' = [appenders EXCEPT ![a].pattern = p]
    BY <1>3 DEF setAppenderFormatter, putAppender
  <2> QED
    BY <1>1, <2>1 DEF Appender
<1>4. CASE makeAppender(t)
  <2>1. PICK new : appenders' = Append(appenders, new)
    BY <1>4 DEF makeAppender
  <2> QED
    BY <1>1, <2>1
<1>5. CASE \/ find(t) \/ setLevel(t) \/ setFormatter(t) \/ skip(t) \/ throw(t) \/ addAppender(t)
           \/ removeAppender(t) \/ clearAppenders(t) \/ log(t) \/ write(t) \/ dumpAll(t)
           \/ dumpedAll(t) \/ Unlock(t, "logged") \/ dump(t) \/ Unlock(t, "dumped")
  BY <1>5 DEF find, setLevel, setFormatter, skip, throw, addAppender, removeAppender, log, write,
              dumpAll, clearAppenders, SetList, dumpedAll, Unlock, dump
<1> QED
  BY <1>2, <1>3, <1>4, <1>5 DEF Do

\* A file that is written while the event has its colours off gets a plain line.
LEMMA PlainLine ==
  ASSUME NEW items, NEW event, NEW name
  PROVE  \A j \in DOMAIN format(items, event, FALSE, name) :
           ~format(items, event, FALSE, name)[j].coloured
BY DEF format, Coloured

LEMMA ColourWrite ==
  ASSUME LogTypes, OutOK, ColourInv, NEW t \in Threads, write(t)
  PROVE  ColourInv'
<1> DEFINE a == Step(t).appender
           e == Step(t).event
           color_on == appenders[a].kind = "stdout" \/ colorOn[e.id]
           line == [event |-> e.id, logger |-> Step(t).at,
                    text |-> format(Formatter[appenders[a].pattern], e, color_on, Step(t).at)]
<1>1. Step(t).do = "write" /\ 1 \in DOMAIN todo[t] /\ Step(t) = todo[t][1] /\ StepOK(Step(t))
  BY HeadStep DEF LogTypes, write, At, Step
<1>2. a \in DOMAIN appenders /\ e.id \in DOMAIN colorOn /\ DOMAIN out = DOMAIN appenders
  BY <1>1 DEF StepOK, LogSteps, LogTypes, LoggerTypeOK
<1>3. /\ colorOn \in Seq(BOOLEAN) /\ appenders' = appenders
      /\ e.level >= appenders[a].level =>
           /\ out' = [out EXCEPT ![a] = Append(@, line)]
           /\ colorOn' = [colorOn EXCEPT ![e.id] = ColorAfter(appenders[a].kind, @)]
      /\ ~(e.level >= appenders[a].level) => UNCHANGED <<out, colorOn>>
  BY DEF write, LogTypes, LoggerTypeOK
<1>4. \A f \in DOMAIN colorOn : ~colorOn[f]
  BY DEF ColourInv
<1>5. appenders[a].kind = "file" => Plain(line)
  <2>1. ASSUME appenders[a].kind = "file"
        PROVE  color_on = FALSE
    BY <1>2, <1>4, <2>1
  <2> QED
    BY <2>1, PlainLine DEF Plain
<1> HIDE DEF line
<1>6. \A f \in DOMAIN colorOn' : ~colorOn'[f]
  BY <1>2, <1>3, <1>4 DEF ColorAfter
<1>7. ASSUME NEW b \in DOMAIN out'
      PROVE  PlainFile(b)'
  <2>1. b \in DOMAIN out /\ PlainFile(b)
    BY <1>3, <1>7 DEF ColourInv
  <2>2. CASE out'[b] = out[b]
    BY <1>3, <2>1, <2>2 DEF PlainFile, Plain
  <2>3. CASE b = a /\ out'[b] = Append(out[b], line)
    <3> DEFINE s == out[b]
               S == ToSet(s) \cup {line}
    <3>1. s \in Seq(S) /\ line \in S
      BY <2>1 DEF OutOK, IsList
    <3> HIDE DEF s, S
    <3>2. /\ \A i \in DOMAIN Append(s, line) : i \in DOMAIN s \/ Append(s, line)[i] = line
          /\ \A i \in DOMAIN s : Append(s, line)[i] = s[i]
      BY <3>1
    <3>3. appenders[b].kind = "file" => \A i \in DOMAIN out'[b] : Plain(out'[b][i])
      BY <1>5, <2>1, <2>3, <3>2 DEF PlainFile, s
    <3> QED
      BY <1>3, <3>3 DEF PlainFile, Plain
  <2> QED
    BY <1>2, <1>3, <2>1, <2>2, <2>3
<1> QED
  BY <1>6, <1>7 DEF ColourInv

LEMMA ColourStep ==
  ASSUME LogInvar, ColourInv, [LoggerNext]_loggerVars
  PROVE  ColourInv'
<1>1. CASE UNCHANGED loggerVars
  BY <1>1 DEF loggerVars, loggerConf, ColourInv, PlainFile, Plain
<1>2. ASSUME NEW t \in Threads, Request(t) \/ Do(t), ~write(t)
      PROVE  ColourInv'
  <2>1. OutKept /\ LogTypes
    BY <1>2, RequestKeepsOut, DoKeepsOut DEF LogInvar
  <2>2. \A f \in DOMAIN colorOn' : ~colorOn'[f]
    <3>1. CASE Request(t)
      BY <2>1, <3>1, ColoursOff DEF ColourInv
    <3>2. CASE Do(t)
      <4>1. colorOn' = colorOn
        BY <1>2, <3>2 DEF Do, find, setLevel, setFormatter, setAppenderFormatter, skip, throw,
           makeAppender, addAppender, putAppender, removeAppender, clearAppenders, SetList, log,
           dumpAll, dump, dumpedAll, Unlock
      <4> QED
        BY <4>1 DEF ColourInv
    <3> QED
      BY <1>2, <3>1, <3>2
  <2>3. ASSUME NEW a \in DOMAIN out'
        PROVE  PlainFile(a)'
    <3>1. CASE a \in DOMAIN out
      <4>1. out'[a] = out[a] /\ appenders'[a].kind = appenders[a].kind
        BY <1>2, <2>1, <3>1, KindsKept DEF OutKept, LogTypes, LoggerTypeOK
      <4> QED
        BY <3>1, <4>1 DEF ColourInv, PlainFile, Plain
    <3>2. CASE a \notin DOMAIN out
      <4>1. out'[a] = <<>>
        BY <2>1, <3>2 DEF OutKept
      <4> QED
        BY <4>1, ListOfNone DEF PlainFile
    <3> QED
      BY <3>1, <3>2
  <2> QED
    BY <2>2, <2>3 DEF ColourInv
<1>3. ASSUME NEW t \in Threads, write(t)
      PROVE  ColourInv'
  BY <1>3, ColourWrite DEF LogInvar
<1> QED
  BY <1>1, <1>2, <1>3 DEF LoggerNext

\* The colours of the terminal never reach a file, whichever appenders share an event
\* and whatever is added or changed meanwhile (Logger.cpp:185-192).
THEOREM ColourStaysOnTerminal == LoggerSpec => []ColourOnTerminalOnly
<1>1. LoggerInit => ColourInv
  <2> SUFFICES ASSUME LoggerInit
               PROVE  ColourInv
    OBVIOUS
  <2>1. DOMAIN out = {1} /\ out[1] = <<>> /\ colorOn = <<>>
    BY DEF LoggerInit
  <2> QED
    BY <2>1, ListOfNone DEF ColourInv, PlainFile
<1>2. LogInvar /\ ColourInv /\ [LoggerNext]_loggerVars => ColourInv'
  BY ColourStep
<1>3. ColourInv => ColourOnTerminalOnly
  BY DEF ColourInv, PlainFile, Plain, ColourOnTerminalOnly
<1> QED
  BY <1>1, <1>2, <1>3, LoggerInvariant, PTL DEF LoggerSpec

-----------------------------------------------------------------------------
(* The loggers: no deadlock *)

\* The step by which t will release the mutex of l.
Holds(t, l) == \E i \in DOMAIN todo[t] : /\ todo[t][i].at = l
                                         /\ \/ todo[t][i].do = "logged"
                                            \/ i = 1 /\ todo[t][i].do \in {"put", "dumped"}
HoldsAll(t) == \E i \in DOMAIN todo[t] : todo[t][i].do = "dumpedAll"

\* A call of log() inside others is for the root logger, whose mutex they do not
\* hold.
Inner(t) == \A j \in DOMAIN todo[t] : todo[t][1].do = "log" /\ j # 1 =>
                                        todo[t][1].at = Root /\ todo[t][j].at # Root

\* Whoever holds the manager's mutex has only loggers to dump before it is released;
\* a logger that is dumped is released next.
Dumping(t) ==
  \A i \in DOMAIN todo[t] :
    /\ todo[t][i].do = "dumpedAll" =>
         \A j \in 1 .. i : todo[t][j].do \in {"dump", "dumped", "dumpedAll"}
    /\ todo[t][i].do = "dump" => /\ i + 1 \in DOMAIN todo[t] /\ todo[t][i + 1].do = "dumped"
                                 /\ todo[t][i + 1].at = todo[t][i].at

\* A thread that holds a mutex will release it.
Returns(t) == /\ Inner(t) /\ Dumping(t)
              /\ \A l \in Loggers : mutex_[l] = t => Holds(t, l)
              /\ manager_mutex_ = t => HoldsAll(t)

WaitInv == \A t \in Threads : Returns(t)

\* Who holds a logger's mutex does not wait, or waits for the root logger's.
LEMMA HolderGoesOn ==
  ASSUME LogTypes, NEW t \in Threads, Mine(t), Returns(t), NEW l \in Loggers, mutex_[l] = t
  PROVE  /\ todo[t] # <<>>
         /\ Waits(t) => l # Root /\ mutex_[Root] # Nobody
<1>1. PICK i \in DOMAIN todo[t] : /\ todo[t][i].at = l
                                  /\ \/ todo[t][i].do = "logged"
                                     \/ i = 1 /\ todo[t][i].do \in {"put", "dumped"}
  BY DEF Returns, Holds
<1>2. todo[t] # <<>>
  BY <1>1, ListOfNone
<1>3. 1 \in DOMAIN todo[t] /\ Step(t) = todo[t][1]
  BY <1>2, HeadStep DEF LogTypes
<1>4. CASE i = 1
  <2>1. Step(t).do \in {"put", "dumped", "logged"}
    BY <1>1, <1>3, <1>4
  <2> QED
    BY <1>2, <2>1 DEF Waits
<1>5. CASE i # 1
  <2>1. Step(t).do \in {"log", "write", "logged"}
    BY <1>1, <1>3, <1>5 DEF Mine, LogSteps
  <2>2. Step(t).do = "log" => Step(t).at = Root /\ l # Root
    BY <1>1, <1>3, <1>5 DEF Returns, Inner
  <2> QED
    BY <1>2, <2>1, <2>2 DEF Waits
<1> QED
  BY <1>4, <1>5

LEMMA SomebodyGoesOn ==
  ASSUME LogInvar, \A t \in Threads : Returns(t)
  PROVE  NoDeadlock
<1> SUFFICES ASSUME NEW t \in Threads, todo[t] # <<>>
             PROVE  \E u \in Threads : todo[u] # <<>> /\ ~Waits(u)
  BY DEF NoDeadlock
<1>1. LogTypes /\ \A u \in Threads : Mine(u)
  BY DEF LogInvar
<1>2. Root \in Loggers /\ \A l \in Loggers : mutex_[l] # Nobody => mutex_[l] \in Threads
  BY <1>1, LoggerAssumption DEF LogTypes, LoggerTypeOK, Holders
<1>3. CASE mutex_[Root] # Nobody
  BY <1>1, <1>2, <1>3, HolderGoesOn
<1>4. CASE mutex_[Root] = Nobody /\ \E l \in Loggers : mutex_[l] # Nobody
  BY <1>1, <1>2, <1>4, HolderGoesOn
<1>5. CASE (\A l \in Loggers : mutex_[l] = Nobody) /\ manager_mutex_ # Nobody
  <2> DEFINE u == manager_mutex_
  <2>1. u \in Threads
    BY <1>1, <1>5 DEF LogTypes, LoggerTypeOK, Holders
  <2>2. PICK i \in DOMAIN todo[u] : todo[u][i].do = "dumpedAll"
    BY <2>1 DEF Returns, HoldsAll
  <2>3. todo[u] # <<>>
    BY <2>2, ListOfNone
  <2>4. DOMAIN todo[u] = 1 .. Len(todo[u]) /\ Len(todo[u]) \in Nat /\ Step(u) = todo[u][1]
        /\ StepOK(Step(u))
    BY <1>1, <2>1, <2>3, HeadStep DEF LogTypes
  <2>5. Step(u).do \in {"dump", "dumped", "dumpedAll"}
    <3>1. 1 \in 1 .. i
      BY <2>2, <2>4
    <3>2. Dumping(u)
      BY <2>1 DEF Returns
    <3>3. \A j \in 1 .. i : todo[u][j].do \in {"dump", "dumped", "dumpedAll"}
      BY <2>2, <3>2 DEF Dumping
    <3> QED
      BY <2>4, <3>1, <3>3
  <2>6. Step(u).do = "dump" => mutex_[Step(u).at] = Nobody
    BY <1>5, <2>4 DEF StepOK, AtLogger
  <2>7. ~Waits(u)
    BY <2>5, <2>6 DEF Waits
  <2> QED
    BY <2>1, <2>3, <2>7
<1>6. CASE (\A l \in Loggers : mutex_[l] = Nobody) /\ manager_mutex_ = Nobody
  <2>1. StepOK(Step(t))
    BY <1>1, HeadStep DEF LogTypes
  <2>2. ~Waits(t)
    BY <1>6, <2>1 DEF Waits, StepOK, AtLogger, LogSteps
  <2> QED
    BY <2>2
<1> QED
  BY <1>3, <1>4, <1>5, <1>6

\* A step of t takes no mutex for another thread.
LEMMA TakesForItself ==
  ASSUME LogTypes, NEW t \in Threads, Request(t) \/ Do(t)
  PROVE  /\ \A l \in Loggers : mutex_'[l] \in {mutex_[l], t, Nobody}
         /\ manager_mutex_' \in {manager_mutex_, t, Nobody}
<1>1. /\ mutex_' = mutex_ \/ \E k : \E h \in {t, Nobody} : mutex_' = [mutex_ EXCEPT ![k] = h]
      /\ manager_mutex_' \in {manager_mutex_, t, Nobody}
  <2>1. CASE Request(t)
    BY <2>1 DEF Request, NewEvent, getLogger, init, Member, Call
  <2>2. CASE \/ find(t) \/ setLevel(t) \/ setFormatter(t) \/ setAppenderFormatter(t) \/ skip(t)
             \/ throw(t) \/ makeAppender(t) \/ write(t) \/ dumpAll(t) \/ dumpedAll(t)
             \/ removeAppender(t) \/ clearAppenders(t)
    BY <2>2 DEF find, setLevel, setFormatter, setAppenderFormatter, skip, throw, makeAppender, write,
                dumpAll, dumpedAll, removeAppender, clearAppenders, SetList
  <2>3. CASE \/ addAppender(t) \/ putAppender(t) \/ log(t) \/ dump(t)
             \/ Unlock(t, "logged") \/ Unlock(t, "dumped")
    BY <2>3 DEF addAppender, putAppender, log, dump, Unlock
  <2> QED
    BY <2>1, <2>2, <2>3 DEF Do
<1>2. mutex_ \in [Loggers -> Holders]
  BY DEF LogTypes, LoggerTypeOK
<1> QED
  BY <1>1, <1>2

LEMMA ReturnsStays ==
  ASSUME LogTypes, NEW t \in Threads, Request(t) \/ Do(t), NEW u \in Threads \ {t}, Returns(u)
  PROVE  Returns(u)'
<1>1. todo'[u] = todo[u]
  BY OthersWait
<1>2. u # t /\ u # Nobody
  BY LoggerAssumption
<1>3. \A l \in Loggers : mutex_'[l] = u => mutex_[l] = u
  BY <1>2, TakesForItself
<1>4. manager_mutex_' = u => manager_mutex_ = u
  BY <1>2, TakesForItself
<1>5. Inner(u)' /\ Dumping(u)'
  BY <1>1 DEF Returns, Inner, Dumping
<1> QED
  BY <1>1, <1>3, <1>4, <1>5 DEF Returns, Holds, HoldsAll

\* A thread with only plain steps to take holds nothing.
LEMMA PlainReturns ==
  ASSUME NEW t \in Threads, IsList(todo'[t]),
         \A i \in DOMAIN todo'[t] : todo'[t][i].do \in PlainSteps,
         \A l \in Loggers : mutex_'[l] # t, manager_mutex_' # t
  PROVE  Returns(t)'
<1>1. \A x \in PlainSteps : x \notin {"log", "dumpedAll", "dump"}
  BY DEF PlainSteps
<1>2. Len(todo'[t]) \in Nat /\ DOMAIN todo'[t] = 1 .. Len(todo'[t])
  BY ListIs DEF IsList
<1>3. \A j \in DOMAIN todo'[t] : 1 \in DOMAIN todo'[t]
  BY <1>2
<1> QED
  BY <1>1, <1>3 DEF Returns, Inner, Dumping

\* The first step is done, and does not release what is released later.
LEMMA HoldsPopped ==
  ASSUME Todo, NEW t \in Threads, todo[t] # <<>>, Continue(t, <<>>), NEW l, Holds(t, l),
         ~(Step(t).do \in {"put", "dumped", "logged"} /\ Step(t).at = l)
  PROVE  Holds(t, l)'
<1>1. PICK i \in DOMAIN todo[t] : /\ todo[t][i].at = l
                                  /\ \/ todo[t][i].do = "logged"
                                     \/ i = 1 /\ todo[t][i].do \in {"put", "dumped"}
  BY DEF Holds
<1>2. DOMAIN todo[t] = 1 .. Len(todo[t]) /\ Len(todo[t]) \in Nat /\ Step(t) = todo[t][1]
  BY HeadStep
<1>3. i # 1 /\ todo[t][i].do = "logged"
  BY <1>1, <1>2
<1>4. /\ DOMAIN todo'[t] = 1 .. Len(todo[t]) - 1
      /\ \A j \in 1 .. Len(todo[t]) - 1 : todo'[t][j] = todo[t][j + 1]
  BY Popped
<1>5. i - 1 \in 1 .. Len(todo[t]) - 1 /\ (i - 1) + 1 = i
  BY <1>1, <1>2, <1>3
<1>6. todo'[t][i - 1] = todo[t][i]
  BY <1>4, <1>5
<1> QED
  BY <1>1, <1>3, <1>4, <1>5, <1>6 DEF Holds

LEMMA DumpingPopped ==
  ASSUME Todo, NEW t \in Threads, todo[t] # <<>>, Continue(t, <<>>), Dumping(t)
  PROVE  /\ Dumping(t)'
         /\ (HoldsAll(t) /\ Step(t).do # "dumpedAll") => HoldsAll(t)'
<1> SUFFICES ASSUME NEW n, n = Len(todo[t])
             PROVE  /\ Dumping(t)'
                    /\ (HoldsAll(t) /\ Step(t).do # "dumpedAll") => HoldsAll(t)'
  OBVIOUS
<1>1. DOMAIN todo[t] = 1 .. n /\ n \in Nat /\ Step(t) = todo[t][1]
  BY HeadStep
<1>2. /\ DOMAIN todo'[t] = 1 .. n - 1
      /\ \A j \in 1 .. n - 1 : todo'[t][j] = todo[t][j + 1]
  BY Popped
<1>3. ASSUME NEW i \in DOMAIN todo'[t]
      PROVE  /\ todo'[t][i].do = "dumpedAll" =>
                  \A j \in 1 .. i : todo'[t][j].do \in {"dump", "dumped", "dumpedAll"}
             /\ todo'[t][i].do = "dump" =>
                  /\ i + 1 \in DOMAIN todo'[t] /\ todo'[t][i + 1].do = "dumped"
                  /\ todo'[t][i + 1].at = todo'[t][i].at
  <2>1. i \in 1 .. n - 1 /\ i + 1 \in DOMAIN todo[t] /\ todo'[t][i] = todo[t][i + 1]
    BY <1>1, <1>2
  <2>2. ASSUME todo'[t][i].do = "dumpedAll", NEW j \in 1 .. i
        PROVE  todo'[t][j].do \in {"dump", "dumped", "dumpedAll"}
    <3>1. \A k \in 1 .. i + 1 : todo[t][k].do \in {"dump", "dumped", "dumpedAll"}
      BY <2>1, <2>2 DEF Dumping
    <3>2. j + 1 \in 1 .. i + 1 /\ j \in 1 .. n - 1
      BY <1>1, <2>1
    <3> QED
      BY <1>2, <3>1, <3>2
  <2>3. ASSUME todo'[t][i].do = "dump"
        PROVE  /\ i + 1 \in DOMAIN todo'[t] /\ todo'[t][i + 1].do = "dumped"
               /\ todo'[t][i + 1].at = todo'[t][i].at
    <3>1. /\ (i + 1) + 1 \in DOMAIN todo[t] /\ todo[t][(i + 1) + 1].do = "dumped"
          /\ todo[t][(i + 1) + 1].at = todo[t][i + 1].at
      BY <2>1, <2>3 DEF Dumping
    <3>2. i + 1 \in 1 .. n - 1
      BY <1>1, <2>1, <3>1
    <3> QED
      BY <1>2, <2>1, <3>1, <3>2
  <2> QED
    BY <2>2, <2>3
<1>4. ASSUME HoldsAll(t), Step(t).do # "dumpedAll"
      PROVE  HoldsAll(t)'
  <2>1. PICK i \in DOMAIN todo[t] : todo[t][i].do = "dumpedAll"
    BY <1>4 DEF HoldsAll
  <2>2. i # 1
    BY <1>1, <1>4, <2>1
  <2>3. i - 1 \in 1 .. n - 1 /\ (i - 1) + 1 = i
    BY <1>1, <2>1, <2>2
  <2>4. todo'[t][i - 1] = todo[t][i]
    BY <1>2, <2>3
  <2> QED
    BY <1>2, <2>1, <2>3, <2>4 DEF HoldsAll
<1> QED
  BY <1>3, <1>4 DEF Dumping

LEMMA InnerPopped ==
  ASSUME LogTypes, NEW t \in Threads, Mine(t), todo[t] # <<>>, Continue(t, <<>>)
  PROVE  Inner(t)'
<1> SUFFICES ASSUME NEW j \in DOMAIN todo'[t], todo'[t][1].do = "log"
             PROVE  FALSE
  BY DEF Inner
<1>1. DOMAIN todo[t] = 1 .. Len(todo[t]) /\ Len(todo[t]) \in Nat
  BY HeadStep DEF LogTypes
<1>2. /\ DOMAIN todo'[t] = 1 .. Len(todo[t]) - 1
      /\ \A i \in 1 .. Len(todo[t]) - 1 : todo'[t][i] = todo[t][i + 1]
  BY Popped DEF LogTypes
<1>3. 1 \in 1 .. Len(todo[t]) - 1 /\ 2 \in DOMAIN todo[t]
  BY <1>1, <1>2
<1>4. todo[t][2].do = "log"
  BY <1>2, <1>3
<1> QED
  BY <1>3, <1>4 DEF Mine

\* A step is done that takes no mutex.
LEMMA PopReturns ==
  ASSUME LogTypes, NEW t \in Threads, Mine(t), Returns(t), todo[t] # <<>>, Continue(t, <<>>),
         \A l \in Loggers : mutex_'[l] = t =>
           mutex_[l] = t /\ ~(Step(t).do \in {"put", "dumped", "logged"} /\ Step(t).at = l),
         manager_mutex_' = t => manager_mutex_ = t /\ Step(t).do # "dumpedAll"
  PROVE  Returns(t)'
<1>1. Inner(t)'
  BY InnerPopped
<1>2. Dumping(t)' /\ (manager_mutex_' = t => HoldsAll(t)')
  BY DumpingPopped DEF Returns, LogTypes
<1>3. \A l \in Loggers : mutex_'[l] = t => Holds(t, l)'
  BY HoldsPopped DEF Returns, LogTypes
<1> QED
  BY <1>1, <1>2, <1>3 DEF Returns

LEMMA DumpReturns ==
  ASSUME LogTypes, NEW t \in Threads, Mine(t), Returns(t), dump(t)
  PROVE  Returns(t)'
<1> SUFFICES ASSUME NEW k, k = Step(t).at
             PROVE  Returns(t)'
  OBVIOUS
<1>1. /\ todo[t] # <<>> /\ Continue(t, <<>>) /\ Step(t).do = "dump"
      /\ mutex_' = [mutex_ EXCEPT ![k] = t] /\ manager_mutex_' = manager_mutex_
  BY DEF dump, At, Step
<1>2. Inner(t)'
  BY <1>1, InnerPopped
<1>3. Dumping(t)' /\ (manager_mutex_' = t => HoldsAll(t)')
  BY <1>1, DumpingPopped DEF Returns, LogTypes
<1>4. ASSUME NEW l \in Loggers, l # k, mutex_'[l] = t
      PROVE  Holds(t, l)'
  <2>1. mutex_[l] = t
    BY <1>1, <1>4 DEF LogTypes, LoggerTypeOK
  <2>2. Todo /\ Holds(t, l)
    BY <2>1 DEF Returns, LogTypes
  <2> QED
    BY <1>1, <2>2, HoldsPopped
<1>5. Holds(t, k)'
  <2>1. DOMAIN todo[t] = 1 .. Len(todo[t]) /\ Len(todo[t]) \in Nat /\ Step(t) = todo[t][1]
        /\ 1 \in DOMAIN todo[t]
    BY <1>1, HeadStep DEF LogTypes
  <2>2. /\ DOMAIN todo'[t] = 1 .. Len(todo[t]) - 1
        /\ \A i \in 1 .. Len(todo[t]) - 1 : todo'[t][i] = todo[t][i + 1]
    BY <1>1, Popped DEF LogTypes
  <2>3. 1 + 1 \in DOMAIN todo[t] /\ todo[t][1 + 1].do = "dumped" /\ todo[t][1 + 1].at = k
    BY <1>1, <2>1 DEF Returns, Dumping
  <2>4. 1 \in DOMAIN todo'[t] /\ todo'[t][1].do = "dumped" /\ todo'[t][1].at = k
    BY <2>1, <2>2, <2>3
  <2> QED
    BY <2>4 DEF Holds
<1> QED
  BY <1>2, <1>3, <1>4, <1>5 DEF Returns

\* "make" becomes "add"; "add" takes the mutex and becomes "put".
LEMMA ReplaceReturns ==
  ASSUME LogTypes, NEW t \in Threads, Returns(t), todo[t] # <<>>, NEW s,
         Continue(t, <<s>>), Step(t).do \in {"make", "add"}, s.do \in {"add", "put"},
         \A l \in Loggers : mutex_'[l] = t => mutex_[l] = t \/ (s.do = "put" /\ s.at = l),
         manager_mutex_' = manager_mutex_
  PROVE  Returns(t)'
<1>1. /\ DOMAIN todo[t] = 1 .. Len(todo[t]) /\ Len(todo[t]) \in Nat /\ Step(t) = todo[t][1]
      /\ 1 \in DOMAIN todo[t]
  BY HeadStep DEF LogTypes
<1>2. /\ DOMAIN todo'[t] = DOMAIN todo[t] /\ todo'[t][1] = s
      /\ \A i \in DOMAIN todo[t] : i # 1 => todo'[t][i] = todo[t][i]
  BY Replaced DEF LogTypes
<1>3. ASSUME NEW i \in DOMAIN todo[t]
      PROVE  todo[t][i].do # "dumpedAll"
  <2>1. 1 \in 1 .. i
    BY <1>1
  <2> QED
    BY <1>1, <2>1 DEF Returns, Dumping
<1>4. \A i \in DOMAIN todo'[t] : todo'[t][i].do # "dumpedAll"
  BY <1>2, <1>3
<1>5. manager_mutex_' # t
  BY <1>3 DEF Returns, HoldsAll
<1>6. ASSUME NEW i \in DOMAIN todo'[t], todo'[t][i].do = "dump"
      PROVE  /\ i + 1 \in DOMAIN todo'[t] /\ todo'[t][i + 1].do = "dumped"
             /\ todo'[t][i + 1].at = todo'[t][i].at
  <2>1. i # 1 /\ i \in DOMAIN todo[t] /\ todo'[t][i] = todo[t][i]
    BY <1>2, <1>6
  <2>2. /\ i + 1 \in DOMAIN todo[t] /\ todo[t][i + 1].do = "dumped"
        /\ todo[t][i + 1].at = todo[t][i].at
    BY <1>6, <2>1 DEF Returns, Dumping
  <2>3. i + 1 # 1
    BY <1>1, <2>1
  <2> QED
    BY <1>2, <2>1, <2>2, <2>3
<1>7. ASSUME NEW l \in Loggers, mutex_'[l] = t
      PROVE  Holds(t, l)'
  <2>1. CASE s.do = "put" /\ s.at = l
    BY <1>1, <1>2, <2>1 DEF Holds
  <2>2. CASE mutex_[l] = t
    <3>1. PICK i \in DOMAIN todo[t] : /\ todo[t][i].at = l
                                      /\ \/ todo[t][i].do = "logged"
                                         \/ i = 1 /\ todo[t][i].do \in {"put", "dumped"}
      BY <2>2 DEF Returns, Holds
    <3>2. i # 1
      BY <1>1, <3>1
    <3> QED
      BY <1>2, <3>1, <3>2 DEF Holds
  <2> QED
    BY <1>7, <2>1, <2>2
<1>8. Inner(t)'
  BY <1>2 DEF Inner
<1> QED
  BY <1>4, <1>5, <1>6, <1>7, <1>8 DEF Returns, Dumping

\* A call of log() that has something to do.
LEMMA EntersReturns ==
  ASSUME LogTypes, NEW t \in Threads, Mine(t), Returns(t), NEW l, NEW e, Enters(t, l, e),
         manager_mutex_' = manager_mutex_
  PROVE  Returns(t)'
<1>1. PICK k, m \in Nat : Inside(t, l, e, k, m)
  BY Entered
<1>2. l \in Loggers /\ Mine(t)'
  BY Entered, MineEnters
<1>3. /\ DOMAIN todo'[t] = 1 .. k + m /\ m # 0 /\ k + 1 \in 1 .. k + m /\ DOMAIN todo[t] = 1 .. m
      /\ todo'[t][k + 1] = [do |-> "logged", at |-> l, event |-> e]
      /\ \A i \in k + 2 .. k + m : /\ i - k \in DOMAIN todo[t] /\ todo'[t][i] = todo[t][i - k]
                                   /\ todo[t][i - k].at # l
  BY <1>1 DEF Inside
<1>4. todo[t][1].do = "log" /\ todo[t][1].at = l /\ 1 \in DOMAIN todo[t]
  BY HeadStep DEF Enters, LogTypes
<1>5. /\ \A i \in DOMAIN todo[t] : todo[t][i].do \in LogSteps
      /\ \A i \in DOMAIN todo'[t] : todo'[t][i].do \in LogSteps
  <2>1. \A i \in DOMAIN todo[t] : todo[t][i].do \in LogSteps
    BY <1>4 DEF Mine, LogSteps
  <2>2. todo'[t][k + 1].do \in LogSteps /\ k + 1 \in DOMAIN todo'[t]
    BY <1>3 DEF LogSteps
  <2>3. \A i \in DOMAIN todo'[t] : todo'[t][i].do \in LogSteps
    BY <1>2, <2>2 DEF Mine
  <2> QED
    BY <2>1, <2>3
<1>6. Dumping(t)'
  BY <1>5 DEF Dumping, LogSteps
<1>7. manager_mutex_' # t
  BY <1>5 DEF Returns, HoldsAll, LogSteps
<1>8. ASSUME NEW h \in Loggers, mutex_'[h] = t
      PROVE  Holds(t, h)'
  <2>1. CASE h = l
    <3>1. todo'[t][k + 1].do = "logged" /\ todo'[t][k + 1].at = l
      BY <1>3
    <3> QED
      BY <1>3, <2>1, <3>1 DEF Holds
  <2>2. CASE h # l
    <3>1. mutex_[h] = t
      BY <1>8, <2>2 DEF Enters, LogTypes, LoggerTypeOK
    <3>2. PICK i \in DOMAIN todo[t] : /\ todo[t][i].at = h
                                      /\ \/ todo[t][i].do = "logged"
                                         \/ i = 1 /\ todo[t][i].do \in {"put", "dumped"}
      BY <3>1 DEF Returns, Holds
    <3>3. i # 1 /\ todo[t][i].do = "logged"
      BY <1>4, <3>2
    <3>4. i + k \in k + 2 .. k + m /\ (i + k) - k = i /\ i + k \in 1 .. k + m
      BY <1>3, <3>2, <3>3
    <3>5. todo'[t][i + k] = todo[t][i]
      BY <1>3, <3>4
    <3> QED
      BY <1>3, <3>2, <3>3, <3>4, <3>5 DEF Holds
  <2> QED
    BY <2>1, <2>2
<1>9. Inner(t)'
  <2> SUFFICES ASSUME NEW j \in DOMAIN todo'[t], todo'[t][1].do = "log", j # 1
               PROVE  todo'[t][1].at = Root /\ todo'[t][j].at # Root
    BY DEF Inner
  <2>1. k = 1 /\ appenders_[l] = <<>> /\ l # Root
    <3>1. k # 0
      BY <1>3
    <3>2. appenders_[l] = <<>>
      <4> SUFFICES ASSUME appenders_[l] # <<>>
                   PROVE  FALSE
        OBVIOUS
      <4>1. \A i \in 1 .. k : todo'[t][i] = [do |-> "write", at |-> l, event |-> e,
                                             appender |-> appenders_[l][i]]
        BY <1>1 DEF Inside
      <4>2. 1 \in 1 .. k
        BY <3>1
      <4>3. todo'[t][1] = [do |-> "write", at |-> l, event |-> e, appender |-> appenders_[l][1]]
        BY <4>1, <4>2
      <4>4. todo'[t][1].do = "write"
        BY <4>3
      <4> QED
        BY <4>4
    <3> QED
      BY <1>1, <3>1, <3>2 DEF Inside
  <2>2. todo'[t][1].at = Root
    BY <1>1, <2>1 DEF Inside
  <2>3. CASE j = 2
    BY <1>3, <2>1, <2>2, <2>3
  <2>4. CASE j # 2
    <3>1. j - 1 \in DOMAIN todo[t] /\ j - 1 # 1
      BY <1>3, <2>1, <2>4
    <3>2. todo[t][1].at = Root
      BY <1>4, <3>1 DEF Returns, Inner
    <3> QED
      BY <1>4, <2>1, <3>2
  <2> QED
    BY <2>2, <2>3, <2>4
<1> QED
  BY <1>6, <1>7, <1>8, <1>9 DEF Returns

LEMMA DumpAllReturns ==
  ASSUME LogTypes, NEW t \in Threads, Mine(t), Returns(t), dumpAll(t)
  PROVE  Returns(t)'
<1>1. PICK ls \in Orders(loggers_) : Continue(t, Dumps(ls))
  BY DEF dumpAll, Dumps
<1> DEFINE new == Dumps(ls)
<1>2. PICK n \in Nat :
         /\ IsList(new) /\ DOMAIN new = 1 .. n + 1 /\ Len(new) = n + 1
         /\ new[n + 1].do = "dumpedAll"
         /\ \A k \in 1 .. n : new[k].do \in {"dump", "dumped"} /\ new[k].at \in loggers_
         /\ \A k \in 1 .. n : new[k].do = "dump" =>
              k + 1 \in 1 .. n /\ new[k + 1].do = "dumped" /\ new[k + 1].at = new[k].at
  BY DumpSteps DEF LogTypes
<1>3. Continue(t, new)
  BY <1>1
<1> HIDE DEF new
<1>4. todo[t] # <<>> /\ Step(t).do = "dumpAll" /\ manager_mutex_' = t /\ mutex_' = mutex_
  BY DEF dumpAll, At, Step
<1>5. Quiet(t)
  BY <1>4, QuietHead DEF LogSteps
<1> DEFINE m == Len(todo[t])
<1>6. m \in Nat \ {0} /\ DOMAIN todo[t] = 1 .. m /\ todo[t][1].do = "dumpAll"
  BY <1>4, HeadStep DEF LogTypes
<1>7. /\ DOMAIN todo'[t] = 1 .. Len(new) + m - 1
      /\ \A i \in 1 .. Len(new) : todo'[t][i] = new[i]
      /\ \A i \in Len(new) + 1 .. Len(new) + m - 1 : todo'[t][i] = todo[t][i - Len(new) + 1]
  <2>1. Todo /\ todo[t] # <<>> /\ IsList(new) /\ Continue(t, new)
    BY <1>2, <1>3, <1>4 DEF LogTypes
  <2> QED
    BY <2>1, Continued
<1> HIDE DEF m
<1>8. /\ DOMAIN todo'[t] = 1 .. n + m
      /\ \A i \in 1 .. n + 1 : todo'[t][i] = new[i]
      /\ \A i \in n + 2 .. n + m : todo'[t][i] = todo[t][i - n]
  <2>1. \A i \in n + 2 .. n + m : i \in Len(new) + 1 .. Len(new) + m - 1 /\ i - Len(new) + 1 = i - n
    BY <1>2, <1>6
  <2>2. 1 .. Len(new) = 1 .. n + 1 /\ Len(new) + m - 1 = n + m
    BY <1>2, <1>6
  <2> QED
    BY <1>7, <2>1, <2>2
<1>9. ASSUME NEW i \in DOMAIN todo[t]
      PROVE  todo[t][i].do # "dumpedAll"
  <2>1. 1 \in 1 .. i
    BY <1>6
  <2>2. Dumping(t)
    BY DEF Returns
  <2> QED
    BY <1>6, <2>1, <2>2 DEF Dumping
<1>10. ASSUME NEW l \in Loggers
       PROVE  mutex_'[l] # t
  <2>1. ~Holds(t, l)
    BY <1>5, <1>6 DEF Holds, Quiet, LogSteps
  <2> QED
    BY <1>4, <2>1 DEF Returns
<1>11. HoldsAll(t)'
  <2>1. n + 1 \in 1 .. n + m /\ n + 1 \in 1 .. n + 1
    BY <1>6
  <2>2. todo'[t][n + 1].do = "dumpedAll"
    BY <1>2, <1>8, <2>1
  <2> QED
    BY <1>8, <2>1, <2>2 DEF HoldsAll
<1>12. Inner(t)'
  <2>1. Quiet(t)'
    BY QuietDumpAll
  <2>2. 1 \in DOMAIN todo'[t]
    BY <1>6, <1>8
  <2> QED
    BY <2>1, <2>2 DEF Inner, Quiet, LogSteps
<1>13. ASSUME NEW i \in DOMAIN todo'[t]
       PROVE  /\ todo'[t][i].do = "dumpedAll" =>
                   \A j \in 1 .. i : todo'[t][j].do \in {"dump", "dumped", "dumpedAll"}
              /\ todo'[t][i].do = "dump" =>
                   /\ i + 1 \in DOMAIN todo'[t] /\ todo'[t][i + 1].do = "dumped"
                   /\ todo'[t][i + 1].at = todo'[t][i].at
  <2>1. CASE i \in 1 .. n + 1
    <3>1. ASSUME NEW j \in 1 .. i
          PROVE  todo'[t][j].do \in {"dump", "dumped", "dumpedAll"}
      <4>1. j \in 1 .. n + 1 /\ (j = n + 1 \/ j \in 1 .. n)
        BY <2>1
      <4> QED
        BY <1>2, <1>8, <4>1
    <3>2. ASSUME todo'[t][i].do = "dump"
          PROVE  /\ i + 1 \in DOMAIN todo'[t] /\ todo'[t][i + 1].do = "dumped"
                 /\ todo'[t][i + 1].at = todo'[t][i].at
      <4>1. new[i].do = "dump"
        BY <1>8, <2>1, <3>2
      <4>2. i # n + 1
        BY <1>2, <4>1
      <4>3. i \in 1 .. n
        BY <2>1, <4>2
      <4>4. i + 1 \in 1 .. n /\ new[i + 1].do = "dumped" /\ new[i + 1].at = new[i].at
        BY <1>2, <4>1, <4>3
      <4>5. i + 1 \in 1 .. n + 1 /\ i + 1 \in 1 .. n + m
        BY <1>6, <4>4
      <4> QED
        BY <1>8, <2>1, <4>4, <4>5
    <3> QED
      BY <3>1, <3>2
  <2>2. CASE i \notin 1 .. n + 1
    <3>1. i \in n + 2 .. n + m /\ i - n \in DOMAIN todo[t]
      BY <1>6, <1>8, <2>2
    <3>2. todo'[t][i] = todo[t][i - n]
      BY <1>8, <3>1
    <3>3. ASSUME todo'[t][i].do = "dump"
          PROVE  /\ i + 1 \in DOMAIN todo'[t] /\ todo'[t][i + 1].do = "dumped"
                 /\ todo'[t][i + 1].at = todo'[t][i].at
      <4>1. /\ (i - n) + 1 \in DOMAIN todo[t] /\ todo[t][(i - n) + 1].do = "dumped"
            /\ todo[t][(i - n) + 1].at = todo[t][i - n].at
        BY <3>1, <3>2, <3>3 DEF Returns, Dumping
      <4>2. i + 1 \in n + 2 .. n + m /\ (i + 1) - n = (i - n) + 1 /\ i + 1 \in 1 .. n + m
        BY <1>6, <3>1, <4>1
      <4> QED
        BY <1>8, <3>2, <4>1, <4>2
    <3> QED
      BY <1>9, <3>1, <3>2, <3>3
  <2> QED
    BY <2>1, <2>2
<1> QED
  BY <1>10, <1>11, <1>12, <1>13 DEF Returns, Dumping

\* A call begins, or an exception ends one.
LEMMA IdleReturns ==
  ASSUME LogTypes, LogTypes', NEW t \in Threads, Mine(t), Returns(t), Request(t) \/ throw(t)
  PROVE  Returns(t)'
<1>1. UNCHANGED <<mutex_, manager_mutex_>>
  BY DEF Request, NewEvent, getLogger, init, Member, Call, throw
<1>2. (\A l \in Loggers : mutex_'[l] # t) /\ manager_mutex_' # t
  <2>1. CASE Request(t)
    <3>1. todo[t] = <<>>
      BY <2>1 DEF Request, NewEvent, getLogger, init, Member, Call
    <3> QED
      BY <1>1, <3>1, ListOfNone DEF Returns, Holds, HoldsAll
  <2>2. CASE throw(t)
    <3>1. /\ todo[t] # <<>> /\ Step(t).do = "throw"
          /\ DOMAIN todo[t] = 1 .. Len(todo[t]) /\ Len(todo[t]) \in Nat /\ Step(t) = todo[t][1]
      BY <2>2, HeadStep DEF throw, At, Step, LogTypes
    <3>2. Quiet(t)
      BY <3>1, QuietHead DEF LogSteps
    <3>3. \A l \in Loggers : ~Holds(t, l)
      BY <3>1, <3>2 DEF Holds, Quiet, LogSteps
    <3>4. ASSUME NEW i \in DOMAIN todo[t]
          PROVE  todo[t][i].do # "dumpedAll"
      <4>1. 1 \in 1 .. i
        BY <3>1
      <4>2. Dumping(t)
        BY DEF Returns
      <4> QED
        BY <3>1, <4>1, <4>2 DEF Dumping
    <3> QED
      BY <1>1, <3>3, <3>4 DEF Returns, HoldsAll
  <2> QED
    BY <2>1, <2>2
<1>3. IsList(todo'[t])
  BY DEF LogTypes, Todo
<1>4. CASE \E l \in Loggers, lvl \in Levels : NewEvent(t, l, lvl)
  <2>1. DOMAIN todo'[t] = {1} /\ todo'[t][1].do = "log"
    BY <1>4, NewEventBegins DEF Begins
  <2> QED
    BY <1>2, <2>1 DEF Returns, Inner, Dumping
<1>5. CASE (\E r \in Requests : getLogger(t, r)) \/ Member(t)
            \/ \E l \in Loggers, conf \in Confs : init(t, l, conf)
  <2>1. \A i \in DOMAIN todo'[t] : todo'[t][i].do \in PlainSteps
    BY <1>5, GetLoggerTypes, MemberTypes, InitTypes
  <2> QED
    BY <1>2, <1>3, <2>1, PlainReturns
<1>6. CASE throw(t)
  <2>1. todo'[t] = <<>>
    BY <1>6 DEF throw, LogTypes, Todo
  <2> QED
    BY <1>2, <1>3, <2>1, PlainReturns, ListOfNone
<1> QED
  BY <1>4, <1>5, <1>6 DEF Request

LEMMA ReturnsStep ==
  ASSUME LogInvar, LogTypes', NEW t \in Threads, Request(t) \/ Do(t), Returns(t)
  PROVE  Returns(t)'
<1>1. LogTypes /\ Mine(t) /\ mutex_ \in [Loggers -> Holders] /\ t # Nobody
  BY LoggerAssumption DEF LogInvar, LogTypes, LoggerTypeOK
<1>2. CASE Request(t) \/ throw(t)
  BY <1>1, <1>2, IdleReturns
<1>3. CASE \/ find(t) \/ setLevel(t) \/ setFormatter(t) \/ setAppenderFormatter(t) \/ skip(t)
           \/ removeAppender(t) \/ clearAppenders(t) \/ write(t)
  <2>1. /\ todo[t] # <<>> /\ Continue(t, <<>>)
        /\ Step(t).do \in {"find", "setLevel", "setFormatter", "setAppenderFormatter", "skip",
                          "remove", "clear", "write"}
        /\ UNCHANGED <<mutex_, manager_mutex_>>
    BY <1>3 DEF find, setLevel, setFormatter, setAppenderFormatter, skip, removeAppender,
                clearAppenders, SetList, write, At, Step
  <2> QED
    BY <1>1, <2>1, PopReturns
<1>4. CASE putAppender(t) \/ Unlock(t, "logged") \/ Unlock(t, "dumped")
  <2> SUFFICES ASSUME NEW k, k = Step(t).at
               PROVE  Returns(t)'
    OBVIOUS
  <2>1. /\ todo[t] # <<>> /\ Continue(t, <<>>) /\ Step(t).do \in {"put", "logged", "dumped"}
        /\ mutex_' = [mutex_ EXCEPT ![k] = Nobody] /\ UNCHANGED manager_mutex_
    BY <1>4 DEF putAppender, Unlock, At, Step
  <2>2. \A l \in Loggers : mutex_'[l] = t => mutex_[l] = t /\ k # l
    BY <1>1, <2>1
  <2> QED
    BY <1>1, <2>1, <2>2, PopReturns
<1>5. CASE dumpedAll(t)
  <2>1. /\ todo[t] # <<>> /\ Continue(t, <<>>) /\ Step(t).do = "dumpedAll"
        /\ mutex_' = mutex_ /\ manager_mutex_' = Nobody
    BY <1>5 DEF dumpedAll, At, Step
  <2> QED
    BY <1>1, <2>1, PopReturns
<1>6. CASE makeAppender(t) \/ addAppender(t)
  <2>1. PICK s : /\ todo[t] # <<>> /\ Continue(t, <<s>>) /\ Step(t).do \in {"make", "add"}
                 /\ s.do \in {"add", "put"}
                 /\ \/ mutex_' = mutex_
                    \/ s.do = "put" /\ mutex_' = [mutex_ EXCEPT ![s.at] = t]
                 /\ manager_mutex_' = manager_mutex_
    BY <1>6 DEF makeAppender, addAppender, At, Step
  <2>2. \A l \in Loggers : mutex_'[l] = t => mutex_[l] = t \/ (s.do = "put" /\ s.at = l)
    BY <1>1, <2>1
  <2> QED
    BY <1>1, <2>1, <2>2, ReplaceReturns
<1>7. CASE dumpAll(t) \/ dump(t)
  BY <1>1, <1>7, DumpAllReturns, DumpReturns
<1>8. CASE log(t)
  <2>1. /\ todo[t] # <<>> /\ Step(t).do = "log" /\ manager_mutex_' = manager_mutex_
        /\ UNCHANGED <<appenders_, appenders, colorOn, out>>
        /\ \/ /\ mutex_[Step(t).at] = Nobody /\ mutex_' = [mutex_ EXCEPT ![Step(t).at] = t]
              /\ Continue(t, Nested(Step(t).at, Step(t).event))
           \/ mutex_' = mutex_ /\ Continue(t, <<>>)
    BY <1>8 DEF log, At, Step, loggerConf, Nested
  <2>2. CASE mutex_' = mutex_ /\ Continue(t, <<>>)
    BY <1>1, <2>1, <2>2, PopReturns
  <2>3. CASE ~(mutex_' = mutex_ /\ Continue(t, <<>>))
    <3>1. Enters(t, Step(t).at, Step(t).event)
      BY <2>1, <2>3 DEF Enters
    <3> QED
      BY <1>1, <2>1, <3>1, EntersReturns
  <2> QED
    BY <2>2, <2>3
<1> QED
  BY <1>2, <1>3, <1>4, <1>5, <1>6, <1>7, <1>8 DEF Do

\* The threads never all wait for mutexes that others among them hold
\* (Logger.cpp:469-482, 498-556).
THEOREM LocksInOrder == LoggerSpec => []NoDeadlock
<1>1. LoggerInit => WaitInv
  <2> SUFFICES ASSUME LoggerInit, NEW t \in Threads
               PROVE  Returns(t)
    BY DEF WaitInv
  <2>1. DOMAIN todo[t] = {} /\ t # Nobody
    BY ListOfNone, LoggerAssumption DEF LoggerInit
  <2>2. (\A l \in Loggers : mutex_[l] # t) /\ manager_mutex_ # t
    BY <2>1 DEF LoggerInit
  <2> QED
    BY <2>1, <2>2 DEF Returns, Inner, Dumping
<1>2. LogInvar /\ WaitInv /\ [LoggerNext]_loggerVars => WaitInv'
  <2> SUFFICES ASSUME LogInvar, \A t \in Threads : Returns(t), [LoggerNext]_loggerVars
               PROVE  \A t \in Threads : Returns(t)'
    BY DEF WaitInv
  <2>1. LogTypes /\ LogTypes'
    BY LogTypesStep DEF LogInvar
  <2>2. CASE UNCHANGED loggerVars
    BY <2>2 DEF loggerVars, Returns, Inner, Dumping, Holds, HoldsAll
  <2>3. CASE LoggerNext
    <3>1. PICK t \in Threads : Request(t) \/ Do(t)
      BY <2>3 DEF LoggerNext
    <3>2. Returns(t)'
      BY <2>1, <3>1, ReturnsStep
    <3>3. \A u \in Threads \ {t} : Returns(u)'
      BY <2>1, <3>1, ReturnsStays
    <3> QED
      BY <3>2, <3>3
  <2> QED
    BY <2>2, <2>3
<1>3. LogInvar /\ WaitInv => NoDeadlock
  BY SomebodyGoesOn DEF WaitInv
<1> QED
  BY <1>1, <1>2, <1>3, LoggerInvariant, PTL DEF LoggerSpec
=============================================================================
