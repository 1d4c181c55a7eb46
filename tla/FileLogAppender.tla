--------------------------- MODULE FileLogAppender ---------------------------
(***************************************************************************)
(* FileLogAppender (src/src/util/logger/Logger.cpp): threads whose loggers *)
(* share one appender.  log() reads and sets lastAccessTime_ without the   *)
(* appender's mutex; reopen() and the writing of a line take it, each one  *)
(* step here.  A file is named by its day and number; the name, the layout *)
(* of a line and the level filter are left out.                            *)
(***************************************************************************)
EXTENDS Integers

CONSTANTS Writers,         \* the threads
          kMaxLines,       \* lines after which the number of the file goes up
          CntSize,         \* cnt_ is a uint8_t: 256
          DayLength,       \* clock readings in a day
          MaxClock, MaxLogged   \* bounds

ASSUME AppenderAssumption ==
  /\ kMaxLines \in Nat \ {0} /\ CntSize \in Nat \ {0} /\ DayLength \in Nat \ {0}
  /\ MaxClock \in Nat /\ MaxClock >= 3 /\ MaxLogged \in Nat

VARIABLES
  clock,
  today_, cnt_, lines_, lastAccessTime_,
  file, good,      \* filestream_: the open file, and neither failbit nor badbit
  at, now,         \* where each thread stands in log(), with the event's timestamp
  returned,        \* what each thread's last reopen() returned
  events           \* how many events were logged

flaVars == <<clock, today_, cnt_, lines_, lastAccessTime_, file, good, at, now, returned,
             events>>

NoFile == [day |-> -1, cnt |-> 0]
DayOf(time) == time \div DayLength

Today == DayOf(clock)

\* getWholeFilename: a new day starts the numbers again.
NextCnt == IF Today = today_ THEN cnt_ ELSE 0

\* The constructor opens the first file, if it can.  today_ is not initialised;
\* whatever it holds, the first name has today's date and the number 0.  The
\* clock has left 0 long ago, so that the first event reopens the file.
FlaInit == /\ clock = 3
           /\ today_ = Today /\ cnt_ = 0 /\ lines_ = 0 /\ lastAccessTime_ = 0
           /\ \/ file = [day |-> Today, cnt |-> 0] /\ good = TRUE
              \/ file = NoFile /\ good = FALSE
           /\ at = [t \in Writers |-> "idle"] /\ now = [t \in Writers |-> 0]
           /\ returned = [t \in Writers |-> FALSE] /\ events = 0

-----------------------------------------------------------------------------
\* The log macros take the event's timestamp before the appender is called.
Log(t) == /\ at[t] = "idle"
          /\ events < MaxLogged
          /\ events' = events + 1
          /\ at' = [at EXCEPT ![t] = "check"]
          /\ now' = [now EXCEPT ![t] = clock]
          /\ UNCHANGED <<clock, today_, cnt_, lines_, lastAccessTime_, file, good, returned>>

\* Mutant: the time is noted before the file is reopened.
CheckAndStamp(t) ==
  /\ at[t] = "check"
  /\ IF now[t] >= lastAccessTime_ + 3
       THEN at' = [at EXCEPT ![t] = "reopen"] /\ lastAccessTime_' = now[t]
       ELSE at' = [at EXCEPT ![t] = "write"] /\ UNCHANGED lastAccessTime_
  /\ UNCHANGED <<clock, today_, cnt_, lines_, file, good, now, returned, events>>

Check(t) ==
  /\ at[t] = "check"
  /\ at' = [at EXCEPT ![t] = IF now[t] >= lastAccessTime_ + 3 THEN "reopen" ELSE "write"]
  /\ UNCHANGED <<clock, today_, cnt_, lines_, lastAccessTime_, file, good, now, returned,
                 events>>

\* `if (filestream_)` is false after a failed write: the file is not closed,
\* and open() on an open file fails, although is_open() then returns true.
\* Otherwise open() succeeds, which clears the error bits, or it does not.
reopen(t) ==
  /\ at[t] = "reopen"
  /\ today_' = Today
  /\ cnt_' = NextCnt
  /\ \/ ~good /\ file # NoFile /\ UNCHANGED <<file, good>>
     \/ /\ good \/ file = NoFile
        /\ \/ file' = [day |-> Today, cnt |-> cnt_'] /\ good' = TRUE
           \/ file' = NoFile /\ good' = FALSE
  /\ returned' = [returned EXCEPT ![t] = file' # NoFile]
  /\ at' = [at EXCEPT ![t] = "stamp"]
  /\ UNCHANGED <<clock, lines_, lastAccessTime_, now, events>>

Stamp(t) == /\ at[t] = "stamp"
            /\ lastAccessTime_' = now[t]
            /\ at' = [at EXCEPT ![t] = "write"]
            /\ UNCHANGED <<clock, today_, cnt_, lines_, file, good, now, returned, events>>

Full(n) == n >= kMaxLines

\* A line is counted when the stream is still good after it.  A write can fail
\* (a full disk), and fails on a stream that is not good.
Write(t) ==
  /\ at[t] = "write"
  /\ \/ /\ good
        /\ UNCHANGED good
        /\ lines_' = IF Full(lines_ + 1) THEN 0 ELSE lines_ + 1
        /\ cnt_' = IF Full(lines_ + 1) THEN (cnt_ + 1) % CntSize ELSE cnt_
     \/ good' = FALSE /\ UNCHANGED <<lines_, cnt_>>
  /\ at' = [at EXCEPT ![t] = "idle"]
  /\ UNCHANGED <<clock, today_, lastAccessTime_, file, now, returned, events>>

ClockTick == /\ clock < MaxClock
             /\ clock' = clock + 1
             /\ UNCHANGED <<today_, cnt_, lines_, lastAccessTime_, file, good, at, now, returned,
                            events>>

FlaNext == \/ ClockTick
           \/ \E t \in Writers : Log(t) \/ Check(t) \/ reopen(t) \/ Stamp(t) \/ Write(t)

FlaSpec == FlaInit /\ [][FlaNext]_flaVars

-----------------------------------------------------------------------------
File == [day : 0 .. DayOf(MaxClock), cnt : 0 .. CntSize - 1]

FlaTypeOK ==
  /\ clock \in 0 .. MaxClock /\ today_ \in 0 .. DayOf(MaxClock)
  /\ cnt_ \in 0 .. CntSize - 1 /\ lines_ \in 0 .. kMaxLines - 1
  /\ lastAccessTime_ \in 0 .. MaxClock
  /\ file \in File \cup {NoFile} /\ good \in BOOLEAN
  /\ at \in [Writers -> {"idle", "check", "reopen", "stamp", "write"}]
  /\ now \in [Writers -> 0 .. MaxClock]
  /\ returned \in [Writers -> BOOLEAN] /\ events \in 0 .. MaxLogged

\* f is not an earlier file than g.
Later(f, g) == f.day > g.day \/ (f.day = g.day /\ f.cnt >= g.cnt)

\* Although lastAccessTime_ is read and set without the mutex
\* (Logger.cpp:115-118), a line never reaches the file of a day that ended three
\* clock readings or more before the event, for whoever lets a thread skip the
\* reopening has reopened first; and once a later file was begun, an earlier one
\* is not opened again (Logger.cpp:161-176), as long as the number, an uint8_t,
\* does not wrap.
RightFile ==
  [][/\ \A t \in Writers :
          (at[t] = "write" /\ at'[t] = "idle" /\ good') => file.day >= DayOf(now[t] - 2)
     /\ (file # NoFile /\ file' # NoFile /\ MaxLogged < CntSize) => Later(file', file)]_flaVars

\* "@return true on success" (Logger.h:376-379): when reopen() returns true,
\* lines can be written again.
ReopenMeansReady ==
  [][\A t \in Writers : (at[t] = "reopen" /\ at'[t] = "stamp" /\ returned'[t]) => good']_flaVars
=============================================================================
