------------------------------- MODULE Logger -------------------------------
(***************************************************************************)
(* Loggers, appenders, LogManager and LogIniter                            *)
(* (src/src/util/logger/Logger.{h,cpp}), used by several threads.          *)
(*                                                                         *)
(* A call is the list of steps it still has to take, todo[t]; a step that  *)
(* takes a mutex and keeps it is followed, further down the list, by the   *)
(* one that releases it.  The mutex of an appender is held only inside one *)
(* step, for nothing else is locked under it.  The order is LogManager,    *)
(* logger, root logger, appender.  What an appender does with a line is    *)
(* LogFormatter, and for a file FileLogAppender.                           *)
(*                                                                         *)
(* setLogger, which could make a cycle of loggers, and null formatters     *)
(* are left out: the library calls neither.                                *)
(***************************************************************************)
EXTENDS LogFormatter, FiniteSets

CONSTANTS Threads,
          Loggers, Root,     \* the names, and the one of the root logger
          Nobody,            \* the holder of a free mutex
          Levels,            \* subset of 0 .. 5
          Patterns, kDefaultFormatPattern,
          Requests,          \* what LogIniter::getLogger is given: [name, level, pattern, kind]
          Confs,             \* configuration nodes given to LogIniter::init
          MaxAppenders, MaxEvents, MaxCalls   \* bounds

NoPattern == <<"null">>

ASSUME LoggerAssumption ==
  /\ Root \in Loggers /\ Nobody \notin Threads /\ Levels \subseteq 0 .. 5
  /\ kDefaultFormatPattern \in Patterns /\ NoPattern \notin Patterns
  /\ \A r \in Requests : /\ r.name \in Loggers /\ r.level \in 0 .. 5 /\ r.pattern \in Patterns
                        /\ r.kind \in {"stdout", "file"}
  /\ \A conf \in Confs : /\ conf.name \in Loggers
                         /\ conf.formatter \in Patterns \cup {NoPattern}
                         /\ Len(conf.appenders) \in Nat
                         /\ DOMAIN conf.appenders = 1 .. Len(conf.appenders)
  /\ {MaxAppenders, MaxEvents, MaxCalls} \subseteq Nat

VARIABLES
  level_, pFormatter_, appenders_,   \* of each logger
  mutex_,                            \* the holder of each logger's mutex
  loggers_, manager_mutex_,          \* LogManager
  appenders,       \* the LogAppenders made so far: [kind, level, pattern]
  colorOn,         \* LogEvent::color_on_ of each event
  todo, calls,
  out              \* history: what each appender wrote, [event, text]

loggerConf == <<level_, pFormatter_, appenders_>>
loggerVars == <<loggerConf, mutex_, loggers_, manager_mutex_, appenders, colorOn, todo, calls,
                out>>

LDEBUG == 1
None == "no level"

\* A formatter parses its pattern once, when it is made.
Formatter == [p \in Patterns |-> items_(p)]

Made(kind, level, pattern) == [kind |-> kind, level |-> level, pattern |-> pattern]

\* LogManager's constructor: the root logger with an appender for stdout.
LoggerInit ==
  /\ level_ = [l \in Loggers |-> LDEBUG]
  /\ pFormatter_ = [l \in Loggers |-> kDefaultFormatPattern]
  /\ appenders_ = [l \in Loggers |-> IF l = Root THEN <<1>> ELSE <<>>]
  /\ mutex_ = [l \in Loggers |-> Nobody]
  /\ loggers_ = {Root} /\ manager_mutex_ = Nobody
  /\ appenders = <<Made("stdout", LDEBUG, kDefaultFormatPattern)>>
  /\ colorOn = <<>>
  /\ todo = [t \in Threads |-> <<>>] /\ calls = 0
  /\ out = <<(<<>>)>>

-----------------------------------------------------------------------------
(* The calls *)

Call(t, steps) == /\ todo[t] = <<>>
                  /\ calls < MaxCalls
                  /\ calls' = calls + 1
                  /\ todo' = [todo EXCEPT ![t] = steps]
                  /\ UNCHANGED <<loggerConf, mutex_, loggers_, manager_mutex_>>

\* The LOG macros: the event is logged when its wrapper is destroyed.
NewEvent(t, l, lvl) ==
  /\ Len(colorOn) < MaxEvents
  /\ l \in loggers_
  /\ colorOn' = Append(colorOn, FALSE)
  /\ Call(t, <<[do |-> "log", at |-> l,
               event |-> [id |-> Len(colorOn) + 1, level |-> lvl, content |-> "content",
                          timestamp |-> "time"]]>>)
  /\ UNCHANGED <<appenders, out>>

\* LogIniter::getLogger: the appender gets its formatter when it is added.
getLogger(t, r) ==
  /\ Len(appenders) < MaxAppenders
  /\ Call(t, <<[do |-> "find", at |-> r.name],
               [do |-> "setLevel", at |-> r.name, level |-> r.level]>>
             \o (IF r.pattern = kDefaultFormatPattern THEN <<>>
                 ELSE <<[do |-> "setFormatter", at |-> r.name, pattern |-> r.pattern]>>)
             \o <<[do |-> "make", at |-> r.name, kind |-> r.kind, level |-> LDEBUG,
                   pattern |-> NoPattern]>>)
  /\ UNCHANGED <<appenders, colorOn, out>>

\* What LogIniter::init does for a node of its list.  An appender whose node has
\* a level reads the level of the whole configuration: an exception ends the
\* call there when that has none, before this appender is added.
ForNode(l, conf, node, pattern) ==
  CASE ~(node.kind = "stdout" \/ (node.kind = "file" /\ node.file)) -> [do |-> "skip"]
    [] OTHER ->
         IF node.level # None /\ conf.level = None THEN [do |-> "throw"]
         ELSE [do |-> "make", at |-> l, kind |-> node.kind, pattern |-> pattern,
               level |-> IF node.level = None THEN LDEBUG ELSE fromString(conf.level)]

\* LogIniter::init(pLogger, conf)
init(t, l, conf) ==
  LET pattern == IF conf.formatter = NoPattern THEN kDefaultFormatPattern ELSE conf.formatter
  IN  /\ l \in loggers_ /\ l = conf.name
      /\ Len(appenders) < MaxAppenders
      /\ Call(t, <<[do |-> "setLevel", at |-> l,
                    level |-> IF conf.level = None THEN LDEBUG ELSE fromString(conf.level)],
                   [do |-> "setFormatter", at |-> l, pattern |-> pattern]>>
                 \o [i \in DOMAIN conf.appenders |->
                       ForNode(l, conf, conf.appenders[i], pattern)])
      /\ UNCHANGED <<appenders, colorOn, out>>

\* The members of Logger and LogAppender that a program calls itself, and
\* LogManager::toYamlString.  An appender may be shared between loggers.
Member(t) ==
  /\ \/ \E l \in loggers_, a \in DOMAIN appenders :
          \/ Call(t, <<[do |-> "add", at |-> l, appender |-> a]>>)
          \/ Call(t, <<[do |-> "remove", at |-> l, appender |-> a]>>)
     \/ \E l \in loggers_ : Call(t, <<[do |-> "clear", at |-> l]>>)
     \/ \E p \in Patterns, a \in DOMAIN appenders :
          Call(t, <<[do |-> "setAppenderFormatter", appender |-> a, pattern |-> p]>>)
     \/ Call(t, <<[do |-> "dumpAll"]>>)
  /\ UNCHANGED <<appenders, colorOn, out>>

-----------------------------------------------------------------------------
(* The steps *)

At(t, step) == todo[t] # <<>> /\ Head(todo[t]).do = step
Step(t) == Head(todo[t])
Continue(t, steps) == todo' = [todo EXCEPT ![t] = steps \o Tail(@)]

\* LogManager::getLogger
find(t) == /\ At(t, "find")
           /\ manager_mutex_ = Nobody
           /\ loggers_' = loggers_ \cup {Step(t).at}
           /\ Continue(t, <<>>)
           /\ UNCHANGED <<loggerConf, mutex_, manager_mutex_, appenders, colorOn, calls, out>>

\* Logger::setLevel takes no lock.
setLevel(t) == /\ At(t, "setLevel")
               /\ level_' = [level_ EXCEPT ![Step(t).at] = Step(t).level]
               /\ Continue(t, <<>>)
               /\ UNCHANGED <<pFormatter_, appenders_, mutex_, loggers_, manager_mutex_, appenders,
                              colorOn, calls, out>>

setFormatter(t) ==
  /\ At(t, "setFormatter")
  /\ mutex_[Step(t).at] = Nobody
  /\ pFormatter_' = [pFormatter_ EXCEPT ![Step(t).at] = Step(t).pattern]
  /\ Continue(t, <<>>)
  /\ UNCHANGED <<level_, appenders_, mutex_, loggers_, manager_mutex_, appenders, colorOn, calls,
                 out>>

setAppenderFormatter(t) ==
  /\ At(t, "setAppenderFormatter")
  /\ appenders' = [appenders EXCEPT ![Step(t).appender].pattern = Step(t).pattern]
  /\ Continue(t, <<>>)
  /\ UNCHANGED <<loggerConf, mutex_, loggers_, manager_mutex_, colorOn, calls, out>>

skip(t) == /\ At(t, "skip")
           /\ Continue(t, <<>>)
           /\ UNCHANGED <<loggerConf, mutex_, loggers_, manager_mutex_, appenders, colorOn, calls,
                          out>>

\* The exception leaves the call.
throw(t) == /\ At(t, "throw")
            /\ todo' = [todo EXCEPT ![t] = <<>>]
            /\ UNCHANGED <<loggerConf, mutex_, loggers_, manager_mutex_, appenders, colorOn, calls,
                           out>>

\* The thread makes an appender, which nobody else has, and adds it.
makeAppender(t) ==
  /\ At(t, "make")
  /\ appenders' = Append(appenders, Made(Step(t).kind, Step(t).level, Step(t).pattern))
  /\ out' = Append(out, <<>>)
  /\ Continue(t, <<[do |-> "add", at |-> Step(t).at, appender |-> Len(appenders) + 1]>>)
  /\ UNCHANGED <<loggerConf, mutex_, loggers_, manager_mutex_, colorOn, calls>>

\* addAppender asks the appender for its formatter, sets it when there is none
\* and puts the appender into the list, all under the logger's mutex; between
\* the first two the appender's own mutex is free.
addAppender(t) ==
  /\ At(t, "add")
  /\ mutex_[Step(t).at] = Nobody
  /\ mutex_' = [mutex_ EXCEPT ![Step(t).at] = t]
  /\ Continue(t, <<[do |-> "put", at |-> Step(t).at, appender |-> Step(t).appender,
                    missing |-> appenders[Step(t).appender].pattern = NoPattern]>>)
  /\ UNCHANGED <<loggerConf, loggers_, manager_mutex_, appenders, colorOn, calls, out>>

putAppender(t) ==
  /\ At(t, "put")
  /\ LET l == Step(t).at
         a == Step(t).appender
     IN  /\ appenders' = [appenders EXCEPT ![a].pattern = IF Step(t).missing THEN pFormatter_[l]
                                                          ELSE @]
         /\ appenders_' = [appenders_ EXCEPT ![l] = Append(@, a)]
         /\ mutex_' = [mutex_ EXCEPT ![l] = Nobody]
  /\ Continue(t, <<>>)
  /\ UNCHANGED <<level_, pFormatter_, loggers_, manager_mutex_, colorOn, calls, out>>

SetList(t, list) ==
  /\ appenders_' = [appenders_ EXCEPT ![Step(t).at] = list]
  /\ Continue(t, <<>>)
  /\ UNCHANGED <<level_, pFormatter_, mutex_, loggers_, manager_mutex_, appenders, colorOn, calls,
                 out>>

\* Mutant: the mutex is not taken.
clearUnlocked(t) == At(t, "clear") /\ SetList(t, <<>>)

clearAppenders(t) == /\ At(t, "clear")
                     /\ mutex_[Step(t).at] = Nobody
                     /\ SetList(t, <<>>)

\* removeAppender erases the first entry of the appender, if there is one.
removeAppender(t) ==
  /\ At(t, "remove")
  /\ mutex_[Step(t).at] = Nobody
  /\ SetList(t, RemoveFirst(appenders_[Step(t).at], Step(t).appender))

\* Mutant: the root logger falls back to itself.
TargetsRootToo(l, event) ==
  IF appenders_[l] = <<>> THEN <<[do |-> "log", at |-> Root, event |-> event]>>
  ELSE [i \in DOMAIN appenders_[l] |-> [do |-> "write", at |-> l, event |-> event,
                                        appender |-> appenders_[l][i]]]

\* Logger::log: with appenders, each of them; without, the root logger.
Targets(l, event) ==
  CASE appenders_[l] # <<>> ->
         [i \in DOMAIN appenders_[l] |-> [do |-> "write", at |-> l, event |-> event,
                                          appender |-> appenders_[l][i]]]
    [] appenders_[l] = <<>> /\ l # Root -> <<[do |-> "log", at |-> Root, event |-> event]>>
    [] OTHER -> <<>>

\* Mutant: the list is copied and the mutex released before the appenders are called.
logUnlocked(t) ==
  /\ At(t, "log")
  /\ LET l == Step(t).at
         passes == Step(t).event.level >= level_[l]
     IN  /\ passes => mutex_[l] = Nobody
         /\ Continue(t, IF passes THEN Targets(l, Step(t).event) ELSE <<>>)
  /\ UNCHANGED <<loggerConf, mutex_, loggers_, manager_mutex_, appenders, colorOn, calls, out>>

\* The level is read without the mutex.
log(t) ==
  /\ At(t, "log")
  /\ LET l == Step(t).at
         passes == Step(t).event.level >= level_[l]
     IN  IF passes
           THEN /\ mutex_[l] = Nobody
                /\ mutex_' = [mutex_ EXCEPT ![l] = t]
                /\ Continue(t, Targets(l, Step(t).event)
                               \o <<[do |-> "logged", at |-> l, event |-> Step(t).event]>>)
           ELSE Continue(t, <<>>) /\ UNCHANGED mutex_
  /\ UNCHANGED <<loggerConf, loggers_, manager_mutex_, appenders, colorOn, calls, out>>

\* Mutant: the colour stays on.
ColorAfterOn(kind, on) == kind = "stdout" \/ on

\* StdoutLogAppender turns the event's colour on and off again.
ColorAfter(kind, on) == IF kind = "stdout" THEN FALSE ELSE on

\* LogAppender::log: the level, and a line in the appender's format.
write(t) ==
  /\ At(t, "write")
  /\ LET a == Step(t).appender
         e == Step(t).event
         color_on == appenders[a].kind = "stdout" \/ colorOn[e.id]
     IN  IF e.level >= appenders[a].level
           THEN /\ out' = [out EXCEPT ![a] = Append(@,
                             [event |-> e.id, logger |-> Step(t).at,
                              text |-> format(Formatter[appenders[a].pattern], e, color_on, Step(t).at)])]
                /\ colorOn' = [colorOn EXCEPT ![e.id] = ColorAfter(appenders[a].kind, @)]
           ELSE UNCHANGED <<out, colorOn>>
  /\ Continue(t, <<>>)
  /\ UNCHANGED <<loggerConf, mutex_, loggers_, manager_mutex_, appenders, calls>>

Unlock(t, step) ==
  /\ At(t, step)
  /\ mutex_' = [mutex_ EXCEPT ![Step(t).at] = Nobody]
  /\ Continue(t, <<>>)
  /\ UNCHANGED <<loggerConf, loggers_, manager_mutex_, appenders, colorOn, calls, out>>

\* The orders in which an unordered_map may come.
Orders(S) == {ls \in [1 .. Cardinality(S) -> S] : IsInjective(ls)}

\* LogManager::toYamlString keeps its mutex while it takes each logger's, and
\* Logger::toYamlString that one while it takes each appender's.
dumpAll(t) ==
  /\ At(t, "dumpAll")
  /\ manager_mutex_ = Nobody
  /\ manager_mutex_' = t
  /\ \E ls \in Orders(loggers_) :
       Continue(t, [k \in 1 .. 2 * Len(ls) |->
                      [do |-> IF k % 2 = 1 THEN "dump" ELSE "dumped", at |-> ls[(k + 1) \div 2]]]
                   \o <<[do |-> "dumpedAll"]>>)
  /\ UNCHANGED <<loggerConf, mutex_, loggers_, appenders, colorOn, calls, out>>

dump(t) == /\ At(t, "dump")
           /\ mutex_[Step(t).at] = Nobody
           /\ mutex_' = [mutex_ EXCEPT ![Step(t).at] = t]
           /\ Continue(t, <<>>)
           /\ UNCHANGED <<loggerConf, loggers_, manager_mutex_, appenders, colorOn, calls, out>>

dumpedAll(t) == /\ At(t, "dumpedAll")
                /\ manager_mutex_' = Nobody
                /\ Continue(t, <<>>)
                /\ UNCHANGED <<loggerConf, mutex_, loggers_, appenders, colorOn, calls, out>>

Do(t) == \/ find(t) \/ setLevel(t) \/ setFormatter(t) \/ setAppenderFormatter(t)
         \/ skip(t) \/ throw(t) \/ makeAppender(t) \/ addAppender(t) \/ putAppender(t)
         \/ removeAppender(t) \/ clearAppenders(t)
         \/ log(t) \/ write(t) \/ Unlock(t, "logged")
         \/ dumpAll(t) \/ dump(t) \/ Unlock(t, "dumped") \/ dumpedAll(t)

Request(t) ==
  \/ \E l \in Loggers, lvl \in Levels : NewEvent(t, l, lvl)
  \/ \E r \in Requests : getLogger(t, r)
  \/ \E l \in Loggers, conf \in Confs : init(t, l, conf)
  \/ Member(t)

LoggerNext == \E t \in Threads : Request(t) \/ Do(t)

LoggerSpec == LoggerInit /\ [][LoggerNext]_loggerVars

\* Every thread runs, and one that waits for a mutex that keeps becoming free
\* gets it.
LoggerFairness == \A t \in Threads : SF_loggerVars(Do(t))

LoggerFairSpec == LoggerSpec /\ LoggerFairness

-----------------------------------------------------------------------------
Holders == Threads \cup {Nobody}

LoggerTypeOK ==
  /\ level_ \in [Loggers -> 0 .. 5] /\ pFormatter_ \in [Loggers -> Patterns]
  /\ appenders_ \in [Loggers -> Seq(DOMAIN appenders)]
  /\ mutex_ \in [Loggers -> Holders] /\ manager_mutex_ \in Holders
  /\ loggers_ \subseteq Loggers /\ Root \in loggers_
  /\ appenders \in Seq([kind : {"stdout", "file"}, level : 0 .. 5,
                        pattern : Patterns \cup {NoPattern}])
  /\ colorOn \in Seq(BOOLEAN) /\ calls \in 0 .. MaxCalls
  /\ DOMAIN out = DOMAIN appenders

Wrote(a, i, l, e) == out[a][i].logger = l /\ out[a][i].event = e
Before(a, l, e, f) == \E i, j \in DOMAIN out[a] : i < j /\ Wrote(a, i, l, e) /\ Wrote(a, j, l, f)

\* Events that went through one logger appear in the same order in all of its
\* appenders, since its mutex is kept while they are called (Logger.cpp:469-482).
SameOrder ==
  \A a, b \in DOMAIN out, l \in Loggers, e, f \in DOMAIN colorOn :
    e # f /\ Before(a, l, e, f) => ~Before(b, l, f, e)

\* When a logger has called its appenders, the event stands as often in each of
\* them as the list has it, up to the appender's level: nobody added, removed
\* or cleared in between (Logger.cpp:447-482).
WrittenToAll ==
  [][\A t \in Threads :
       (At(t, "logged") /\ mutex_'[Step(t).at] = Nobody) =>
          LET l == Step(t).at
              e == Step(t).event
          IN  \A a \in DOMAIN appenders :
                Cardinality({i \in DOMAIN out[a] : Wrote(a, i, l, e.id)}) =
                  IF e.level >= appenders[a].level
                    THEN Cardinality({i \in DOMAIN appenders_[l] : appenders_[l][i] = a})
                    ELSE 0]_loggerVars

\* An appender that a logger lists has a formatter: log() uses it untested
\* (Logger.cpp:121, 189, 451-454).
ListedHasFormatter ==
  \A l \in Loggers : \A i \in DOMAIN appenders_[l] : appenders[appenders_[l][i]].pattern # NoPattern

\* The colours of the terminal never reach a file, whichever appenders a logger
\* lists before it (Logger.cpp:185-192).
ColourOnTerminalOnly ==
  \A a \in DOMAIN out : appenders[a].kind = "file" =>
    \A i \in DOMAIN out[a] : \A j \in DOMAIN out[a][i].text : ~out[a][i].text[j].coloured

\* Thread t stands before a mutex that is taken.
Waits(t) ==
  \/ Step(t).do \in {"find", "dumpAll"} /\ manager_mutex_ # Nobody
  \/ Step(t).do \in {"setFormatter", "add", "remove", "clear", "dump"} /\ mutex_[Step(t).at] # Nobody
  \/ /\ Step(t).do = "log" /\ Step(t).event.level >= level_[Step(t).at]
     /\ mutex_[Step(t).at] # Nobody

\* While calls are under way, one of them can go on: the threads never all wait
\* for mutexes that others among them hold, although log() keeps a logger's mutex
\* while it takes the root logger's (Logger.cpp:469-482, 498-556).
NoDeadlock == (\E t \in Threads : todo[t] # <<>>) =>
                \E t \in Threads : todo[t] # <<>> /\ ~Waits(t)

\* Every call returns: the mutexes of the manager, the loggers, the root logger
\* and the appenders are taken in one order (Logger.cpp:447-556).
LogCallsReturn == \A t \in Threads : todo[t] # <<>> ~> todo[t] = <<>>

=============================================================================
