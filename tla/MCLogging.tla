------------------------------ MODULE MCLogging ------------------------------
(***************************************************************************)
(* TLC instance of the loggers (Logger over LogFormatter) and of one file  *)
(* appender in detail (FileLogAppender).  A behaviour runs one of the two, *)
(* part, so that the state space is their sum and not their product.       *)
(***************************************************************************)
EXTENDS Logger, FileLogAppender

\* A line with its level, and the other pattern that LogIniter is given.
LevelPattern == <<"$", "LOG_LEVEL", "$", "MESSAGE">>
NamePattern == <<"$", "LOG_NAME", "$", "CHAR:", ":", "$", "LOG_LEVEL", "$", "MESSAGE">>
SomePatterns == {LevelPattern, NamePattern}

Node(kind, hasFile, lvl) == [kind |-> kind, file |-> hasFile, level |-> lvl]

\* One node as meant, and one that lacks what its appenders need.
SomeConfs ==
  {[name |-> Root, level |-> "INFO", formatter |-> NamePattern,
    appenders |-> <<Node("stdout", FALSE, None), Node("file", TRUE, "WARN")>>],
   [name |-> Root, level |-> None, formatter |-> NoPattern,
    appenders |-> <<Node("file", FALSE, None), Node("file", TRUE, None), Node("stdout", FALSE, "INFO")>>]}

Wanted(l, lvl, p, kind) == [name |-> l, level |-> lvl, pattern |-> p, kind |-> kind]
SomeRequests == {Wanted(Root, 1, NamePattern, "file")}
                  \cup {Wanted(l, 2, LevelPattern, "file") : l \in Loggers \ {Root}}

VARIABLE part

vars == <<part, loggerVars, flaVars>>

Init == part \in {"loggers", "appender"} /\ LoggerInit /\ FlaInit

Next == /\ UNCHANGED part
        /\ \/ part = "loggers" /\ LoggerNext /\ UNCHANGED flaVars
           \/ part = "appender" /\ FlaNext /\ UNCHANGED loggerVars

Spec == Init /\ [][Next]_vars /\ LoggerFairness

\* The types of both, and that an appender which a logger lists has a formatter.
TypeOK == LoggerTypeOK /\ ListedHasFormatter /\ FlaTypeOK
=============================================================================
