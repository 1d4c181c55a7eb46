---------------------------- MODULE LogFormatter ----------------------------
(***************************************************************************)
(* LogFormatter (src/src/util/logger/Logger.cpp): a pattern is parsed once *)
(* into items, and every line of a log is what the items print.  A pattern *)
(* is a sequence of symbols: a character, or a keyword that the parser     *)
(* compares as a whole ("CHAR:", "DATETIME" and the names of the items).   *)
(***************************************************************************)
EXTENDS Integers, Sequences, SequencesExt

ID_TOKEN == "$"
Brace == "{"
EndBrace == "}"
DefaultTime == <<"%Y-%m-%d %H:%M:%S">>

\* The names s_format_items knows.
s_format_items == {"MESSAGE", "LOG_LEVEL", "TOTAL_MS", "LOG_NAME", "DATETIME", "FILENAME",
                   "LINE", "CHAR", "FUNCTION_NAME"}

Parsed(id, arg, ok) == [id |-> id, arg |-> arg, ok |-> ok]

-----------------------------------------------------------------------------
\* Mutant: the time format ends at the first brace.
timefmtToFirst(patToken) ==
  LET braces == {i \in DOMAIN patToken : patToken[i] = EndBrace}
  IN  SubSeq(patToken, 3, IF braces = {} THEN Len(patToken)
                          ELSE (CHOOSE i \in braces : \A j \in braces : i <= j) - 1)

\* substr(9, rfind('}') - 9): up to the last brace, or all of the rest when
\* there is none, for npos is larger than 9 too and no format is an error.
timefmt(patToken) ==
  LET braces == {i \in DOMAIN patToken : patToken[i] = EndBrace}
  IN  SubSeq(patToken, 3, IF braces = {} THEN Len(patToken)
                          ELSE (CHOOSE i \in braces : \A j \in braces : i >= j) - 1)

\* DATETIME with anything but a brace after it has the default format.
parsePatToken(patToken) ==
  CASE Head(patToken) = "CHAR:" ->
         Parsed(<<"CHAR">>, Tail(patToken), Len(patToken) > 1)
    [] Head(patToken) = "DATETIME" ->
         Parsed(<<"DATETIME">>,
                IF Len(patToken) > 1 /\ patToken[2] = Brace THEN timefmt(patToken)
                ELSE DefaultTime, TRUE)
    [] OTHER -> Parsed(patToken, <<>>, TRUE)

\* init's loop goes over the pattern and keeps the pieces parsed so far and the
\* characters since the last ID_TOKEN; an empty piece is skipped.
Pushed(scan) == IF scan.token = <<>> THEN scan.vec ELSE Append(scan.vec, parsePatToken(scan.token))

Cut(scan, c) == IF c = ID_TOKEN THEN [vec |-> Pushed(scan), token |-> <<>>]
                ELSE [vec |-> scan.vec, token |-> Append(scan.token, c)]

Scanned(pattern) ==
  LET upTo[i \in 0 .. Len(pattern)] == IF i = 0 THEN [vec |-> <<>>, token |-> <<>>]
                                       ELSE Cut(upTo[i - 1], pattern[i])
  IN  upTo[Len(pattern)]

\* The last piece, when it is empty, stands for an error without a text.
ParsedPieces(pattern) ==
  LET scan == Scanned(pattern)
  IN  IF scan.token = <<>> THEN Append(scan.vec, Parsed(<<>>, <<>>, FALSE)) ELSE Pushed(scan)

Supported(p) == Len(p.id) = 1 /\ p.id[1] \in s_format_items

\* A piece that is an error prints its name, one that is not supported an
\* error text with it; the other items print as their name says.
Item(p) == CASE ~p.ok -> [kind |-> "STRING", arg |-> p.id]
             [] p.ok /\ ~Supported(p) -> [kind |-> "STRING", arg |-> <<"UNSUPPORTED">> \o p.id]
             [] OTHER -> [kind |-> p.id[1], arg |-> p.arg]

items_(pattern) == [i \in DOMAIN ParsedPieces(pattern) |-> Item(ParsedPieces(pattern)[i])]

hasError_(pattern) == \E p \in ToSet(ParsedPieces(pattern)) : p.ok /\ ~Supported(p)

-----------------------------------------------------------------------------
\* LogLevel: 0 is LUNKNOWN, 1 to 5 are LDEBUG to LFATAL.
LevelNames == <<"DEBUG", "INFO", "WARN", "ERROR", "FATAL">>
toString(level) == IF level \in DOMAIN LevelNames THEN LevelNames[level] ELSE "NONE"
fromString(str) == SelectInSeq(LevelNames, LAMBDA n : n = str)

\* What one item prints of an event that is logged by the logger called name.
Printed(item, event, name) ==
  CASE item.kind = "MESSAGE" -> <<event.content>>
    [] item.kind = "LOG_LEVEL" -> <<toString(event.level)>>
    [] item.kind = "LOG_NAME" -> <<name>>
    [] item.kind \in {"CHAR", "STRING"} -> item.arg
    [] item.kind = "DATETIME" ->
         <<event.timestamp, IF item.arg = <<>> THEN DefaultTime ELSE item.arg>>
    [] OTHER -> <<item.kind>>     \* a field of the event that no property tells apart

\* The level is printed between two colour codes; LUNKNOWN has no colour.
Coloured(item, event, color_on) == item.kind = "LOG_LEVEL" /\ color_on /\ event.level # 0

\* A line: what each item prints, and whether in colour.
format(items, event, color_on, name) ==
  [i \in DOMAIN items |-> [text |-> Printed(items[i], event, name),
                           coloured |-> Coloured(items[i], event, color_on)]]
=============================================================================
