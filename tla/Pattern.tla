------------------------------- MODULE Pattern -------------------------------
(***************************************************************************)
(* A LogFormatter by itself: whoever configures it means a list of         *)
(* directives, spells one after the other as a pattern and gets what init  *)
(* makes of it.                                                            *)
(***************************************************************************)
EXTENDS LogFormatter

CONSTANTS Directives,        \* the directives that are meant: records [kind, arg]
          MaxDirectives      \* bound on the length of a pattern

\* What can be spelt: a directive has a name that the formatter knows, only text
\* and times have an argument, and no argument holds an ID_TOKEN, which cannot be
\* escaped.
ASSUME PatternAssumption ==
  /\ MaxDirectives \in Nat
  /\ \A d \in Directives :
       /\ d = [kind |-> d.kind, arg |-> d.arg] /\ d.kind \in s_format_items
       /\ d.arg \in Seq(STRING) /\ ID_TOKEN \notin ToSet(d.arg)
       /\ d.kind = "CHAR" => d.arg # <<>>
       /\ d.kind \notin {"CHAR", "DATETIME"} => d.arg = <<>>

VARIABLES directives, pattern_, items

formatterVars == <<directives, pattern_, items>>

\* How a directive is spelt: by name, behind an ID_TOKEN.
Named(d) == CASE d.kind = "CHAR" -> <<"CHAR:">> \o d.arg
              [] d.kind = "DATETIME" /\ d.arg # DefaultTime ->
                   <<"DATETIME", Brace>> \o d.arg \o <<EndBrace>>
              [] OTHER -> <<d.kind>>

Spelled(d) == <<ID_TOKEN>> \o Named(d)

FormatterInit == directives = <<>> /\ pattern_ = <<>> /\ items = <<>>

\* A formatter is made of the pattern with one directive more.  The empty pattern
\* is left out: init takes it for an error.
Construct == /\ Len(directives) < MaxDirectives
             /\ \E d \in Directives :
                  directives' = Append(directives, d) /\ pattern_' = pattern_ \o Spelled(d)
             /\ items' = items_(pattern_')

FormatterSpec == FormatterInit /\ [][Construct]_formatterVars

-----------------------------------------------------------------------------
\* init cuts, parses and looks up (Logger.cpp:347-444), and a time format may
\* hold the characters the pattern itself is made of: the formatter prints
\* what was meant, item by item, and sees no error in it.
MeansWhatItSpells == items = directives /\ (directives # <<>> => ~hasError_(pattern_))
=============================================================================
