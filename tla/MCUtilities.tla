----------------------------- MODULE MCUtilities -----------------------------
(***************************************************************************)
(* TLC instance of seven components that do not interact: Arena, Buffer,   *)
(* LRUReplacer, the two queues of timers, the byte order of integers and   *)
(* LogFormatter.  A behaviour runs one of them, part, and leaves the       *)
(* others where they start, so that the state space is the sum of theirs   *)
(* and not the product.                                                    *)
(***************************************************************************)
EXTENDS Arena, Buffer, LRUReplacer, TimerTaskMap, TimerTaskHeap, ByteOrder, Pattern

SomeStrings == {<<1>>, <<1, 2>>, <<1, 1, 2>>}
SomeTargets == {<<>>, <<1>>, <<2>>, <<1, 2>>, <<1, 1, 2>>}

\* Time formats with braces in them, and one that is the default.
SomeDirectives == {[kind |-> "CHAR", arg |-> <<"[">>], [kind |-> "CHAR", arg |-> <<"}", "]">>],
                   [kind |-> "DATETIME", arg |-> DefaultTime],
                   [kind |-> "DATETIME", arg |-> <<"%H">>],
                   [kind |-> "DATETIME", arg |-> <<"{", "%H", "}", "%M">>],
                   [kind |-> "MESSAGE", arg |-> <<>>], [kind |-> "LOG_LEVEL", arg |-> <<>>]}

VARIABLE part

timerVars == <<clock, mapped, mapHanded, heaped, heapHanded, inside>>
vars == <<part, arenaVars, bufVars, lruVars, timerVars, formatterVars, codecVars>>

Init == /\ part \in {"arena", "buffer", "lru", "map", "heap", "formatter", "codec"}
        /\ ArenaInit /\ BufInit /\ LRUInit /\ MapInit /\ HeapInit /\ CodecInit
        /\ FormatterInit
        /\ part # "heap" => inside /\ heaped = <<>>

Next ==
  /\ UNCHANGED part
  /\ \/ /\ part = "arena" /\ ArenaNext
        /\ UNCHANGED <<bufVars, lruVars, timerVars, formatterVars, codecVars>>
     \/ /\ part = "buffer" /\ BufNext
        /\ UNCHANGED <<arenaVars, lruVars, timerVars, formatterVars, codecVars>>
     \/ /\ part = "lru" /\ LRUNext
        /\ UNCHANGED <<arenaVars, bufVars, timerVars, formatterVars, codecVars>>
     \/ /\ part = "map" /\ MapNext /\ UNCHANGED <<heaped, heapHanded, inside>>
        /\ UNCHANGED <<arenaVars, bufVars, lruVars, formatterVars, codecVars>>
     \/ /\ part = "heap" /\ HeapNext /\ UNCHANGED <<mapped, mapHanded>>
        /\ UNCHANGED <<arenaVars, bufVars, lruVars, formatterVars, codecVars>>
     \/ /\ part = "formatter" /\ Construct
        /\ UNCHANGED <<arenaVars, bufVars, lruVars, timerVars, codecVars>>
     \/ /\ part = "codec" /\ CodecNext
        /\ UNCHANGED <<arenaVars, bufVars, lruVars, timerVars, formatterVars>>

Spec == Init /\ [][Next]_vars
=============================================================================
