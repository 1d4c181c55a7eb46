--------------------------- MODULE MCSelectManager ---------------------------
(***************************************************************************)
(* TLC instance of SelectManager, and of Client.  The two do not interact: *)
(* a behaviour runs one of them, part, and leaves the other where it       *)
(* starts, so that the state space is the sum of the two.                  *)
(***************************************************************************)
EXTENDS SelectManager, Client

VARIABLE part

MCInit == part \in {"select", "client"} /\ Init /\ ClientInit

MCNext == /\ UNCHANGED part
          /\ \/ part = "select" /\ Next /\ UNCHANGED clientVars
             \/ part = "client" /\ ClientNext /\ UNCHANGED vars

MCSpec == /\ MCInit /\ [][MCNext]_<<part, vars, clientVars>>
          /\ part = "select" => Fairness
          /\ part = "client" => ClientFairness
=============================================================================
