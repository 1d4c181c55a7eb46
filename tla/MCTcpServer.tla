---------------------------- MODULE MCTcpServer ----------------------------
(***************************************************************************)
(* TLC instance of TcpServer.  A behaviour follows one of two workloads:   *)
(* all peers and the thread FirstUser, or the peer BusyPeer and all user   *)
(* threads.  Both at once would be too many states; the restriction only   *)
(* takes away requests that nobody has to make.                            *)
(***************************************************************************)
EXTENDS TcpServer

CONSTANTS FirstUser, BusyPeer

ASSUME WorkloadAssumption == FirstUser \in Users /\ BusyPeer \in Clients

VARIABLE workload

MCInit == Init /\ workload \in {"peers", "users"}

MCNext == /\ Next
          /\ UNCHANGED workload
          /\ workload = "peers" => \A u \in Users \ {FirstUser} : user'[u] = IdleUser
          /\ workload = "users" => queue' \subseteq {BusyPeer}

MCSpec == MCInit /\ [][MCNext]_<<vars, workload>> /\ Fairness
=============================================================================
