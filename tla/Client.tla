-------------------------------- MODULE Client --------------------------------
(***************************************************************************)
(* TcpClient (src/src/net/tcp/TcpClient.cpp) with the Connector it owns    *)
(* (src/src/net/Connector.cpp).                                            *)
(*                                                                         *)
(* Users call start and stop from any thread; nothing is locked.  A failed *)
(* attempt posts a retry to the task scheduler, whose loop thread runs it: *)
(* addTriggerEventForce looks at the delay it is given only when its queue *)
(* is full, so the retries follow each other at once.  Each thread is in   *)
(* connect() on its own; connecting_, retry_times_ and the interval are    *)
(* shared and plain, so that a load and the store after it are two steps.  *)
(***************************************************************************)
EXTENDS Integers, FiniteSets

CONSTANTS Users,           \* threads that call start and stop
          Loop,            \* the scheduler's thread
          MaxCalls         \* bound: calls of start and stop

ASSUME ClientAssumption == Loop \notin Users /\ MaxCalls \in Nat

VARIABLES
  \* TcpClient
  client_running_,         \* TcpClient::running_
  conn_,                   \* does conn_ hold a connection?
  crashed,                 \* stop() has used a conn_ that holds none
  \* Connector
  connecting_, retry_times_, next_retry_interval_,
  sock,                    \* the one socket of the Connector
  \* the scheduler
  retries,                 \* retries posted and not yet run
  \* threads
  at,                      \* where each thread stands
  loaded,                  \* the retry_times_ that the loop's -- has read
  \* history
  calls,                   \* calls of start and stop so far
  retried                  \* attempts made by retries, counted up to 6

tcpClientVars == <<client_running_, conn_, crashed>>
connectorVars == <<connecting_, retry_times_, next_retry_interval_, sock, retries>>
clientVars == <<tcpClientVars, connectorVars, at, loaded, calls, retried>>

Threads == Users \cup {Loop}

ClientInit ==
  /\ client_running_ = FALSE /\ conn_ = FALSE /\ crashed = FALSE
  /\ connecting_ = FALSE /\ retry_times_ = 5 /\ next_retry_interval_ = 500
  /\ sock = "fresh" /\ retries = 0
  /\ at = [t \in Threads |-> "idle"] /\ loaded = 0
  /\ calls = 0 /\ retried = 0

Go(t, place) == at' = [at EXCEPT ![t] = place]

\* Where a thread goes on when its connect() returns true or false.
Return(t, r) == Go(t, IF t # Loop THEN "started" ELSE IF r THEN "idle" ELSE "load")

-----------------------------------------------------------------------------
(* Connector::connect *)

\* Mutant: the last retry is allowed one more attempt.
mayTryOnceMore == ~connecting_ /\ retry_times_ >= 0

mayTry == ~connecting_ /\ retry_times_ > 0

Enter(t) == /\ at[t] = "connect"
            /\ IF mayTry THEN Go(t, "attempt") ELSE Return(t, FALSE)
            /\ UNCHANGED <<tcpClientVars, connectorVars, loaded, calls, retried>>

\* socket_api::connect on a socket that was never connected, of which the
\* network decides, or on one that is connected or closed, which fails.
Attempt(t) ==
  /\ at[t] = "attempt"
  /\ retried' = IF t = Loop /\ retried < 6 THEN retried + 1 ELSE retried
  /\ \/ /\ retries' = retries + 1
        /\ Return(t, FALSE)
        /\ UNCHANGED sock
     \/ /\ sock = "fresh"
        /\ sock' = "connected"
        /\ Go(t, "callback")
        /\ UNCHANGED retries
  /\ UNCHANGED <<tcpClientVars, connecting_, retry_times_, next_retry_interval_,
                 loaded, calls>>

\* Mutant: the callback is left out.
NoCallback(t) == /\ at[t] = "callback"
                 /\ Go(t, "settle")
                 /\ UNCHANGED <<tcpClientVars, connectorVars, loaded, calls, retried>>

\* connect_cb_: TcpClient::onConnect makes a connection of the result of
\* connect, 0, which is not the socket's descriptor.
Callback(t) == /\ at[t] = "callback"
               /\ conn_' = TRUE
               /\ Go(t, "settle")
               /\ UNCHANGED <<client_running_, crashed, connectorVars, loaded, calls,
                              retried>>

Settle(t) == /\ at[t] = "settle"
             /\ next_retry_interval_' = 500
             /\ retry_times_' = 5
             /\ connecting_' = TRUE
             /\ Return(t, TRUE)
             /\ UNCHANGED <<tcpClientVars, sock, retries, loaded, calls, retried>>

-----------------------------------------------------------------------------
(* The retry that connect posts. *)

Double == /\ at[Loop] = "idle"
          /\ retries > 0
          /\ retries' = retries - 1
          /\ next_retry_interval_' = IF 2 * next_retry_interval_ > 30000
                                       THEN 30000 ELSE 2 * next_retry_interval_
          /\ Go(Loop, "connect")
          /\ UNCHANGED <<tcpClientVars, connecting_, retry_times_, sock, loaded,
                         calls, retried>>

Load == /\ at[Loop] = "load"
        /\ loaded' = retry_times_
        /\ Go(Loop, "store")
        /\ UNCHANGED <<tcpClientVars, connectorVars, calls, retried>>

\* Mutant: a failed retry leaves the count as it is.
StoreSame == /\ at[Loop] = "store"
             /\ Go(Loop, "idle")
             /\ UNCHANGED <<tcpClientVars, connectorVars, loaded, calls, retried>>

Store == /\ at[Loop] = "store"
         /\ retry_times_' = loaded - 1
         /\ Go(Loop, "idle")
         /\ UNCHANGED <<tcpClientVars, connecting_, next_retry_interval_, sock,
                        retries, loaded, calls, retried>>

-----------------------------------------------------------------------------
(* TcpClient::start and stop *)

Call(u) == /\ at[u] = "idle"
           /\ calls < MaxCalls
           /\ calls' = calls + 1
           /\ Go(u, IF client_running_ THEN "stop" ELSE "connect")
           /\ UNCHANGED <<tcpClientVars, connectorVars, loaded, retried>>

\* The result of connect is not looked at.
Started(u) == /\ at[u] = "started"
              /\ client_running_' = TRUE
              /\ Go(u, "idle")
              /\ UNCHANGED <<conn_, crashed, connectorVars, loaded, calls, retried>>

\* conn_->disconnect() posts a close to the connection's own scheduler.
Stop(u) == /\ at[u] = "stop"
           /\ crashed' = ~conn_
           /\ Go(u, "close")
           /\ UNCHANGED <<client_running_, conn_, connectorVars, loaded, calls, retried>>

\* Connector::close()
Close(u) == /\ at[u] = "close"
            /\ sock' = IF connecting_ THEN "closed" ELSE sock
            /\ Go(u, IF connecting_ THEN "closing" ELSE "stopping")
            /\ UNCHANGED <<tcpClientVars, connecting_, retry_times_,
                           next_retry_interval_, retries, loaded, calls, retried>>

Closing(u) == /\ at[u] = "closing"
              /\ connecting_' = FALSE
              /\ Go(u, "stopping")
              /\ UNCHANGED <<tcpClientVars, retry_times_, next_retry_interval_,
                             sock, retries, loaded, calls, retried>>

Stopped(u) == /\ at[u] = "stopping"
              /\ client_running_' = FALSE
              /\ Go(u, "idle")
              /\ UNCHANGED <<conn_, crashed, connectorVars, loaded, calls, retried>>

Connect(t) == Enter(t) \/ Attempt(t) \/ Callback(t) \/ Settle(t)
Retry == Double \/ Load \/ Store \/ Connect(Loop)
User(u) == Connect(u) \/ Started(u) \/ Stop(u) \/ Close(u) \/ Closing(u) \/ Stopped(u)

\* A crash ends the process.
ClientNext == ~crashed /\ (Retry \/ \E u \in Users : Call(u) \/ User(u))

\* Threads run; nobody has to call.
ClientFairness == /\ WF_clientVars(~crashed /\ Retry)
                  /\ \A u \in Users : WF_clientVars(~crashed /\ User(u))

ClientSpec == ClientInit /\ [][ClientNext]_clientVars /\ ClientFairness

-----------------------------------------------------------------------------
Places == {"idle", "connect", "attempt", "callback", "settle", "started", "load", "store",
           "stop", "close", "closing", "stopping"}

ClientTypeOK ==
  /\ client_running_ \in BOOLEAN /\ conn_ \in BOOLEAN /\ crashed \in BOOLEAN
  /\ connecting_ \in BOOLEAN /\ retry_times_ \in Int /\ retry_times_ <= 5
  /\ next_retry_interval_ \in {500, 1000, 2000, 4000, 8000, 16000, 30000}
  /\ sock \in {"fresh", "connected", "closed"} /\ retries \in Nat
  /\ at \in [Threads -> Places] /\ loaded \in Int /\ loaded <= 5
  /\ calls \in 0 .. MaxCalls /\ retried \in 0 .. 6

\* Each failed attempt posts a retry and each failed retry lowers retry_times_
\* (Connector.cpp:28-36): however many chains of retries the calls of start
\* have begun, the retries make five attempts until one of them, or a user,
\* is through.
RetriesBounded == sock = "fresh" => retried <= 5

\* A retry whose attempt fails posts the next one before it counts
\* (Connector.cpp:28): the chains still come to an end, unless the process
\* does.
RetriesEnd == <>[](crashed \/ (retries = 0 /\ at[Loop] = "idle"))

\* connecting_ is set by one thread and read by another, which then uses
\* conn_ and the socket (Connector.cpp:39-42, TcpClient.cpp:31-34): while it is
\* set the connection is there, and the socket of a client that is connecting
\* is not one that never was.
ConnectedHasConnection == connecting_ => conn_ /\ sock # "fresh"
=============================================================================
